----------------------------- MODULE AgentProofs -----------------------------
(***************************************************************************)
(* Proofs about Agent.                                                     *)
(*                                                                         *)
(* What the state file records is true for any number of commands at once  *)
(* and for both ways to save.  The file is a copy of what some command had *)
(* in memory, so the invariant is stated of every copy: those of the       *)
(* commands, the temporary file and the file itself.  Relays, object files *)
(* and published files are never taken back, so that what one copy records *)
(* stays true while others work.                                           *)
(*                                                                         *)
(* That nothing is delivered twice, that a poll is complete and that agent *)
(* A's file can be read need one command at a time: the proofs add what    *)
(* the one command's memory has to do with the file.                       *)
(***************************************************************************)
EXTENDS Agent, TLAPS

Counters == {"idle", "object", "write", "copy", "copying", "post", "relay", "listing",
             "consider", "save", "saving", "replace", "print"}
Progress == {"none", "partial", "whole"}

ProcRecords ==
    [pc : Counters, command : {None, "init", "publish", "submit", "poll"}, st : States,
     item : Items \cup {None}, relays : SUBSET Relays, relay : Relays \cup {None},
     stored : BOOLEAN, errors : BOOLEAN, base : SUBSET Items, queue : SUBSET Items,
     processed : SUBSET Ids, new : SUBSET Ids, handle : {"none", "tmp", "state"},
     owed : SUBSET Items]

\* The relays and the directories, H, O and C for held, objects and copies.
StoresOK(H, O, C) ==
    /\ H \in [Relays -> SUBSET Items]
    /\ O \in [Objects -> Progress]
    /\ C \in [Own -> Progress]

\* Relays, and files that are there, are never taken back.
Grown(H, O, C, G, P, D) ==
    /\ \A r \in Relays : H[r] \subseteq G[r]
    /\ \A o \in Objects : O[o] # "none" => P[o] # "none"
    /\ \A a \in Own : C[a] # "none" => D[a] # "none"

\* What a copy of the state records.
Taken(i, H, C) == \E r \in Relays, a \in Own : a.id = i /\ a \in H[r] /\ C[a] # "none"
Recorded(st, H, O, C) ==
    /\ st \in States
    /\ \A i \in st.published : Taken(i, H, C)
    /\ \A o \in st.objects : O[o] # "none"

\* What a command knows of the item it publishes or stores.
PublishOK(v, H, O, C) ==
    /\ v.pc \in {"object", "write"} =>
         /\ v.item \in Items /\ v.item.type = "pointer"
         /\ v.command = "poll" \/ (v.command = "publish" /\ v.item \in Own /\ ~v.stored)
    /\ v.pc = "write" => O[v.item.object] # "none"
    /\ v.pc \in {"copy", "copying", "post"} =>
         /\ v.item \in Own /\ v.command \in {"publish", "submit"}
         /\ v.command = "publish" /\ v.item.type = "pointer" => O[v.item.object] # "none"
    /\ v.pc \in {"copy", "copying"} => ~v.stored
    /\ v.pc \in {"copying", "post"} => C[v.item] # "none"
    /\ v.pc = "post" /\ v.stored => \E r \in Relays : v.item \in H[r]

\* Where an item that a poll owes is.
Due(a, v, H) ==
    \/ a.id \in v.st.seen
    \/ /\ v.pc \in {"relay", "listing", "consider", "object", "write"}
       /\ \/ \E r \in v.relays : a \in H[r]
          \/ v.pc = "listing" /\ a \in v.base
          \/ v.pc \in {"consider", "object", "write"} /\ a \in v.queue

\* What a poll knows of the items it has met.
PollOK(v, H) ==
    /\ v.processed \subseteq v.st.seen /\ v.new \subseteq v.st.seen
    /\ v.pc \in {"relay", "listing", "consider"} => v.command = "poll"
    /\ v.pc = "listing" => v.relay \in Relays
    /\ v.new # {} => v.command = "poll"
    /\ v.command = "poll" /\ ~v.errors => \A a \in v.owed : a.verdict = "valid" => Due(a, v, H)

ProcOK(v, H, O, C) ==
    /\ v \in ProcRecords /\ Recorded(v.st, H, O, C)
    /\ PublishOK(v, H, O, C) /\ PollOK(v, H)

\* The invariant of a directory in which any number of commands run.
DirectoryInv ==
    /\ agent \in {"A", "B"}
    /\ StoresOK(held, objects, copies)
    /\ state # Torn => Recorded(state, held, objects, copies)
    /\ tmp \notin {Torn, NoFile} => Recorded(tmp, held, objects, copies)
    /\ proc = [p \in Procs |-> proc[p]]
    /\ \A p \in Procs : ProcOK(proc[p], held, objects, copies)
    /\ delivered \in [Ids -> 0..MaxDelivered]

\* What the memory v of the one command has to do with the files S and T,
\* state.json and its temporary file, and with what was delivered, d.
AloneOK(v, S, T, d, ag) ==
    /\ v.handle = IF v.pc = "saving" THEN (IF ag = "A" THEN "tmp" ELSE "state") ELSE "none"
    /\ \A i \in Ids : d[i] <= 1
    /\ \A i \in Ids : d[i] > 0 =>
         /\ i \notin v.new
         /\ S # Torn => i \in S.seen
         /\ v.pc # "idle" /\ v.command # "submit" => i \in v.st.seen
    /\ v.command = "submit" => v.pc \in {"idle", "post", "print"}
    /\ v.pc = "replace" => T = v.st /\ ag = "A"
    /\ v.pc = "print" /\ v.command = "poll" => S = v.st
    /\ ag = "A" => S # Torn

SequentialInv == \A p \in Procs : AloneOK(proc[p], state, tmp, delivered, agent)

\* Nothing runs beside a command.
OneCommand == \E p : Procs = {p}

-----------------------------------------------------------------------------
(***************************************************************************)
(* The memory of a command                                                 *)
(***************************************************************************)

\* Stores that grow leave true what a copy of the state records.
LEMMA GrownRecorded ==
    ASSUME NEW H, NEW O, NEW C, NEW G, NEW P, NEW D, Grown(H, O, C, G, P, D),
           NEW st, Recorded(st, H, O, C)
    PROVE  Recorded(st, G, P, D)
<1>1. \A i \in st.published : Taken(i, G, D)
    BY DEF Recorded, Taken, Grown
<1>2. \A o \in st.objects : P[o] # "none"
    BY DEF Recorded, Grown, States
<1> QED  BY <1>1, <1>2 DEF Recorded

\* And they leave a command as it is.
LEMMA GrownProcOK ==
    ASSUME NEW H, NEW O, NEW C, NEW G, NEW P, NEW D, Grown(H, O, C, G, P, D),
           NEW v, ProcOK(v, H, O, C)
    PROVE  ProcOK(v, G, P, D)
<1>1. Recorded(v.st, G, P, D)
    BY GrownRecorded DEF ProcOK
<1>2. \A a \in Items : a.type = "pointer" => a.object \in Objects
    BY AgentAssumption DEF Objects
<1>3. PublishOK(v, G, P, D)
    BY <1>2, AgentAssumption DEF PublishOK, ProcOK, Grown
<1>4. ASSUME NEW a, Due(a, v, H)
      PROVE  Due(a, v, G)
    BY <1>4 DEF Due, ProcOK, ProcRecords, Grown
<1>5. PollOK(v, G)
    BY <1>4 DEF PollOK, ProcOK
<1> QED  BY <1>1, <1>3, <1>5 DEF ProcOK

\* A command that is over.
LEMMA IdleOK ==
    ASSUME NEW H, NEW O, NEW C
    PROVE  ProcOK(Idle, H, O, C)
<1>1. Fresh \in States /\ Fresh.published = {} /\ Fresh.objects = {}
    BY DEF Fresh, States
<1>2. Idle \in ProcRecords
    BY <1>1 DEF Idle, ProcRecords, Counters
<1>3. /\ Idle.pc = "idle" /\ Idle.st = Fresh /\ Idle.owed = {} /\ Idle.new = {} /\ Idle.processed = {}
    BY DEF Idle
<1> QED  BY <1>1, <1>2, <1>3 DEF ProcOK, Recorded, PublishOK, PollOK

\* A command begins.
LEMMA StartInitOK ==
    ASSUME NEW H, NEW O, NEW C, NEW st, Recorded(st, H, O, C)
    PROVE  ProcOK([Idle EXCEPT !.pc = "save", !.command = "init", !.st = st], H, O, C)
<1> DEFINE n == [Idle EXCEPT !.pc = "save", !.command = "init", !.st = st]
<1>1. n \in ProcRecords
    BY DEF Idle, ProcRecords, Counters, Recorded
<1>2. n.pc = "save" /\ n.command = "init" /\ n.st = st /\ n.owed = {} /\ n.new = {} /\ n.processed = {}
    BY DEF Idle
<1> QED  BY <1>1, <1>2 DEF ProcOK, Recorded, PublishOK, PollOK

LEMMA StartPublishOK ==
    ASSUME NEW H, NEW O, NEW C, NEW st, Recorded(st, H, O, C), NEW a \in Own
    PROVE  ProcOK([Idle EXCEPT !.pc = IF a.type = "pointer" THEN "object" ELSE "copy",
                    !.command = "publish", !.st = st, !.item = a, !.relays = Relays], H, O, C)
<1> DEFINE n == [Idle EXCEPT !.pc = IF a.type = "pointer" THEN "object" ELSE "copy",
                    !.command = "publish", !.st = st, !.item = a, !.relays = Relays]
<1>1. a \in Items
    BY AgentAssumption
<1>2. n \in ProcRecords
    BY <1>1 DEF Idle, ProcRecords, Counters, Recorded
<1>3. /\ n.pc = (IF a.type = "pointer" THEN "object" ELSE "copy")
      /\ n.command = "publish" /\ n.st = st /\ n.item = a
      /\ n.owed = {} /\ n.new = {} /\ n.processed = {} /\ ~n.stored
    BY DEF Idle
<1> HIDE DEF n
<1>4. PublishOK(n, H, O, C)
    BY <1>1, <1>3 DEF PublishOK
<1>5. PollOK(n, H)
    BY <1>3 DEF PollOK
<1>6. ProcOK(n, H, O, C)
    BY <1>2, <1>3, <1>4, <1>5 DEF ProcOK
<1> QED  BY <1>6 DEF n

LEMMA StartSubmitOK ==
    ASSUME NEW H, NEW O, NEW C, NEW a \in Own, C[a] = "whole"
    PROVE  ProcOK([Idle EXCEPT !.pc = "post", !.command = "submit", !.item = a,
                    !.relays = Relays], H, O, C)
<1> DEFINE n == [Idle EXCEPT !.pc = "post", !.command = "submit", !.item = a, !.relays = Relays]
<1>1. a \in Items
    BY AgentAssumption
<1>2. Recorded(Fresh, H, O, C)
    BY DEF Recorded, Fresh, States
<1>3. n \in ProcRecords
    BY <1>1, <1>2 DEF Idle, ProcRecords, Counters, Recorded
<1>4. /\ n.pc = "post" /\ n.command = "submit" /\ n.st = Fresh /\ n.item = a /\ ~n.stored
      /\ n.owed = {} /\ n.new = {} /\ n.processed = {}
    BY DEF Idle
<1> HIDE DEF n
<1>5. PublishOK(n, H, O, C)
    BY <1>1, <1>4 DEF PublishOK
<1>6. PollOK(n, H)
    BY <1>4 DEF PollOK
<1>7. ProcOK(n, H, O, C)
    BY <1>2, <1>3, <1>4, <1>5, <1>6 DEF ProcOK
<1> QED  BY <1>7 DEF n

LEMMA StartPollOK ==
    ASSUME NEW H, NEW O, NEW C, StoresOK(H, O, C), NEW st, Recorded(st, H, O, C)
    PROVE  ProcOK([Idle EXCEPT !.pc = "relay", !.command = "poll", !.st = st,
                    !.relays = Relays, !.owed = UNION {H[r] : r \in Relays}], H, O, C)
<1> DEFINE n == [Idle EXCEPT !.pc = "relay", !.command = "poll", !.st = st,
                    !.relays = Relays, !.owed = UNION {H[r] : r \in Relays}]
<1>1. UNION {H[r] : r \in Relays} \subseteq Items
    BY DEF StoresOK
<1>2. n \in ProcRecords
    BY <1>1 DEF Idle, ProcRecords, Counters, Recorded
<1>3. /\ n.pc = "relay" /\ n.command = "poll" /\ n.st = st /\ n.relays = Relays
      /\ n.owed = UNION {H[r] : r \in Relays} /\ n.new = {} /\ n.processed = {}
    BY DEF Idle
<1> HIDE DEF n
<1>4. \A a \in n.owed : Due(a, n, H)
    BY <1>3 DEF Due
<1>5. ProcOK(n, H, O, C)
    BY <1>2, <1>3, <1>4 DEF ProcOK, PublishOK, PollOK
<1> QED  BY <1>5 DEF n

\* A command goes on to save or to print, with or without a new handle.
LEMMA MovedOK ==
    ASSUME NEW H, NEW O, NEW C, NEW v, ProcOK(v, H, O, C),
           NEW c \in {"save", "saving", "replace", "print"}, NEW n,
           \/ n = [v EXCEPT !.pc = c]
           \/ \E h \in {"none", "tmp", "state"} : n = [v EXCEPT !.pc = c, !.handle = h],
           \/ v.pc \in {"save", "saving", "replace", "post"}
           \/ v.pc = "consider" /\ v.queue = {} /\ v.relays = {}
    PROVE  ProcOK(n, H, O, C)
<1>1. n \in ProcRecords
    <2>1. v \in ProcRecords /\ c \in Counters
        BY DEF ProcOK, Counters
    <2>2. [v EXCEPT !.pc = c] \in ProcRecords
        BY <2>1 DEF ProcRecords
    <2>3. \A h \in {"none", "tmp", "state"} : [v EXCEPT !.pc = c, !.handle = h] \in ProcRecords
        BY <2>1 DEF ProcRecords
    <2> QED  BY <2>2, <2>3
<1>2. /\ n.pc = c /\ n.command = v.command /\ n.st = v.st /\ n.owed = v.owed /\ n.new = v.new
      /\ n.processed = v.processed /\ n.errors = v.errors
    BY DEF ProcOK, ProcRecords
<1>3. ASSUME NEW a, Due(a, v, H), v.command = "poll"
      PROVE  Due(a, n, H)
    BY <1>2, <1>3 DEF Due, ProcOK, PublishOK
<1>4. PollOK(n, H)
    BY <1>2, <1>3 DEF PollOK, ProcOK
<1>5. PublishOK(n, H, O, C)
    BY <1>2 DEF PublishOK
<1> QED  BY <1>1, <1>2, <1>4, <1>5 DEF ProcOK

\* The file that a command has open is given another name.
LEMMA RenamedOK ==
    ASSUME NEW H, NEW O, NEW C, NEW v, ProcOK(v, H, O, C)
    PROVE  ProcOK([v EXCEPT !.handle = "state"], H, O, C)
<1> DEFINE n == [v EXCEPT !.handle = "state"]
<1>1. n \in ProcRecords
    BY DEF ProcOK, ProcRecords
<1>2. /\ n.pc = v.pc /\ n.command = v.command /\ n.st = v.st /\ n.owed = v.owed /\ n.new = v.new
      /\ n.processed = v.processed /\ n.errors = v.errors /\ n.relays = v.relays /\ n.relay = v.relay
      /\ n.base = v.base /\ n.queue = v.queue /\ n.item = v.item /\ n.stored = v.stored
    BY DEF ProcOK, ProcRecords
<1> HIDE DEF n
<1>3. \A a : Due(a, v, H) => Due(a, n, H)
    BY <1>2 DEF Due
<1>4. PollOK(n, H) /\ PublishOK(n, H, O, C)
    BY <1>2, <1>3 DEF PollOK, PublishOK, ProcOK
<1>5. ProcOK(n, H, O, C)
    BY <1>1, <1>2, <1>4 DEF ProcOK
<1> QED  BY <1>5 DEF n

\* The file of the object is there.
LEMMA ObjectStoredOK ==
    ASSUME NEW H, NEW O, NEW C, NEW v, ProcOK(v, H, O, C), v.pc \in {"object", "write"},
           O[v.item.object] # "none"
    PROVE  ProcOK(ObjectStored(v), H, O, C)
<1>1. /\ v \in ProcRecords /\ v.item \in Items /\ v.item.object \in Objects
      /\ v.command = "poll" \/ (v.command = "publish" /\ v.item \in Own /\ ~v.stored)
    BY AgentAssumption DEF ProcOK, PublishOK, Objects
<1>2. CASE v.command = "poll"
    <2> DEFINE n == [v EXCEPT !.pc = "consider", !.item = None, !.st.objects = @ \cup {v.item.object}]
    <2>1. v.st \in States
        BY <1>1 DEF ProcRecords
    <2>2. [v.st EXCEPT !.objects = @ \cup {v.item.object}] \in States
        BY <1>1, <2>1 DEF States
    <2>3. n \in ProcRecords
        BY <1>1, <2>2 DEF ProcRecords, Counters
    <2>4. /\ n.pc = "consider" /\ n.command = "poll" /\ n.owed = v.owed /\ n.new = v.new
          /\ n.processed = v.processed /\ n.errors = v.errors /\ n.queue = v.queue /\ n.relays = v.relays
          /\ n.st = [v.st EXCEPT !.objects = @ \cup {v.item.object}]
        BY <1>1, <1>2 DEF ProcRecords
    <2>5. /\ n.st.seen = v.st.seen /\ n.st.published = v.st.published
          /\ n.st.objects = v.st.objects \cup {v.item.object}
        BY <2>1, <2>4 DEF States
    <2> HIDE DEF n
    <2>6. Recorded(n.st, H, O, C)
        BY <2>2, <2>4, <2>5 DEF Recorded, ProcOK
    <2>7. ASSUME NEW a, Due(a, v, H)
          PROVE  Due(a, n, H)
        BY <2>4, <2>5, <2>7 DEF Due
    <2>8. PollOK(n, H) /\ PublishOK(n, H, O, C)
        BY <1>2, <2>4, <2>5, <2>7 DEF PollOK, ProcOK, PublishOK
    <2>9. ProcOK(n, H, O, C)
        BY <2>3, <2>6, <2>8 DEF ProcOK
    <2> QED  BY <1>2, <2>9 DEF n, ObjectStored
<1>3. CASE v.command # "poll"
    <2> DEFINE n == [v EXCEPT !.pc = "copy"]
    <2>1. n \in ProcRecords
        BY <1>1 DEF ProcRecords, Counters
    <2>2. /\ n.pc = "copy" /\ n.command = "publish" /\ n.st = v.st /\ n.item = v.item
          /\ n.new = v.new /\ n.processed = v.processed /\ ~n.stored
        BY <1>1, <1>3 DEF ProcRecords
    <2> HIDE DEF n
    <2>3. PollOK(n, H) /\ PublishOK(n, H, O, C)
        BY <1>1, <1>3, <2>2 DEF PollOK, ProcOK, PublishOK
    <2>4. ProcOK(n, H, O, C)
        BY <2>1, <2>2, <2>3 DEF ProcOK
    <2> QED  BY <1>3, <2>4 DEF n, ObjectStored
<1> QED  BY <1>2, <1>3

\* The file of the object is opened.
LEMMA OpenObjectOK ==
    ASSUME NEW H, NEW O, NEW C, NEW v, ProcOK(v, H, O, C), v.pc = "object",
           O[v.item.object] # "none"
    PROVE  ProcOK([v EXCEPT !.pc = "write"], H, O, C)
<1> DEFINE n == [v EXCEPT !.pc = "write"]
<1>1. n \in ProcRecords
    BY DEF ProcOK, ProcRecords, Counters
<1>2. /\ n.pc = "write" /\ n.command = v.command /\ n.st = v.st /\ n.owed = v.owed /\ n.new = v.new
      /\ n.processed = v.processed /\ n.errors = v.errors /\ n.item = v.item
      /\ n.queue = v.queue /\ n.relays = v.relays /\ n.stored = v.stored
    BY DEF ProcOK, ProcRecords
<1> HIDE DEF n
<1>3. ASSUME NEW a, Due(a, v, H)
      PROVE  Due(a, n, H)
    BY <1>2, <1>3 DEF Due
<1>4. PollOK(n, H) /\ PublishOK(n, H, O, C)
    BY <1>2, <1>3 DEF PollOK, PublishOK, ProcOK
<1>5. ProcOK(n, H, O, C)
    BY <1>1, <1>2, <1>4 DEF ProcOK
<1> QED  BY <1>5 DEF n

\* The copy of the envelope is opened and written.
LEMMA CopyOK ==
    ASSUME NEW H, NEW O, NEW C, NEW v, ProcOK(v, H, O, C), v.pc \in {"copy", "copying"},
           C[v.item] # "none", NEW c \in {"copying", "post"}
    PROVE  ProcOK([v EXCEPT !.pc = c], H, O, C)
<1> DEFINE n == [v EXCEPT !.pc = c]
<1>1. n \in ProcRecords
    BY DEF ProcOK, ProcRecords, Counters
<1>2. /\ n.pc = c /\ n.command = v.command /\ n.st = v.st /\ n.new = v.new
      /\ n.processed = v.processed /\ n.item = v.item /\ n.stored = v.stored
    BY DEF ProcOK, ProcRecords
<1> HIDE DEF n
<1>3. PollOK(n, H) /\ PublishOK(n, H, O, C)
    BY <1>2 DEF PollOK, PublishOK, ProcOK
<1>4. ProcOK(n, H, O, C)
    BY <1>1, <1>2, <1>3 DEF ProcOK
<1> QED  BY <1>4 DEF n

\* A relay answered, or did not.
LEMMA PostOK ==
    ASSUME NEW H, NEW O, NEW C, NEW v, ProcOK(v, H, O, C), v.pc = "post",
           NEW r \in Relays, NEW heard \in BOOLEAN, heard => v.item \in H[r]
    PROVE  ProcOK([v EXCEPT !.relays = @ \ {r}, !.stored = @ \/ heard], H, O, C)
<1> DEFINE n == [v EXCEPT !.relays = @ \ {r}, !.stored = @ \/ heard]
<1>1. n \in ProcRecords
    <2>1. (v.stored \/ heard) \in BOOLEAN /\ v.relays \ {r} \in SUBSET Relays
        BY DEF ProcOK, ProcRecords
    <2> QED  BY <2>1 DEF ProcOK, ProcRecords, Counters
<1>2. /\ n.pc = "post" /\ n.command = v.command /\ n.st = v.st /\ n.new = v.new
      /\ n.processed = v.processed /\ n.item = v.item /\ n.stored = (v.stored \/ heard)
    BY DEF ProcOK, ProcRecords
<1> HIDE DEF n
<1>3. PollOK(n, H) /\ PublishOK(n, H, O, C)
    BY <1>2 DEF PollOK, PublishOK, ProcOK
<1>4. ProcOK(n, H, O, C)
    BY <1>1, <1>2, <1>3 DEF ProcOK
<1> QED  BY <1>4 DEF n

\* An item that a relay took is recorded.
LEMMA RecordPublishedOK ==
    ASSUME NEW H, NEW O, NEW C, NEW v, ProcOK(v, H, O, C), v.pc = "post",
           v.command = "publish", v.stored
    PROVE  ProcOK([v EXCEPT !.pc = "save",
                         !.st.published = @ \cup {v.item.id},
                         !.st.objects = IF v.item.type = "pointer"
                                        THEN @ \cup {v.item.object} ELSE @], H, O, C)
<1> DEFINE n == [v EXCEPT !.pc = "save",
                         !.st.published = @ \cup {v.item.id},
                         !.st.objects = IF v.item.type = "pointer"
                                        THEN @ \cup {v.item.object} ELSE @]
           obj == IF v.item.type = "pointer" THEN v.st.objects \cup {v.item.object} ELSE v.st.objects
           st == [v.st EXCEPT !.published = v.st.published \cup {v.item.id}, !.objects = obj]
<1>1. /\ v \in ProcRecords /\ v.st \in States /\ v.item \in Own /\ v.item \in Items /\ v.item.id \in Ids
      /\ v.item.type = "pointer" => v.item.object \in Objects
    BY AgentAssumption DEF ProcOK, PublishOK, Objects, Ids, ProcRecords
<1>2. st \in States
    BY <1>1 DEF States
<1>3. n = [v EXCEPT !.pc = "save", !.st = st]
    BY <1>1 DEF ProcRecords, States
<1>4. n \in ProcRecords
    BY <1>1, <1>2, <1>3 DEF ProcRecords, Counters
<1>5. /\ n.pc = "save" /\ n.command = "publish" /\ n.st = st /\ n.new = v.new /\ n.processed = v.processed
    BY <1>1, <1>3 DEF ProcRecords
<1>6. st.seen = v.st.seen /\ st.published = v.st.published \cup {v.item.id} /\ st.objects = obj
    BY <1>1 DEF States
<1> HIDE DEF n, st
<1>7. Taken(v.item.id, H, C)
    BY <1>1 DEF Taken, PublishOK, ProcOK
<1>8. Recorded(st, H, O, C)
    BY <1>1, <1>2, <1>6, <1>7 DEF Recorded, ProcOK, PublishOK
<1>9. PollOK(n, H) /\ PublishOK(n, H, O, C)
    BY <1>5, <1>6 DEF PollOK, PublishOK, ProcOK
<1>10. ProcOK(n, H, O, C)
    BY <1>4, <1>5, <1>8, <1>9 DEF ProcOK
<1> QED  BY <1>10 DEF n

\* A poll asks a relay: what it is owed there is in the list as it stands.
LEMMA AskRelayOK ==
    ASSUME NEW H, NEW O, NEW C, StoresOK(H, O, C), NEW v, ProcOK(v, H, O, C), v.pc = "relay",
           NEW r \in Relays
    PROVE  ProcOK([v EXCEPT !.pc = "listing", !.relays = @ \ {r}, !.relay = r, !.base = H[r]], H, O, C)
<1> DEFINE n == [v EXCEPT !.pc = "listing", !.relays = @ \ {r}, !.relay = r, !.base = H[r]]
<1>1. n \in ProcRecords
    BY DEF ProcOK, ProcRecords, Counters, StoresOK
<1>2. /\ n.pc = "listing" /\ n.command = v.command /\ n.st = v.st /\ n.owed = v.owed /\ n.new = v.new
      /\ n.processed = v.processed /\ n.errors = v.errors
      /\ n.relays = v.relays \ {r} /\ n.relay = r /\ n.base = H[r]
    BY DEF ProcOK, ProcRecords
<1> HIDE DEF n
<1>3. ASSUME NEW a, Due(a, v, H)
      PROVE  Due(a, n, H)
    BY <1>2, <1>3 DEF Due
<1>4. PollOK(n, H) /\ PublishOK(n, H, O, C)
    BY <1>2, <1>3 DEF PollOK, PublishOK, ProcOK
<1>5. ProcOK(n, H, O, C)
    BY <1>1, <1>2, <1>4 DEF ProcOK
<1> QED  BY <1>5 DEF n

\* The walk over that list ends.
LEMMA EndWalkOK ==
    ASSUME NEW H, NEW O, NEW C, StoresOK(H, O, C), NEW v, ProcOK(v, H, O, C), v.pc = "listing",
           NEW failed \in BOOLEAN, NEW L \in Walked(v.base, H[v.relay], failed)
    PROVE  ProcOK([v EXCEPT !.pc = "consider", !.queue = L, !.relay = None, !.base = {},
                            !.errors = @ \/ failed], H, O, C)
<1> DEFINE n == [v EXCEPT !.pc = "consider", !.queue = L, !.relay = None, !.base = {},
                          !.errors = @ \/ failed]
<1>1. L \subseteq Items /\ (failed \/ v.base \subseteq L)
    BY DEF Walked, StoresOK, ProcOK, PollOK
<1>2. n \in ProcRecords
    <2>1. (v.errors \/ failed) \in BOOLEAN
        BY DEF ProcOK, ProcRecords
    <2> QED  BY <1>1, <2>1 DEF ProcOK, ProcRecords, Counters
<1>3. /\ n.pc = "consider" /\ n.command = v.command /\ n.st = v.st /\ n.owed = v.owed /\ n.new = v.new
      /\ n.processed = v.processed /\ n.errors = (v.errors \/ failed)
      /\ n.relays = v.relays /\ n.queue = L
    BY DEF ProcOK, ProcRecords
<1> HIDE DEF n
<1>4. ASSUME NEW a, Due(a, v, H), ~failed
      PROVE  Due(a, n, H)
    BY <1>1, <1>3, <1>4 DEF Due
<1>5. PollOK(n, H) /\ PublishOK(n, H, O, C)
    BY <1>3, <1>4 DEF PollOK, PublishOK, ProcOK
<1>6. ProcOK(n, H, O, C)
    BY <1>2, <1>3, <1>5 DEF ProcOK
<1> QED  BY <1>6 DEF n

\* An item is set aside: it does not verify, or its id is among the seen.
LEMMA IgnoreOK ==
    ASSUME NEW H, NEW O, NEW C, NEW v, ProcOK(v, H, O, C), v.pc = "consider",
           NEW a \in Items, a.verdict = "invalid" \/ a.id \in v.processed \/ a.id \in v.st.seen
    PROVE  ProcOK([v EXCEPT !.queue = @ \ {a},
                    !.processed = IF a.verdict = "valid" THEN @ \cup {a.id} ELSE @], H, O, C)
<1> DEFINE n == [v EXCEPT !.queue = @ \ {a},
                    !.processed = IF a.verdict = "valid" THEN @ \cup {a.id} ELSE @]
<1>1. a.id \in Ids
    BY DEF Ids
<1>2. n \in ProcRecords
    BY <1>1 DEF ProcOK, ProcRecords, Counters
<1>3. /\ n.pc = "consider" /\ n.command = v.command /\ n.st = v.st /\ n.owed = v.owed /\ n.new = v.new
      /\ n.processed = (IF a.verdict = "valid" THEN v.processed \cup {a.id} ELSE v.processed)
      /\ n.errors = v.errors /\ n.relays = v.relays /\ n.queue = v.queue \ {a}
    BY DEF ProcOK, ProcRecords
<1> HIDE DEF n
<1>4. a.verdict = "valid" => a.id \in v.st.seen
    BY DEF ProcOK, PollOK
<1>5. ASSUME NEW b, Due(b, v, H), b.verdict = "valid"
      PROVE  Due(b, n, H)
    BY <1>3, <1>4, <1>5 DEF Due
<1>6. PollOK(n, H) /\ PublishOK(n, H, O, C)
    BY <1>3, <1>4, <1>5 DEF PollOK, PublishOK, ProcOK
<1>7. ProcOK(n, H, O, C)
    BY <1>2, <1>3, <1>6 DEF ProcOK
<1> QED  BY <1>7 DEF n

\* A new item is marked seen, and its object fetched or not.
LEMMA ConsiderOK ==
    ASSUME NEW H, NEW O, NEW C, NEW v, ProcOK(v, H, O, C), v.pc = "consider",
           NEW a \in Items, NEW fetched \in BOOLEAN, fetched => a.type = "pointer"
    PROVE  ProcOK([v EXCEPT !.queue = @ \ {a}, !.processed = @ \cup {a.id},
                           !.st.seen = @ \cup {a.id}, !.new = @ \cup {a.id},
                           !.pc = IF fetched THEN "object" ELSE @,
                           !.item = IF fetched THEN a ELSE @], H, O, C)
<1> DEFINE n == [v EXCEPT !.queue = @ \ {a}, !.processed = @ \cup {a.id},
                           !.st.seen = @ \cup {a.id}, !.new = @ \cup {a.id},
                           !.pc = IF fetched THEN "object" ELSE @,
                           !.item = IF fetched THEN a ELSE @]
           st == [v.st EXCEPT !.seen = @ \cup {a.id}]
<1>1. v \in ProcRecords /\ v.st \in States /\ a.id \in Ids
    BY DEF Ids, ProcOK, ProcRecords
<1>2. st \in States
    BY <1>1 DEF States
<1>3. n \in ProcRecords
    BY <1>1, <1>2 DEF ProcRecords, Counters
<1>4. /\ n.pc = (IF fetched THEN "object" ELSE "consider") /\ n.item = (IF fetched THEN a ELSE v.item)
      /\ n.command = v.command /\ n.st = st /\ n.owed = v.owed
      /\ n.new = v.new \cup {a.id} /\ n.processed = v.processed \cup {a.id}
      /\ n.errors = v.errors /\ n.relays = v.relays /\ n.queue = v.queue \ {a}
    BY <1>1 DEF ProcRecords
<1>5. st.seen = v.st.seen \cup {a.id} /\ st.published = v.st.published /\ st.objects = v.st.objects
    BY <1>1 DEF States
<1> HIDE DEF n, st
<1>6. Recorded(n.st, H, O, C)
    BY <1>2, <1>4, <1>5 DEF Recorded, ProcOK
<1>7. ASSUME NEW b, Due(b, v, H)
      PROVE  Due(b, n, H)
    BY <1>4, <1>5, <1>7 DEF Due
<1>8. PollOK(n, H) /\ PublishOK(n, H, O, C)
    BY <1>4, <1>5, <1>7 DEF PollOK, PublishOK, ProcOK
<1>9. ProcOK(n, H, O, C)
    BY <1>3, <1>6, <1>8 DEF ProcOK
<1> QED  BY <1>9 DEF n

\* A list is worked off and there is another relay to ask.
LEMMA NextRelayOK ==
    ASSUME NEW H, NEW O, NEW C, NEW v, ProcOK(v, H, O, C), v.pc = "consider", v.queue = {}
    PROVE  ProcOK([v EXCEPT !.pc = "relay"], H, O, C)
<1> DEFINE n == [v EXCEPT !.pc = "relay"]
<1>1. n \in ProcRecords
    BY DEF ProcOK, ProcRecords, Counters
<1>2. /\ n.pc = "relay" /\ n.command = v.command /\ n.st = v.st /\ n.owed = v.owed /\ n.new = v.new
      /\ n.processed = v.processed /\ n.errors = v.errors /\ n.relays = v.relays
    BY DEF ProcOK, ProcRecords
<1> HIDE DEF n
<1>3. ASSUME NEW b, Due(b, v, H)
      PROVE  Due(b, n, H)
    BY <1>2, <1>3 DEF Due
<1>4. PollOK(n, H) /\ PublishOK(n, H, O, C)
    BY <1>2, <1>3 DEF PollOK, PublishOK, ProcOK
<1>5. ProcOK(n, H, O, C)
    BY <1>1, <1>2, <1>4 DEF ProcOK
<1> QED  BY <1>5 DEF n

-----------------------------------------------------------------------------
(***************************************************************************)
(* Any number of commands                                                  *)
(***************************************************************************)

Grows == Grown(held, objects, copies, held', objects', copies')

LEMMA Same ==
    UNCHANGED <<held, objects, copies>> => Grows
    BY DEF Grows, Grown

\* A step of one command in which the stores grow, a file is emptied or is
\* a copy that records what is true, keeps the invariant.
LEMMA StepOf ==
    ASSUME DirectoryInv, NEW p \in Procs, NEW n,
           proc' = [proc EXCEPT ![p] = n], ProcOK(n, held', objects', copies'),
           UNCHANGED agent, Grows, StoresOK(held', objects', copies'),
           state' \in {state, Torn} \/ Recorded(state', held', objects', copies'),
           tmp' \in {tmp, Torn, NoFile} \/ Recorded(tmp', held', objects', copies'),
           delivered' \in [Ids -> 0..MaxDelivered]
    PROVE  DirectoryInv'
<1>1. ASSUME NEW st, Recorded(st, held, objects, copies)
      PROVE  Recorded(st, held', objects', copies')
    BY <1>1, GrownRecorded DEF Grows
<1>2. state' # Torn => Recorded(state', held', objects', copies')
    BY <1>1 DEF DirectoryInv
<1>3. tmp' \notin {Torn, NoFile} => Recorded(tmp', held', objects', copies')
    BY <1>1 DEF DirectoryInv
<1>4. ASSUME NEW q \in Procs
      PROVE  ProcOK(proc'[q], held', objects', copies')
    <2>1. ProcOK(proc[q], held', objects', copies')
        BY GrownProcOK DEF Grows, DirectoryInv
    <2>2. proc'[q] = IF q = p THEN n ELSE proc[q]
        BY DEF DirectoryInv
    <2> QED  BY <2>1, <2>2
<1>5. proc' = [q \in Procs |-> proc'[q]]
    BY DEF DirectoryInv
<1> QED  BY <1>2, <1>3, <1>4, <1>5 DEF DirectoryInv

\* A step that touches a command's memory only.
LEMMA PrivateStep ==
    ASSUME DirectoryInv, NEW p \in Procs, NEW n, Update(p, n), Private,
           ProcOK(n, held, objects, copies)
    PROVE  DirectoryInv'
    BY StepOf, Same DEF Update, Private, DirectoryInv

LEMMA DirectoryInit == Init => DirectoryInv
<1> SUFFICES ASSUME Init PROVE DirectoryInv
    OBVIOUS
<1>1. StoresOK(held, objects, copies)
    BY DEF Init, StoresOK, Progress
<1>2. Recorded(Fresh, held, objects, copies)
    BY DEF Recorded, Fresh, States
<1>3. \A p \in Procs : ProcOK(proc[p], held, objects, copies)
    BY IdleOK DEF Init
<1>4. delivered \in [Ids -> 0..MaxDelivered]
    BY DEF Init, MaxDelivered
<1> QED  BY <1>1, <1>2, <1>3, <1>4, AgentAssumption DEF Init, DirectoryInv

\* Others publish.
LEMMA ElsewhereStep ==
    ASSUME DirectoryInv, NEW r \in Relays, NEW a \in Items, PublishElsewhere(r, a)
    PROVE  DirectoryInv'
<1>1. held' \in [Relays -> SUBSET Items] /\ \A q \in Relays : held[q] \subseteq held'[q]
    BY DEF PublishElsewhere, DirectoryInv, StoresOK
<1>2. Grows /\ StoresOK(held', objects', copies')
    BY <1>1 DEF Grows, Grown, PublishElsewhere, Files, StoresOK, DirectoryInv
<1>3. ASSUME NEW st, Recorded(st, held, objects, copies)
      PROVE  Recorded(st, held', objects', copies')
    BY <1>2, <1>3, GrownRecorded DEF Grows
<1>4. \A p \in Procs : ProcOK(proc[p], held', objects', copies')
    BY <1>2, GrownProcOK DEF Grows, DirectoryInv
<1> QED  BY <1>2, <1>3, <1>4 DEF PublishElsewhere, Files, DirectoryInv

\* Commands begin and end.
LEMMA StartSteps ==
    ASSUME DirectoryInv, NEW p \in Procs,
           \/ StartInit(p) \/ StartPoll(p) \/ Kill(p)
           \/ \E a \in Own : StartPublish(p, a) \/ StartSubmit(p, a)
    PROVE  DirectoryInv'
<1>1. StoresOK(held, objects, copies) /\ (state # Torn => Recorded(state, held, objects, copies))
    BY DEF DirectoryInv
<1>2. CASE StartInit(p)
    BY <1>1, <1>2, StartInitOK, PrivateStep DEF StartInit
<1>3. CASE StartPoll(p)
    BY <1>1, <1>3, StartPollOK, PrivateStep DEF StartPoll
<1>4. CASE Kill(p)
    BY <1>4, IdleOK, PrivateStep DEF Kill
<1>5. ASSUME NEW a \in Own, StartPublish(p, a)
      PROVE  DirectoryInv'
    BY <1>1, <1>5, StartPublishOK, PrivateStep DEF StartPublish
<1>6. ASSUME NEW a \in Own, StartSubmit(p, a)
      PROVE  DirectoryInv'
    BY <1>1, <1>6, StartSubmitOK, PrivateStep DEF StartSubmit
<1> QED  BY <1>2, <1>3, <1>4, <1>5, <1>6

\* The object file.
LEMMA ObjectSteps ==
    ASSUME DirectoryInv, NEW p \in Procs, StoreObject(p) \/ WriteObject(p)
    PROVE  DirectoryInv'
<1> DEFINE v == proc[p]
           o == v.item.object
<1>1. /\ v.pc \in {"object", "write"} /\ ProcOK(v, held, objects, copies)
      /\ StoresOK(held, objects, copies)
    BY DEF DirectoryInv, StoreObject, WriteObject
<1>2. o \in Objects
    BY <1>1, AgentAssumption DEF ProcOK, PublishOK, Objects
<1>3. UNCHANGED <<agent, held, state, tmp, copies, delivered>>
    BY DEF StoreObject, WriteObject
<1>4. \/ objects' = objects /\ objects[o] # "none" /\ Update(p, ObjectStored(v))
      \/ /\ objects' = [objects EXCEPT ![o] = "partial"]
         /\ Update(p, [v EXCEPT !.pc = "write"]) /\ v.pc = "object"
      \/ objects' = [objects EXCEPT ![o] = "whole"] /\ Update(p, ObjectStored(v))
    BY DEF StoreObject, WriteObject
<1>5. objects' \in [Objects -> Progress] /\ objects'[o] # "none"
    BY <1>1, <1>2, <1>4 DEF StoresOK, Progress
<1>6. Grows /\ StoresOK(held', objects', copies')
    BY <1>1, <1>2, <1>3, <1>4, <1>5 DEF Grows, Grown, StoresOK, Progress
<1>7. ProcOK(v, held', objects', copies')
    BY <1>1, <1>6, GrownProcOK DEF Grows
<1>8. CASE Update(p, ObjectStored(v))
    <2>1. ProcOK(ObjectStored(v), held', objects', copies')
        BY <1>1, <1>5, <1>7, ObjectStoredOK
    <2> QED  BY <1>3, <1>6, <1>8, <2>1, StepOf DEF Update, DirectoryInv
<1>9. CASE Update(p, [v EXCEPT !.pc = "write"]) /\ v.pc = "object"
    <2>1. ProcOK([v EXCEPT !.pc = "write"], held', objects', copies')
        BY <1>5, <1>7, <1>9, OpenObjectOK
    <2> QED  BY <1>3, <1>6, <1>9, <2>1, StepOf DEF Update, DirectoryInv
<1> QED  BY <1>4, <1>8, <1>9

\* The copy of the envelope.
LEMMA CopySteps ==
    ASSUME DirectoryInv, NEW p \in Procs, OpenCopy(p) \/ WriteCopy(p)
    PROVE  DirectoryInv'
<1> DEFINE v == proc[p]
<1>1. /\ v.pc \in {"copy", "copying"} /\ ProcOK(v, held, objects, copies)
      /\ StoresOK(held, objects, copies)
    BY DEF DirectoryInv, OpenCopy, WriteCopy
<1>2. v.item \in Own
    BY <1>1 DEF ProcOK, PublishOK
<1>3. UNCHANGED <<agent, held, state, tmp, objects, delivered>>
    BY DEF OpenCopy, WriteCopy
<1>4. PICK c \in {"copying", "post"}, f \in {"partial", "whole"} :
          copies' = [copies EXCEPT ![v.item] = f] /\ Update(p, [v EXCEPT !.pc = c])
    BY DEF OpenCopy, WriteCopy
<1>5. Grows /\ StoresOK(held', objects', copies') /\ copies'[v.item] # "none"
    BY <1>1, <1>2, <1>3, <1>4 DEF Grows, Grown, StoresOK, Progress
<1>6. ProcOK(v, held', objects', copies')
    BY <1>1, <1>5, GrownProcOK DEF Grows
<1>7. ProcOK([v EXCEPT !.pc = c], held', objects', copies')
    BY <1>1, <1>5, <1>6, CopyOK
<1> QED  BY <1>3, <1>4, <1>5, <1>7, StepOf DEF Update, DirectoryInv

\* The relays are asked to take the item.
LEMMA PostSteps ==
    ASSUME DirectoryInv, NEW p \in Procs,
           \/ \E r \in Relays, sent, heard \in BOOLEAN : Post(p, r, sent, heard)
           \/ EndPosts(p)
    PROVE  DirectoryInv'
<1> DEFINE v == proc[p]
<1>1. ProcOK(v, held, objects, copies) /\ StoresOK(held, objects, copies)
    BY DEF DirectoryInv
<1>2. ASSUME NEW r \in Relays, NEW sent \in BOOLEAN, NEW heard \in BOOLEAN, Post(p, r, sent, heard)
      PROVE  DirectoryInv'
    <2> DEFINE n == [v EXCEPT !.relays = @ \ {r}, !.stored = @ \/ heard]
    <2>1. v.pc = "post" /\ (heard => sent) /\ Update(p, n) /\ UNCHANGED <<agent, Files, delivered>>
        BY <1>2 DEF Post
    <2>2. held' = IF sent THEN [held EXCEPT ![r] = @ \cup {v.item}] ELSE held
        BY <1>2 DEF Post
    <2>3. v.item \in Items
        BY <1>1, <2>1, AgentAssumption DEF ProcOK, PublishOK
    <2>4. /\ held' \in [Relays -> SUBSET Items] /\ \A q \in Relays : held[q] \subseteq held'[q]
          /\ heard => v.item \in held'[r]
        BY <1>1, <2>1, <2>2, <2>3 DEF StoresOK
    <2>5. Grows /\ StoresOK(held', objects', copies')
        BY <1>1, <2>1, <2>4 DEF Grows, Grown, StoresOK, Files
    <2>6. ProcOK(v, held', objects', copies')
        BY <1>1, <2>5, GrownProcOK DEF Grows
    <2>7. ProcOK(n, held', objects', copies')
        BY <2>1, <2>4, <2>6, PostOK
    <2> HIDE DEF n
    <2> QED  BY <2>1, <2>5, <2>7, StepOf DEF Update, DirectoryInv, Files
<1>3. CASE EndPosts(p)
    <2>1. v.pc = "post" /\ Private
        BY <1>3 DEF EndPosts
    <2>2. CASE /\ v.command = "publish" /\ v.stored
               /\ (v.item.type = "pointer" \/ v.item.id \notin v.st.published)
        BY <1>1, <1>3, <2>1, <2>2, RecordPublishedOK, PrivateStep DEF EndPosts
    <2>3. CASE ~(/\ v.command = "publish" /\ v.stored
                 /\ (v.item.type = "pointer" \/ v.item.id \notin v.st.published))
        <3>1. Update(p, [v EXCEPT !.pc = "print"])
            BY <1>3, <2>3 DEF EndPosts
        <3>2. ProcOK([v EXCEPT !.pc = "print"], held, objects, copies)
            BY <1>1, <2>1, MovedOK
        <3> QED  BY <2>1, <3>1, <3>2, PrivateStep
    <2> QED  BY <2>2, <2>3
<1> QED  BY <1>2, <1>3

\* poll, up to its save.
LEMMA PollSteps ==
    ASSUME DirectoryInv, NEW p \in Procs,
           \/ \E r \in Relays : AskRelay(p, r)
           \/ \E failed \in BOOLEAN : EndWalk(p, failed)
           \/ \E a \in Items : Ignore(p, a)
           \/ \E a \in Items, fetched \in BOOLEAN : Consider(p, a, fetched)
           \/ EndList(p)
    PROVE  DirectoryInv'
<1> DEFINE v == proc[p]
<1>1. ProcOK(v, held, objects, copies) /\ StoresOK(held, objects, copies)
    BY DEF DirectoryInv
<1>2. ASSUME NEW r \in Relays, AskRelay(p, r)
      PROVE  DirectoryInv'
    BY <1>1, <1>2, AskRelayOK, PrivateStep DEF AskRelay
<1>3. ASSUME NEW failed \in BOOLEAN, EndWalk(p, failed)
      PROVE  DirectoryInv'
    <2>1. v.pc = "listing" /\ Private
        BY <1>3 DEF EndWalk
    <2>2. PICK L \in Walked(v.base, held[v.relay], failed) :
              Update(p, [v EXCEPT !.pc = "consider", !.queue = L, !.relay = None, !.base = {},
                                  !.errors = @ \/ failed])
        BY <1>3 DEF EndWalk
    <2> QED  BY <1>1, <2>1, <2>2, EndWalkOK, PrivateStep
<1>4. ASSUME NEW a \in Items, Ignore(p, a)
      PROVE  DirectoryInv'
    BY <1>1, <1>4, IgnoreOK, PrivateStep DEF Ignore
<1>5. ASSUME NEW a \in Items, NEW fetched \in BOOLEAN, Consider(p, a, fetched)
      PROVE  DirectoryInv'
    BY <1>1, <1>5, ConsiderOK, PrivateStep DEF Consider
<1>6. CASE EndList(p)
    <2>1. v.pc = "consider" /\ v.queue = {} /\ Private
        BY <1>6 DEF EndList
    <2>2. CASE v.relays = {}
        <3>1. Update(p, [v EXCEPT !.pc = "save"])
            BY <1>6, <2>2 DEF EndList
        <3>2. ProcOK([v EXCEPT !.pc = "save"], held, objects, copies)
            BY <1>1, <2>1, <2>2, MovedOK
        <3> QED  BY <2>1, <3>1, <3>2, PrivateStep
    <2>3. CASE v.relays # {}
        <3>1. Update(p, [v EXCEPT !.pc = "relay"])
            BY <1>6, <2>3 DEF EndList
        <3>2. ProcOK([v EXCEPT !.pc = "relay"], held, objects, copies)
            BY <1>1, <2>1, NextRelayOK
        <3> QED  BY <2>1, <3>1, <3>2, PrivateStep
    <2> QED  BY <2>2, <2>3
<1> QED  BY <1>2, <1>3, <1>4, <1>5, <1>6

\* save_state and emit.
LEMMA SaveSteps ==
    ASSUME DirectoryInv, NEW p \in Procs, OpenFile(p) \/ WriteFile(p) \/ Replace(p) \/ PrintResult(p)
    PROVE  DirectoryInv'
<1> DEFINE v == proc[p]
<1>1. ProcOK(v, held, objects, copies) /\ StoresOK(held, objects, copies)
    BY DEF DirectoryInv
<1>2. CASE OpenFile(p)
    <2>1. ProcOK([v EXCEPT !.pc = "saving", !.handle = SaveTarget], held, objects, copies)
        BY <1>1, <1>2, MovedOK DEF OpenFile, SaveTarget
    <2>2. state' \in {state, Torn} /\ tmp' \in {tmp, Torn}
        BY <1>2 DEF OpenFile
    <2> QED  BY <1>1, <1>2, <2>1, <2>2, Same, StepOf DEF OpenFile, Update, DirectoryInv
<1>3. CASE WriteFile(p)
    <2> DEFINE n == [v EXCEPT !.pc = IF agent = "A" THEN "replace" ELSE "print", !.handle = "none"]
    <2>1. ProcOK(n, held, objects, copies)
        BY <1>1, <1>3, MovedOK DEF WriteFile
    <2>2. Recorded(v.st, held, objects, copies)
        BY <1>1 DEF ProcOK
    <2>3. state' \in {state, v.st} /\ tmp' \in {tmp, v.st}
        BY <1>3 DEF WriteFile
    <2>4. Update(p, n) /\ UNCHANGED <<agent, held, objects, copies, delivered>>
        BY <1>3 DEF WriteFile
    <2> HIDE DEF n
    <2> QED  BY <1>1, <2>1, <2>2, <2>3, <2>4, Same, StepOf DEF Update, DirectoryInv
<1>4. CASE Replace(p)
    <2>1. v.pc = "replace" /\ UNCHANGED <<agent, held, objects, copies, delivered>>
        BY <1>4 DEF Replace
    <2>2. CASE tmp = NoFile
        BY <1>1, <1>4, <2>1, <2>2, IdleOK, Same, StepOf DEF Replace, Update, DirectoryInv
    <2>3. CASE tmp # NoFile
        <3>1. state' = tmp /\ tmp' = NoFile
            BY <1>4, <2>3 DEF Replace
        <3>2. proc' = [q \in Procs |->
                 IF q = p THEN [proc[q] EXCEPT !.pc = "print"]
                 ELSE IF proc[q].handle = "tmp" THEN [proc[q] EXCEPT !.handle = "state"]
                 ELSE proc[q]]
            BY <1>4, <2>3 DEF Replace
        <3>3. ASSUME NEW q \in Procs
              PROVE  ProcOK(proc'[q], held, objects, copies)
            <4>1. ProcOK(proc[q], held, objects, copies)
                BY DEF DirectoryInv
            <4>2. CASE q = p
                <5>1. proc'[q] = [v EXCEPT !.pc = "print"]
                    BY <3>2, <4>2
                <5> QED  BY <1>1, <2>1, <5>1, MovedOK
            <4>3. CASE q # p
                <5>1. proc'[q] \in {proc[q], [proc[q] EXCEPT !.handle = "state"]}
                    BY <3>2, <4>3
                <5> QED  BY <4>1, <5>1, RenamedOK
            <4> QED  BY <4>2, <4>3
        <3>4. proc' = [q \in Procs |-> proc'[q]]
            BY <3>2
        <3> QED  BY <2>1, <2>3, <3>1, <3>3, <3>4 DEF DirectoryInv
    <2> QED  BY <2>2, <2>3
<1>5. CASE PrintResult(p)
    <2>1. delivered' \in [Ids -> 0..MaxDelivered]
        BY <1>5 DEF PrintResult, DirectoryInv, MaxDelivered
    <2>2. Update(p, Idle) /\ UNCHANGED <<agent, held, state, tmp, objects, copies>>
        BY <1>5 DEF PrintResult, Files
    <2> QED  BY <1>1, <2>1, <2>2, IdleOK, Same, StepOf DEF Update, DirectoryInv
<1> QED  BY <1>2, <1>3, <1>4, <1>5

\* The invariant holds in every state of every directory: whatever commands
\* run at once, each copy of the state, in memory or in a file, records only
\* what the relays and the directories have.
THEOREM DirectoryInvariant == Spec => []DirectoryInv
<1>1. DirectoryInv /\ [Next]_vars => DirectoryInv'
    <2> SUFFICES ASSUME DirectoryInv, [Next]_vars PROVE DirectoryInv'
        OBVIOUS
    <2>1. ASSUME NEW r \in Relays, NEW a \in Items, PublishElsewhere(r, a)
          PROVE  DirectoryInv'
        BY <2>1, ElsewhereStep
    <2>2. ASSUME NEW p \in Procs,
                 \/ StartInit(p) \/ StartPoll(p) \/ Kill(p)
                 \/ \E a \in Own : StartPublish(p, a) \/ StartSubmit(p, a)
          PROVE  DirectoryInv'
        BY <2>2, StartSteps
    <2>3. ASSUME NEW p \in Procs,
                 StoreObject(p) \/ WriteObject(p) \/ OpenCopy(p) \/ WriteCopy(p)
          PROVE  DirectoryInv'
        BY <2>3, ObjectSteps, CopySteps
    <2>4. ASSUME NEW p \in Procs,
                 \/ \E r \in Relays, sent, heard \in BOOLEAN : Post(p, r, sent, heard)
                 \/ EndPosts(p)
          PROVE  DirectoryInv'
        BY <2>4, PostSteps
    <2>5. ASSUME NEW p \in Procs,
                 \/ \E r \in Relays : AskRelay(p, r)
                 \/ \E failed \in BOOLEAN : EndWalk(p, failed)
                 \/ \E a \in Items : Ignore(p, a)
                 \/ \E a \in Items, fetched \in BOOLEAN : Consider(p, a, fetched)
                 \/ EndList(p)
          PROVE  DirectoryInv'
        BY <2>5, PollSteps
    <2>6. ASSUME NEW p \in Procs, OpenFile(p) \/ WriteFile(p) \/ Replace(p) \/ PrintResult(p)
          PROVE  DirectoryInv'
        BY <2>6, SaveSteps
    <2>7. CASE UNCHANGED vars
        BY <2>7 DEF vars, DirectoryInv
    <2> QED  BY <2>1, <2>2, <2>3, <2>4, <2>5, <2>6, <2>7 DEF Next
<1> QED  BY <1>1, DirectoryInit, PTL DEF Spec

\* What state.json calls published was taken by a relay and has its file in
\* published/, for any number of commands at once and both save_state.
THEOREM PublishedHeld == Spec => []PublishedIsHeld
<1>1. DirectoryInv => PublishedIsHeld
    BY DEF DirectoryInv, PublishedIsHeld, Recorded, Taken
<1> QED  BY <1>1, DirectoryInvariant, PTL

\* What state.json lists as an object has a file under objects/, for any
\* number of commands at once and both save_state.
THEOREM RecordedStored == Spec => []RecordedIsStored
<1>1. DirectoryInv => RecordedIsStored
    BY DEF DirectoryInv, RecordedIsStored, Recorded
<1> QED  BY <1>1, DirectoryInvariant, PTL

-----------------------------------------------------------------------------
(***************************************************************************)
(* One command at a time                                                   *)
(***************************************************************************)

LEMMA AloneStep ==
    ASSUME OneCommand, NEW p \in Procs, NEW n, DirectoryInv, proc' = [proc EXCEPT ![p] = n],
           AloneOK(n, state', tmp', delivered', agent')
    PROVE  SequentialInv'
    BY DEF OneCommand, SequentialInv, DirectoryInv

\* A step in a command's memory that neither saves nor prints for poll.
LEMMA WorkAlone ==
    ASSUME NEW v, NEW n, NEW S, NEW T, NEW d, NEW ag, AloneOK(v, S, T, d, ag),
           v.pc \notin {"idle", "saving", "replace", "print"},
           n.pc \notin {"saving", "replace"}, n.pc = "print" => v.command # "poll",
           n.command = v.command, n.handle = v.handle, v.st.seen \subseteq n.st.seen,
           n.command = "submit" => n.pc \in {"post", "print"} /\ n.new = v.new,
           \A i \in n.new : i \in v.new \/ i \notin v.st.seen
    PROVE  AloneOK(n, S, T, d, ag)
    BY DEF AloneOK

\* A command begins or ends; it remembers what the file says.
LEMMA StartAlone ==
    ASSUME NEW v, NEW n, NEW S, NEW T, NEW d, NEW ag, AloneOK(v, S, T, d, ag),
           n.pc \notin {"saving", "replace", "print"}, n.handle = "none", n.new = {},
           \/ n.pc = "idle" /\ n.command = None
           \/ n.command = "submit" /\ n.pc = "post"
           \/ n.command # "submit" /\ S # Torn /\ n.st = S
    PROVE  AloneOK(n, S, T, d, ag)
    BY DEF AloneOK

LEMMA SequentialStarts ==
    ASSUME OneCommand, DirectoryInv, SequentialInv, NEW p \in Procs,
           \/ StartInit(p) \/ StartPoll(p) \/ Kill(p)
           \/ \E a \in Own : StartPublish(p, a) \/ StartSubmit(p, a)
    PROVE  SequentialInv'
<1> DEFINE v == proc[p]
<1>1. AloneOK(v, state, tmp, delivered, agent) /\ Private
    BY DEF SequentialInv, StartInit, StartPoll, Kill, StartPublish, StartSubmit
<1>2. ASSUME NEW n, Update(p, n), AloneOK(n, state, tmp, delivered, agent)
      PROVE  SequentialInv'
    BY <1>1, <1>2, AloneStep DEF Update, Private
<1>3. CASE StartInit(p)
    <2> DEFINE n == [Idle EXCEPT !.pc = "save", !.command = "init", !.st = state]
    <2>1. n.pc = "save" /\ n.command = "init" /\ n.st = state /\ n.new = {} /\ n.handle = "none"
        BY DEF Idle
    <2>2. Update(p, n) /\ state # Torn
        BY <1>3 DEF StartInit
    <2> HIDE DEF n
    <2> QED  BY <1>1, <1>2, <2>1, <2>2, StartAlone
<1>4. CASE StartPoll(p)
    <2> DEFINE n == [Idle EXCEPT !.pc = "relay", !.command = "poll", !.st = state,
                       !.relays = Relays, !.owed = UNION {held[r] : r \in Relays}]
    <2>1. n.pc = "relay" /\ n.command = "poll" /\ n.st = state /\ n.new = {} /\ n.handle = "none"
        BY DEF Idle
    <2>2. Update(p, n) /\ state # Torn
        BY <1>4 DEF StartPoll
    <2> HIDE DEF n
    <2> QED  BY <1>1, <1>2, <2>1, <2>2, StartAlone
<1>5. CASE Kill(p)
    <2>1. Idle.pc = "idle" /\ Idle.command = None /\ Idle.new = {} /\ Idle.handle = "none"
        BY DEF Idle
    <2> QED  BY <1>1, <1>2, <1>5, <2>1, StartAlone DEF Kill
<1>6. ASSUME NEW a \in Own, StartPublish(p, a)
      PROVE  SequentialInv'
    <2> DEFINE n == [Idle EXCEPT !.pc = IF a.type = "pointer" THEN "object" ELSE "copy",
                       !.command = "publish", !.st = state, !.item = a, !.relays = Relays]
    <2>1. /\ n.pc \in {"object", "copy"} /\ n.command = "publish" /\ n.st = state
          /\ n.new = {} /\ n.handle = "none"
        BY DEF Idle
    <2>2. Update(p, n) /\ state # Torn
        BY <1>6 DEF StartPublish
    <2> HIDE DEF n
    <2> QED  BY <1>1, <1>2, <2>1, <2>2, StartAlone
<1>7. ASSUME NEW a \in Own, StartSubmit(p, a)
      PROVE  SequentialInv'
    <2> DEFINE n == [Idle EXCEPT !.pc = "post", !.command = "submit", !.item = a, !.relays = Relays]
    <2>1. n.pc = "post" /\ n.command = "submit" /\ n.new = {} /\ n.handle = "none"
        BY DEF Idle
    <2>2. Update(p, n)
        BY <1>7 DEF StartSubmit
    <2> HIDE DEF n
    <2> QED  BY <1>1, <1>2, <2>1, <2>2, StartAlone
<1> QED  BY <1>3, <1>4, <1>5, <1>6, <1>7

LEMMA SequentialWork ==
    ASSUME OneCommand, DirectoryInv, SequentialInv, NEW p \in Procs,
           \/ StoreObject(p) \/ WriteObject(p) \/ OpenCopy(p) \/ WriteCopy(p)
           \/ \E r \in Relays, sent, heard \in BOOLEAN : Post(p, r, sent, heard)
           \/ EndPosts(p)
           \/ \E r \in Relays : AskRelay(p, r)
           \/ \E failed \in BOOLEAN : EndWalk(p, failed)
           \/ \E a \in Items : Ignore(p, a)
           \/ \E a \in Items, fetched \in BOOLEAN : Consider(p, a, fetched)
           \/ EndList(p)
    PROVE  SequentialInv'
<1> DEFINE v == proc[p]
<1>1. AloneOK(v, state, tmp, delivered, agent) /\ UNCHANGED <<agent, state, tmp, delivered>>
    BY DEF SequentialInv, StoreObject, WriteObject, OpenCopy, WriteCopy, Post, EndPosts, AskRelay,
           EndWalk, Ignore, Consider, EndList, Private, Files
<1>2. /\ v \in ProcRecords /\ v.st \in States
      /\ PollOK(v, held) /\ PublishOK(v, held, objects, copies)
    BY DEF DirectoryInv, ProcOK, ProcRecords
<1>3. v.pc \in {"object", "write", "copy", "copying", "post", "relay", "listing", "consider"}
    BY DEF StoreObject, WriteObject, OpenCopy, WriteCopy, Post, EndPosts, AskRelay,
           EndWalk, Ignore, Consider, EndList
<1>4. ASSUME NEW n, Update(p, n), n.pc \notin {"saving", "replace"},
             n.pc = "print" => v.command # "poll", n.command = v.command, n.handle = v.handle,
             v.st.seen \subseteq n.st.seen,
             n.command = "submit" => n.pc \in {"post", "print"} /\ n.new = v.new,
             \A i \in n.new : i \in v.new \/ i \notin v.st.seen
      PROVE  SequentialInv'
    BY <1>1, <1>3, <1>4, WorkAlone, AloneStep DEF Update
<1>5. v.command = "submit" => v.pc = "post"
    BY <1>1, <1>3 DEF AloneOK
<1>6. ASSUME NEW n, Update(p, n), n.pc \notin {"saving", "replace"},
             n.pc = "print" => v.pc = "post", n.command = v.command, n.handle = v.handle,
             n.st.seen = v.st.seen, n.new = v.new,
             v.pc = "post" => n.pc \in {"post", "print"} \/ v.command = "publish"
      PROVE  SequentialInv'
    BY <1>2, <1>4, <1>5, <1>6 DEF PublishOK
<1>7. CASE StoreObject(p) \/ WriteObject(p)
    <2>1. v.pc \in {"object", "write"} /\ (Update(p, [v EXCEPT !.pc = "write"]) \/ Update(p, ObjectStored(v)))
        BY <1>7 DEF StoreObject, WriteObject
    <2>2. CASE Update(p, [v EXCEPT !.pc = "write"])
        <3> DEFINE n == [v EXCEPT !.pc = "write"]
        <3>1. n.pc = "write" /\ n.command = v.command /\ n.handle = v.handle /\ n.st = v.st /\ n.new = v.new
            BY <1>2 DEF ProcRecords
        <3> HIDE DEF n
        <3> QED  BY <1>6, <2>1, <2>2, <3>1 DEF n
    <2>3. CASE Update(p, ObjectStored(v))
        <3> DEFINE n == ObjectStored(v)
        <3>1. /\ n.pc \in {"consider", "copy"} /\ n.command = v.command /\ n.handle = v.handle
              /\ n.st.seen = v.st.seen /\ n.new = v.new
            BY <1>2 DEF ObjectStored, ProcRecords, States
        <3> HIDE DEF n
        <3> QED  BY <1>6, <2>1, <2>3, <3>1 DEF n
    <2> QED  BY <2>1, <2>2, <2>3
<1>8. CASE OpenCopy(p) \/ WriteCopy(p)
    <2>1. PICK c \in {"copying", "post"} : Update(p, [v EXCEPT !.pc = c]) /\ v.pc \in {"copy", "copying"}
        BY <1>8 DEF OpenCopy, WriteCopy
    <2> DEFINE n == [v EXCEPT !.pc = c]
    <2>2. n.pc = c /\ n.command = v.command /\ n.handle = v.handle /\ n.st = v.st /\ n.new = v.new
        BY <1>2 DEF ProcRecords
    <2> HIDE DEF n
    <2> QED  BY <1>6, <2>1, <2>2 DEF n
<1>9. ASSUME NEW r \in Relays, NEW sent \in BOOLEAN, NEW heard \in BOOLEAN, Post(p, r, sent, heard)
      PROVE  SequentialInv'
    <2> DEFINE n == [v EXCEPT !.relays = @ \ {r}, !.stored = @ \/ heard]
    <2>1. Update(p, n) /\ v.pc = "post"
        BY <1>9 DEF Post
    <2>2. n.pc = v.pc /\ n.command = v.command /\ n.handle = v.handle /\ n.st = v.st /\ n.new = v.new
        BY <1>2 DEF ProcRecords
    <2> HIDE DEF n
    <2> QED  BY <1>6, <2>1, <2>2
<1>10. CASE EndPosts(p)
    <2> DEFINE c == /\ v.command = "publish" /\ v.stored
                    /\ (v.item.type = "pointer" \/ v.item.id \notin v.st.published)
    <2>1. v.pc = "post"
        BY <1>10 DEF EndPosts
    <2>2. CASE c
        <3> DEFINE n == [v EXCEPT !.pc = "save",
                         !.st.published = @ \cup {v.item.id},
                         !.st.objects = IF v.item.type = "pointer"
                                        THEN @ \cup {v.item.object} ELSE @]
        <3>1. Update(p, n)
            BY <1>10, <2>2 DEF EndPosts
        <3>2. n.pc = "save" /\ n.command = v.command /\ n.handle = v.handle
              /\ n.st.seen = v.st.seen /\ n.new = v.new
            BY <1>2 DEF ProcRecords, States
        <3> HIDE DEF n
        <3> QED  BY <1>6, <2>1, <2>2, <3>1, <3>2
    <2>3. CASE ~c
        <3> DEFINE n == [v EXCEPT !.pc = "print"]
        <3>1. Update(p, n)
            BY <1>10, <2>3 DEF EndPosts
        <3>2. n.pc = "print" /\ n.command = v.command /\ n.handle = v.handle /\ n.st = v.st /\ n.new = v.new
            BY <1>2 DEF ProcRecords
        <3> HIDE DEF n
        <3> QED  BY <1>6, <2>1, <3>1, <3>2
    <2> QED  BY <2>2, <2>3
<1>11. ASSUME NEW r \in Relays, AskRelay(p, r)
       PROVE  SequentialInv'
    <2> DEFINE n == [v EXCEPT !.pc = "listing", !.relays = @ \ {r}, !.relay = r, !.base = held[r]]
    <2>1. Update(p, n) /\ v.pc = "relay"
        BY <1>11 DEF AskRelay
    <2>2. n.pc = "listing" /\ n.command = v.command /\ n.handle = v.handle /\ n.st = v.st /\ n.new = v.new
        BY <1>2 DEF ProcRecords
    <2> HIDE DEF n
    <2> QED  BY <1>6, <2>1, <2>2
<1>12. ASSUME NEW failed \in BOOLEAN, EndWalk(p, failed)
       PROVE  SequentialInv'
    <2>1. PICK L : Update(p, [v EXCEPT !.pc = "consider", !.queue = L, !.relay = None, !.base = {},
                                       !.errors = @ \/ failed])
        BY <1>12 DEF EndWalk
    <2> DEFINE n == [v EXCEPT !.pc = "consider", !.queue = L, !.relay = None, !.base = {},
                              !.errors = @ \/ failed]
    <2>2. n.pc = "consider" /\ n.command = v.command /\ n.handle = v.handle /\ n.st = v.st /\ n.new = v.new
        BY <1>2 DEF ProcRecords
    <2>3. v.pc = "listing" /\ Update(p, n)
        BY <1>12, <2>1 DEF EndWalk
    <2> HIDE DEF n
    <2> QED  BY <1>6, <2>2, <2>3
<1>13. ASSUME NEW a \in Items, Ignore(p, a)
       PROVE  SequentialInv'
    <2> DEFINE n == [v EXCEPT !.queue = @ \ {a},
                       !.processed = IF a.verdict = "valid" THEN @ \cup {a.id} ELSE @]
    <2>1. Update(p, n) /\ v.pc = "consider"
        BY <1>13 DEF Ignore
    <2>2. n.pc = v.pc /\ n.command = v.command /\ n.handle = v.handle /\ n.st = v.st /\ n.new = v.new
        BY <1>2 DEF ProcRecords
    <2> HIDE DEF n
    <2> QED  BY <1>6, <2>1, <2>2
<1>14. ASSUME NEW a \in Items, NEW fetched \in BOOLEAN, Consider(p, a, fetched)
       PROVE  SequentialInv'
    <2> DEFINE n == [v EXCEPT !.queue = @ \ {a}, !.processed = @ \cup {a.id},
                           !.st.seen = @ \cup {a.id}, !.new = @ \cup {a.id},
                           !.pc = IF fetched THEN "object" ELSE @,
                           !.item = IF fetched THEN a ELSE @]
    <2>1. Update(p, n) /\ v.pc = "consider" /\ a.id \notin v.st.seen
        BY <1>14 DEF Consider
    <2>2. /\ n.pc \in {"object", "consider"} /\ n.command = v.command /\ n.handle = v.handle
          /\ n.st.seen = v.st.seen \cup {a.id} /\ n.new = v.new \cup {a.id}
        BY <1>2, <2>1 DEF ProcRecords, States
    <2>3. v.command = "poll"
        BY <1>2, <2>1 DEF PollOK
    <2> HIDE DEF n
    <2> QED  BY <1>4, <2>1, <2>2, <2>3
<1>15. CASE EndList(p)
    <2>1. PICK c \in {"save", "relay"} : Update(p, [v EXCEPT !.pc = c]) /\ v.pc = "consider"
        BY <1>15 DEF EndList
    <2> DEFINE n == [v EXCEPT !.pc = c]
    <2>2. n.pc = c /\ n.command = v.command /\ n.handle = v.handle /\ n.st = v.st /\ n.new = v.new
        BY <1>2 DEF ProcRecords
    <2> HIDE DEF n
    <2> QED  BY <1>6, <2>1, <2>2 DEF n
<1> QED  BY <1>7, <1>8, <1>9, <1>10, <1>11, <1>12, <1>13, <1>14, <1>15

LEMMA SequentialSave ==
    ASSUME OneCommand, DirectoryInv, SequentialInv, NEW p \in Procs,
           OpenFile(p) \/ WriteFile(p) \/ Replace(p) \/ PrintResult(p)
    PROVE  SequentialInv'
<1> DEFINE v == proc[p]
<1>1. AloneOK(v, state, tmp, delivered, agent)
    BY DEF SequentialInv
<1>2. v \in ProcRecords /\ v.st \in States /\ PollOK(v, held) /\ agent \in {"A", "B"}
    BY DEF DirectoryInv, ProcOK, ProcRecords
<1>3. v.st # Torn /\ v.st # NoFile
    BY <1>2, FileAssumption
<1>4. CASE OpenFile(p)
    <2> DEFINE n == [v EXCEPT !.pc = "saving", !.handle = SaveTarget]
    <2>1. /\ n.pc = "saving" /\ n.command = v.command /\ n.handle = SaveTarget
          /\ n.st = v.st /\ n.new = v.new
        BY <1>2 DEF ProcRecords
    <2>2. /\ v.pc = "save" /\ proc' = [proc EXCEPT ![p] = n] /\ UNCHANGED <<agent, delivered>>
          /\ IF agent = "A" THEN state' = state ELSE state' = Torn
        BY <1>2, <1>4 DEF OpenFile, Update, SaveTarget
    <2> HIDE DEF n
    <2>3. AloneOK(n, state', tmp', delivered', agent')
        BY <1>1, <1>2, <2>1, <2>2 DEF AloneOK, SaveTarget
    <2> QED  BY <2>2, <2>3, AloneStep
<1>5. CASE WriteFile(p)
    <2> DEFINE n == [v EXCEPT !.pc = IF agent = "A" THEN "replace" ELSE "print", !.handle = "none"]
    <2>1. /\ n.pc = (IF agent = "A" THEN "replace" ELSE "print") /\ n.command = v.command
          /\ n.handle = "none" /\ n.st = v.st /\ n.new = v.new
        BY <1>2 DEF ProcRecords
    <2>2. /\ v.pc = "saving" /\ proc' = [proc EXCEPT ![p] = n] /\ UNCHANGED <<agent, delivered>>
          /\ IF v.handle = "tmp" THEN tmp' = v.st /\ state' = state ELSE state' = v.st
        BY <1>5 DEF WriteFile, Update
    <2>3. v.handle = "tmp" <=> agent = "A"
        BY <1>1, <1>2, <2>2 DEF AloneOK
    <2> HIDE DEF n
    <2>4. AloneOK(n, state', tmp', delivered', agent')
        BY <1>1, <1>2, <2>1, <2>2, <2>3 DEF AloneOK
    <2> QED  BY <2>2, <2>4, AloneStep
<1>6. CASE Replace(p)
    <2> DEFINE n == [v EXCEPT !.pc = "print"]
    <2>1. n.pc = "print" /\ n.command = v.command /\ n.handle = v.handle /\ n.st = v.st /\ n.new = v.new
        BY <1>2 DEF ProcRecords
    <2>2. v.pc = "replace" /\ UNCHANGED <<agent, delivered>>
        BY <1>6 DEF Replace
    <2>3. tmp = v.st /\ tmp # NoFile
        BY <1>1, <1>3, <2>2 DEF AloneOK
    <2>4. state' = v.st /\ proc'[p] = n
        BY <1>6, <2>3 DEF Replace
    <2> HIDE DEF n
    <2>5. AloneOK(n, state', tmp', delivered', agent')
        BY <1>1, <1>3, <2>1, <2>2, <2>4 DEF AloneOK
    <2> QED  BY <2>4, <2>5 DEF SequentialInv, OneCommand
<1>7. CASE PrintResult(p)
    <2>1. /\ v.pc = "print" /\ proc' = [proc EXCEPT ![p] = Idle] /\ UNCHANGED <<agent, state, tmp>>
          /\ delivered' = [i \in Ids |-> IF i \in v.new /\ delivered[i] < MaxDelivered
                                         THEN delivered[i] + 1 ELSE delivered[i]]
        BY <1>7 DEF PrintResult, Update, Files
    <2>2. Idle.pc = "idle" /\ Idle.command = None /\ Idle.new = {} /\ Idle.handle = "none"
        BY DEF Idle
    <2>3. v.new # {} => state = v.st /\ v.new \subseteq state.seen
        BY <1>1, <1>2, <2>1 DEF AloneOK, PollOK
    <2>4. \A i \in Ids : delivered[i] \in 0..1 /\ (i \in v.new => delivered[i] = 0)
        BY <1>1 DEF AloneOK, DirectoryInv, MaxDelivered
    <2>5. \A i \in Ids : /\ delivered'[i] <= 1
                         /\ delivered'[i] > 0 => delivered[i] > 0 \/ i \in v.new
        BY <2>1, <2>4 DEF MaxDelivered
    <2>6. AloneOK(Idle, state', tmp', delivered', agent')
        BY <1>1, <2>1, <2>2, <2>3, <2>5 DEF AloneOK
    <2> QED  BY <2>1, <2>6, AloneStep
<1> QED  BY <1>4, <1>5, <1>6, <1>7

\* With one command at a time, what the command remembers is what the file
\* says and more, until it has saved it.
THEOREM SequentialInvariant ==
    ASSUME OneCommand
    PROVE  Spec => []SequentialInv
<1>1. Init => SequentialInv
    BY FileAssumption DEF Init, SequentialInv, AloneOK, Idle, Fresh, States
<1>2. DirectoryInv /\ SequentialInv /\ [Next]_vars => SequentialInv'
    <2> SUFFICES ASSUME DirectoryInv, SequentialInv, [Next]_vars PROVE SequentialInv'
        OBVIOUS
    <2>1. ASSUME NEW r \in Relays, NEW a \in Items, PublishElsewhere(r, a)
          PROVE  SequentialInv'
        BY <2>1 DEF PublishElsewhere, Files, SequentialInv
    <2>2. ASSUME NEW p \in Procs,
                 \/ StartInit(p) \/ StartPoll(p) \/ Kill(p)
                 \/ \E a \in Own : StartPublish(p, a) \/ StartSubmit(p, a)
          PROVE  SequentialInv'
        BY <2>2, SequentialStarts
    <2>3. ASSUME NEW p \in Procs,
                 \/ StoreObject(p) \/ WriteObject(p) \/ OpenCopy(p) \/ WriteCopy(p)
                 \/ \E r \in Relays, sent, heard \in BOOLEAN : Post(p, r, sent, heard)
                 \/ EndPosts(p)
                 \/ \E r \in Relays : AskRelay(p, r)
                 \/ \E failed \in BOOLEAN : EndWalk(p, failed)
                 \/ \E a \in Items : Ignore(p, a)
                 \/ \E a \in Items, fetched \in BOOLEAN : Consider(p, a, fetched)
                 \/ EndList(p)
          PROVE  SequentialInv'
        BY <2>3, SequentialWork
    <2>4. ASSUME NEW p \in Procs, OpenFile(p) \/ WriteFile(p) \/ Replace(p) \/ PrintResult(p)
          PROVE  SequentialInv'
        BY <2>4, SequentialSave
    <2>5. CASE UNCHANGED vars
        BY <2>5 DEF vars, SequentialInv
    <2> QED  BY <2>1, <2>2, <2>3, <2>4, <2>5 DEF Next
<1> QED  BY <1>1, <1>2, DirectoryInvariant, PTL DEF Spec

\* Nothing is delivered twice by commands that run one at a time and may be
\* killed at any step, whichever agent saves: poll prints after it saved.
THEOREM DeliverOnce ==
    ASSUME OneCommand
    PROVE  Spec => []DeliveredOnce
<1>1. SequentialInv => DeliveredOnce
    BY DEF SequentialInv, AloneOK, DeliveredOnce, OneCommand
<1> QED  BY <1>1, SequentialInvariant, PTL

\* A poll without errors, with no other command beside it, has marked in
\* state.json all that the relays held when it began by the time it prints.
THEOREM CompletePoll ==
    ASSUME OneCommand
    PROVE  Spec => []PollComplete
<1>1. DirectoryInv /\ SequentialInv => PollComplete
    <2> SUFFICES ASSUME DirectoryInv, SequentialInv, NEW p \in Procs,
                        proc[p].command = "poll", proc[p].pc = "print", ~proc[p].errors
                 PROVE  state # Torn /\ \A a \in proc[p].owed : a.verdict = "valid" => a.id \in state.seen
        BY DEF PollComplete
    <2>1. state = proc[p].st
        BY DEF SequentialInv, AloneOK
    <2>2. proc[p].st \in States /\ PollOK(proc[p], held)
        BY DEF DirectoryInv, ProcOK, Recorded
    <2> QED  BY <2>1, <2>2, FileAssumption DEF PollOK, Due
<1> QED  BY <1>1, DirectoryInvariant, SequentialInvariant, PTL

\* Agent A, run one command at a time, finds a state file it can read,
\* wherever the commands before were killed: only a whole file is renamed.
THEOREM ReadableState ==
    ASSUME OneCommand
    PROVE  Spec => [](agent = "A" => StateReadable)
<1>1. SequentialInv => (agent = "A" => StateReadable)
    BY DEF SequentialInv, AloneOK, StateReadable, OneCommand
<1> QED  BY <1>1, SequentialInvariant, PTL
=============================================================================
