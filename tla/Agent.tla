-------------------------------- MODULE Agent --------------------------------
(***************************************************************************)
(* The agents of examples/agent-a/agent.py and examples/agent-b/agent.ts:  *)
(* commands run as processes on one state directory.  A command loads      *)
(* state.json, works on its copy while it talks to relays and object       *)
(* servers, saves the copy and prints its result.  It may be killed at any *)
(* step, and nothing keeps two commands from running at once.              *)
(*                                                                         *)
(* The agents differ in how they save: agent A writes state.json.tmp and   *)
(* renames it, agent B writes state.json in place.  Both write an object   *)
(* file in place, and only when there is none of that name.  Writing a     *)
(* file is opening it, which empties it, and writing.                      *)
(*                                                                         *)
(* Op_What beside Op is Op with a plausible mistake, as in DurableRelay.   *)
(***************************************************************************)
EXTENDS Integers, FiniteSets

CONSTANTS
    Procs,       \* processes that run commands
    Relays,      \* what --relay names
    Items,       \* assertions: [id, type, object, verdict]
    Own,         \* the items this agent publishes
    Savers,      \* which of the two save_state to look at: subset of {"A", "B"}
    Torn, NoFile, None

ASSUME AgentAssumption ==
    /\ Own \subseteq Items /\ Savers \subseteq {"A", "B"}
    /\ \A a \in Items : a.type \in {"channel", "pointer"} /\ a.verdict \in {"valid", "invalid"}
    /\ \A a \in Items : a.type = "pointer" => a.object # None
    /\ \A a \in Own : a.verdict = "valid"

VARIABLES
    agent,     \* whose save_state: "A" or "B"; fixed
    held,      \* per relay: the items of the channel it holds
    state,     \* state.json: [seen, published, objects], or Torn
    tmp,       \* state.json.tmp, or NoFile
    objects,   \* objects/<hex>: "none", "partial" (emptied) or "whole"
    copies,    \* published/<hex>.json, as objects
    proc,      \* per process: the command it runs
    delivered  \* history: per id, how often a poll printed it as new

vars == <<agent, held, state, tmp, objects, copies, proc, delivered>>

Ids     == {a.id : a \in Items}
Objects == {a.object : a \in Items} \ {None}

\* What state.json can say; a file cut short, or none, does not read as it.
States == [seen : SUBSET Ids, published : SUBSET Ids, objects : SUBSET Objects]

ASSUME FileAssumption == Torn \notin States /\ NoFile \notin States

Fresh == [seen |-> {}, published |-> {}, objects |-> {}]
Idle  == [pc |-> "idle", command |-> None, st |-> Fresh, item |-> None,
          relays |-> {}, relay |-> None,
          stored |-> FALSE, errors |-> FALSE, base |-> {}, queue |-> {}, processed |-> {},
          new |-> {}, handle |-> "none", owed |-> {}]

\* A directory after its first init.
Init ==
    /\ agent \in Savers
    /\ held = [r \in Relays |-> {}]
    /\ state = Fresh
    /\ tmp = NoFile
    /\ objects = [o \in Objects |-> "none"]
    /\ copies = [a \in Own |-> "none"]
    /\ proc = [p \in Procs |-> Idle]
    /\ delivered = [i \in Ids |-> 0]

Update(p, next) == proc' = [proc EXCEPT ![p] = next]
Private         == UNCHANGED <<agent, held, state, tmp, objects, copies, delivered>>
Files           == <<state, tmp, objects, copies>>

\* Other agents publish on a relay.
PublishElsewhere(r, a) ==
    /\ a \in Items \ Own /\ a \notin held[r]
    /\ held' = [held EXCEPT ![r] = @ \cup {a}]
    /\ UNCHANGED <<agent, Files, proc, delivered>>

-----------------------------------------------------------------------------
(* Commands begin: load_state, which fails on a file that does not parse. *)

\* init on a directory that exists: read the state and save it again.
StartInit(p) ==
    /\ proc[p].pc = "idle" /\ state # Torn
    /\ Update(p, [Idle EXCEPT !.pc = "save", !.command = "init", !.st = state])
    /\ Private

\* publish and publish-channel: the pointer's object is stored first.
StartPublish(p, a) ==
    /\ proc[p].pc = "idle" /\ state # Torn
    /\ Update(p, [Idle EXCEPT !.pc = IF a.type = "pointer" THEN "object" ELSE "copy",
                    !.command = "publish", !.st = state, !.item = a, !.relays = Relays])
    /\ Private

\* submit sends the file of an earlier publish; it reads no state.json.
StartSubmit(p, a) ==
    /\ proc[p].pc = "idle" /\ copies[a] = "whole"
    /\ Update(p, [Idle EXCEPT !.pc = "post", !.command = "submit", !.item = a,
                    !.relays = Relays])
    /\ Private

\* poll; owed is history: what the relays hold now.
StartPoll(p) ==
    /\ proc[p].pc = "idle" /\ state # Torn
    /\ Update(p, [Idle EXCEPT !.pc = "relay", !.command = "poll", !.st = state,
                    !.relays = Relays, !.owed = UNION {held[r] : r \in Relays}])
    /\ Private

-----------------------------------------------------------------------------
\* What a command does once the object of its item is in its file.
ObjectStored(v) ==
    IF v.command = "poll"
    THEN [v EXCEPT !.pc = "consider", !.item = None, !.st.objects = @ \cup {v.item.object}]
    ELSE [v EXCEPT !.pc = "copy"]

\* store_object: nothing to do when the file exists, else it is opened ...
StoreObject(p) ==
    LET v == proc[p] IN
    /\ v.pc = "object"
    /\ IF objects[v.item.object] = "none"
       THEN /\ objects' = [objects EXCEPT ![v.item.object] = "partial"]
            /\ Update(p, [v EXCEPT !.pc = "write"])
       ELSE Update(p, ObjectStored(v)) /\ UNCHANGED objects
    /\ UNCHANGED <<agent, held, state, tmp, copies, delivered>>

\* ... and written.
WriteObject(p) ==
    LET v == proc[p] IN
    /\ v.pc = "write"
    /\ objects' = [objects EXCEPT ![v.item.object] = "whole"]
    /\ Update(p, ObjectStored(v))
    /\ UNCHANGED <<agent, held, state, tmp, copies, delivered>>

\* The mined envelope is kept in published/, over any earlier file of its id.
\* Mining, before it, touches nothing shared.
OpenCopy(p) ==
    /\ proc[p].pc = "copy"
    /\ copies' = [copies EXCEPT ![proc[p].item] = "partial"]
    /\ Update(p, [proc[p] EXCEPT !.pc = "copying"])
    /\ UNCHANGED <<agent, held, state, tmp, objects, delivered>>

WriteCopy(p) ==
    /\ proc[p].pc = "copying"
    /\ copies' = [copies EXCEPT ![proc[p].item] = "whole"]
    /\ Update(p, [proc[p] EXCEPT !.pc = "post"])
    /\ UNCHANGED <<agent, held, state, tmp, objects, delivered>>

\* POST to the next relay: refused or unreachable, or held from now on with
\* the answer heard or lost.
Post(p, r, sent, heard) ==
    LET v == proc[p] IN
    /\ v.pc = "post" /\ r \in v.relays /\ (heard => sent)
    /\ held' = IF sent THEN [held EXCEPT ![r] = @ \cup {v.item}] ELSE held
    /\ Update(p, [v EXCEPT !.relays = @ \ {r}, !.stored = @ \/ heard])
    /\ UNCHANGED <<agent, Files, delivered>>

\* After the last relay: the item is recorded only when a relay took it;
\* publish saves, publish-channel saves what is new, submit saves nothing.
EndPosts_Unconditional(p) ==
    LET v == proc[p] IN
    /\ v.pc = "post" /\ v.relays = {}
    /\ Update(p, [v EXCEPT !.pc = "save",
                           !.st.published = @ \cup {v.item.id},
                           !.st.objects = @ \cup ({v.item.object} \ {None})])
    /\ Private

EndPosts(p) ==
    LET v == proc[p] IN
    /\ v.pc = "post" /\ v.relays = {}
    /\ IF /\ v.command = "publish" /\ v.stored
          /\ (v.item.type = "pointer" \/ v.item.id \notin v.st.published)
       THEN Update(p, [v EXCEPT !.pc = "save",
                         !.st.published = @ \cup {v.item.id},
                         !.st.objects = IF v.item.type = "pointer"
                                        THEN @ \cup {v.item.object} ELSE @])
       ELSE Update(p, [v EXCEPT !.pc = "print"])
    /\ Private

-----------------------------------------------------------------------------
\* poll asks the next relay for the channel's list.
AskRelay(p, r) ==
    LET v == proc[p] IN
    /\ v.pc = "relay" /\ r \in v.relays
    /\ Update(p, [v EXCEPT !.pc = "listing", !.relays = @ \ {r}, !.relay = r, !.base = held[r]])
    /\ Private

\* What the walk brings: all that was there when it began, or, when a page
\* fails, the items of the pages before it.
Walked_FirstPage(due, now, failed) == SUBSET now
Walked(due, now, failed) == {L \in SUBSET now : failed \/ due \subseteq L}

EndWalk(p, failed) ==
    LET v == proc[p] IN
    /\ v.pc = "listing"
    /\ \E L \in Walked(v.base, held[v.relay], failed) :
         Update(p, [v EXCEPT !.pc = "consider", !.queue = L, !.relay = None, !.base = {},
                             !.errors = @ \/ failed])
    /\ Private

\* consider, on an item that does not verify, was met on another relay, or
\* was seen in an earlier run.
Ignore(p, a) ==
    LET v == proc[p] IN
    /\ v.pc = "consider" /\ a \in v.queue
    /\ a.verdict = "invalid" \/ a.id \in v.processed \/ a.id \in v.st.seen
    /\ Update(p, [v EXCEPT !.queue = @ \ {a},
                    !.processed = IF a.verdict = "valid" THEN @ \cup {a.id} ELSE @])
    /\ Private

\* consider, on a new item: it is marked seen before its object is fetched,
\* and stays so when no locator has the bytes with the right hash.
Consider_RecordsUnfetched(p, a, fetched) ==
    LET v == proc[p] IN
    /\ v.pc = "consider" /\ a \in v.queue
    /\ a.verdict = "valid" /\ a.id \notin v.processed /\ a.id \notin v.st.seen
    /\ fetched => a.type = "pointer"
    /\ Update(p, [v EXCEPT !.queue = @ \ {a}, !.processed = @ \cup {a.id},
                           !.st.seen = @ \cup {a.id}, !.new = @ \cup {a.id},
                           !.st.objects = @ \cup ({a.object} \ {None}),
                           !.pc = IF fetched THEN "object" ELSE @,
                           !.item = IF fetched THEN a ELSE @])
    /\ Private

Consider(p, a, fetched) ==
    LET v == proc[p] IN
    /\ v.pc = "consider" /\ a \in v.queue
    /\ a.verdict = "valid" /\ a.id \notin v.processed /\ a.id \notin v.st.seen
    /\ fetched => a.type = "pointer"
    /\ Update(p, [v EXCEPT !.queue = @ \ {a}, !.processed = @ \cup {a.id},
                           !.st.seen = @ \cup {a.id}, !.new = @ \cup {a.id},
                           !.pc = IF fetched THEN "object" ELSE @,
                           !.item = IF fetched THEN a ELSE @])
    /\ Private

\* The list is worked off: the next relay, or the end of the poll.
EndList_NoSave(p) ==
    LET v == proc[p] IN
    /\ v.pc = "consider" /\ v.queue = {}
    /\ Update(p, [v EXCEPT !.pc = IF v.relays = {} THEN "print" ELSE "relay"])
    /\ Private

EndList(p) ==
    LET v == proc[p] IN
    /\ v.pc = "consider" /\ v.queue = {}
    /\ Update(p, [v EXCEPT !.pc = IF v.relays = {} THEN "save" ELSE "relay"])
    /\ Private

-----------------------------------------------------------------------------
\* The file save_state opens.
SaveTarget_InPlace == "state"
SaveTarget         == IF agent = "A" THEN "tmp" ELSE "state"

\* save_state opens its file and thereby empties it.
OpenFile(p) ==
    /\ proc[p].pc = "save"
    /\ Update(p, [proc[p] EXCEPT !.pc = "saving", !.handle = SaveTarget])
    /\ IF SaveTarget = "tmp" THEN tmp' = Torn /\ UNCHANGED state
                             ELSE state' = Torn /\ UNCHANGED tmp
    /\ UNCHANGED <<agent, held, objects, copies, delivered>>

\* It writes through its handle, whatever the file is called by now.
WriteFile(p) ==
    LET v == proc[p] IN
    /\ v.pc = "saving"
    /\ IF v.handle = "tmp" THEN tmp' = v.st /\ UNCHANGED state
                           ELSE state' = v.st /\ UNCHANGED tmp
    /\ Update(p, [v EXCEPT !.pc = IF agent = "A" THEN "replace" ELSE "print", !.handle = "none"])
    /\ UNCHANGED <<agent, held, objects, copies, delivered>>

\* Agent A renames the temporary file; a handle somebody else has on it is
\* from now on one on state.json.  With no such file left the command dies.
Replace(p) ==
    /\ proc[p].pc = "replace"
    /\ IF tmp = NoFile
       THEN Update(p, Idle) /\ UNCHANGED <<state, tmp>>
       ELSE /\ state' = tmp /\ tmp' = NoFile
            /\ proc' = [q \in Procs |->
                 IF q = p THEN [proc[q] EXCEPT !.pc = "print"]
                 ELSE IF proc[q].handle = "tmp" THEN [proc[q] EXCEPT !.handle = "state"]
                 ELSE proc[q]]
    /\ UNCHANGED <<agent, held, objects, copies, delivered>>

\* The history delivered counts "never", "once" and "more than once".
MaxDelivered == 2

\* emit: the result is printed and the command ends.
PrintResult(p) ==
    LET v == proc[p] IN
    /\ v.pc = "print"
    /\ delivered' = [i \in Ids |-> IF i \in v.new /\ delivered[i] < MaxDelivered
                                    THEN delivered[i] + 1 ELSE delivered[i]]
    /\ Update(p, Idle)
    /\ UNCHANGED <<agent, held, Files>>

Kill(p) ==
    /\ proc[p].pc # "idle"
    /\ Update(p, Idle)
    /\ Private

Next ==
    \/ \E r \in Relays, a \in Items : PublishElsewhere(r, a)
    \/ \E p \in Procs :
        \/ StartInit(p) \/ StartPoll(p)
        \/ \E a \in Own : StartPublish(p, a) \/ StartSubmit(p, a)
        \/ StoreObject(p) \/ WriteObject(p) \/ OpenCopy(p) \/ WriteCopy(p)
        \/ \E r \in Relays, sent, heard \in BOOLEAN : Post(p, r, sent, heard)
        \/ EndPosts(p)
        \/ \E r \in Relays : AskRelay(p, r)
        \/ \E failed \in BOOLEAN : EndWalk(p, failed)
        \/ \E a \in Items : Ignore(p, a)
        \/ \E a \in Items, fetched \in BOOLEAN : Consider(p, a, fetched)
        \/ EndList(p)
        \/ OpenFile(p) \/ WriteFile(p) \/ Replace(p) \/ PrintResult(p)
        \/ Kill(p)

Spec == Init /\ [][Next]_vars
-----------------------------------------------------------------------------

\* With one command at a time an item is printed as new at most once
\* ("never re-deliver a seen id"), although commands are killed at any step
\* and several relays offer the same item: poll prints after it has saved.
DeliveredOnce == \A i \in Ids : delivered[i] <= 1

\* A poll that saw no errors has marked all that the relays held when it
\* began by the time it prints its result.
PollComplete ==
    \A p \in Procs : proc[p].command = "poll" /\ proc[p].pc = "print" /\ ~proc[p].errors =>
        state # Torn /\ \A a \in proc[p].owed : a.verdict = "valid" => a.id \in state.seen

\* What the state file calls published was taken by a relay and has a file
\* in published/, whatever commands ran at once and were killed.
PublishedIsHeld ==
    state # Torn => \A i \in state.published :
        \E r \in Relays, a \in Own : a.id = i /\ a \in held[r] /\ copies[a] # "none"

\* What the state file lists as an object has a file.
RecordedIsStored ==
    state # Torn => \A o \in state.objects : objects[o] # "none"

\* Between commands the state file can be read: identity, seen ids and
\* published ids survive whatever was killed before.
StateReadable == (\A p \in Procs : proc[p].pc = "idle") => state # Torn

\* An object the state file lists has all its bytes when no command is at
\* work ("stores it only when its SHA-256 equals ref.hash").  A file that a
\* killed command left behind is taken for the object ever after.
RecordedObjectsIntact ==
    state # Torn /\ (\A p \in Procs : proc[p].pc = "idle") =>
        \A o \in state.objects : objects[o] = "whole"
=============================================================================
