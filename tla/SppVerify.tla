------------------------------ MODULE SppVerify ------------------------------
(***************************************************************************)
(* The program spp_verify.py around the Python validator: what it reports  *)
(* of a message when it is called with a file, with --batch, with          *)
(* --diagnostic, which goes through the checks of validate_object written  *)
(* out a second time, and when the message is a case of a conformance      *)
(* suite.  The classes "jcs", "work" and "spp-ed25519-1" of a suite compare *)
(* one number or text with the expected one and are left out, as are the   *)
(* numbers a case may want besides.                                        *)
(***************************************************************************)
EXTENDS Assertion

\* run_diagnostic, and the same with the version left to check_schema.
Diagnostic_NoQuickCheck(m) ==
    IF PyInput(m) # "ok" THEN PyInput(m) ELSE
    IF PySchema(m) # "ok" THEN PySchema(m) ELSE
    IF m.jcs > MaxJcs THEN "jcs-too-large" ELSE
    IF ~IsString(m.id) THEN "missing-id" ELSE
    IF ~m.id.match THEN "id-mismatch" ELSE
    IF m.h > Target(PyUnits(m)) THEN "insufficient-work" ELSE
    IF ~IsString(m.sig) \/ m.sig.form # "hex128" THEN "signature" ELSE
    IF m.sig.verifies THEN "valid" ELSE "signature"

Diagnostic(m) ==
    IF PyInput(m) # "ok" THEN PyInput(m) ELSE
    IF m.v.kind = "number" /\ ~IsOne(m.v) THEN "unknown-v" ELSE
    IF PySchema(m) # "ok" THEN PySchema(m) ELSE
    IF m.jcs > MaxJcs THEN "jcs-too-large" ELSE
    IF ~IsString(m.id) THEN "missing-id" ELSE
    IF ~m.id.match THEN "id-mismatch" ELSE
    IF ~Is(m, "pointer") /\ ~Is(m, "channel") THEN "unknown-type" ELSE
    IF m.h > Target(PyUnits(m)) THEN "insufficient-work" ELSE
    IF ~IsString(m.sig) \/ m.sig.form # "hex128" THEN "signature" ELSE
    IF m.sig.verifies THEN "valid" ELSE "signature"

\* The process's exit code, from verify_file and from run_diagnostic.
ExitCode(verdict) == CASE verdict = "valid" -> 0
                       [] verdict = "unknown-v" -> 2
                       [] OTHER -> 1

\* A line of --batch.
VerdictRecord(m) == [status |-> StatusOf(PyVerdict(m)), reason |-> PyVerdict(m)]

Classes == {"full-assertion", "json-input", "schema", "length"}
Expectations == {"valid", "invalid", "unsupported"}

\* parse_utf8, which takes any value and not only an object.
Parsed(m) == IF PyInput(m) = "not-object" THEN "ok" ELSE PyInput(m)

\* What a case of a class raises, or "ok".  The length is looked at only
\* when the case is expected to be invalid.
CaseFault(cls, expect, m) ==
    IF cls = "full-assertion" THEN (IF PyVerdict(m) = "valid" THEN "ok" ELSE PyVerdict(m)) ELSE
    IF Parsed(m) # "ok" THEN Parsed(m) ELSE
    IF cls = "json-input" THEN "ok" ELSE
    IF PyInput(m) = "not-object" THEN "schema" ELSE
    IF PySchema(m) # "ok" THEN PySchema(m) ELSE
    IF cls = "length" /\ expect = "invalid" /\ m.jcs > MaxJcs THEN "jcs-too-large" ELSE "ok"

\* run_case: does the case pass?
RunCase_AcceptedPasses(cls, expect, reasons, m) ==
    LET fault == CaseFault(cls, expect, m)
    IN  CASE fault = "ok" -> TRUE
          [] fault = "unknown-v" -> expect = "unsupported" /\ (reasons = {} \/ fault \in reasons)
          [] OTHER -> expect = "invalid" /\ (reasons = {} \/ fault \in reasons)

RunCase(cls, expect, reasons, m) ==
    LET fault == CaseFault(cls, expect, m)
    IN  CASE fault = "ok" -> IF cls = "full-assertion" THEN expect = "valid" ELSE expect # "invalid"
          [] fault = "unknown-v" -> expect = "unsupported" /\ (reasons = {} \/ fault \in reasons)
          [] OTHER -> expect = "invalid" /\ (reasons = {} \/ fault \in reasons)

-----------------------------------------------------------------------------
\* --diagnostic, whose checks are a copy, stops at the check at which the
\* validator stops, and the exit codes and the lines of --batch tell the
\* status the protocol asks for.
DiagnosticAgrees ==
    phase = "mined" =>
        /\ Diagnostic(msg) = PyVerdict(msg)
        /\ ExitCode(Diagnostic(msg)) = CASE Status(msg) = "valid" -> 0
                                         [] Status(msg) = "unsupported" -> 2
                                         [] OTHER -> 1
        /\ VerdictRecord(msg).status = Status(msg)

\* What the other classes look at, without an order: the text, or the text
\* and everything the schema says.
Accepts(cls, m) ==
    IF cls = "json-input"
    THEN ~m.input.bom /\ m.input.bytes = "ok" /\ m.input.syntax \in {"ok", "not-object"}
    ELSE Clean(m) /\ m.v.kind = "number" /\ IsOne(m.v) /\ Shaped(m)

\* What a passing case shows.  One of a whole assertion passes exactly when
\* its expectation is the status of the message.  One of another class that
\* expects "valid" passes exactly when what its class looks at is right; one
\* that expects "unsupported" passes then too, so it shows only that the
\* message is of another version or that the class found nothing.  No case
\* of any class that expects "invalid" passes with a valid message.
SuiteTellsTruth ==
    phase = "mined" =>
        /\ \A expect \in Expectations :
             RunCase("full-assertion", expect, {}, msg) <=> Status(msg) = expect
        /\ \A cls \in Classes \ {"full-assertion"} :
             /\ RunCase(cls, "valid", {}, msg) <=> Accepts(cls, msg)
             /\ Accepts(cls, msg) => RunCase(cls, "unsupported", {}, msg)
             /\ RunCase(cls, "unsupported", {}, msg) =>
                    Accepts(cls, msg) \/ Status(msg) = "unsupported"
        /\ \A cls \in Classes, reasons \in {{}, {PyVerdict(msg)}} :
             RunCase(cls, "invalid", reasons, msg) => Status(msg) # "valid"
=============================================================================
