------------------------------ MODULE Encodings ------------------------------
(***************************************************************************)
(* The conversions between what is on the wire and what the validators and *)
(* relays work with, side by side: documents and their canonical form,     *)
(* strings and numbers, cursors, and keys and signatures.  They share no   *)
(* state; a behaviour is about one of them.                                *)
(***************************************************************************)
EXTENDS JsonText, JsonScalars, Cursor, Ed25519

VARIABLE subject

encodingVars == <<subject, textVars, scalarVars, decimal, sigVars>>

EncodingsInit ==
    /\ subject \in {"document", "string", "number", "cursor", "signature"}
    /\ TextInit /\ CursorInit /\ SigInit
    /\ ScalarInit /\ mode = IF subject = "string" THEN "string" ELSE "number"

ConvertDocument  == subject = "document" /\ TextNext /\ UNCHANGED <<subject, scalarVars, decimal, sigVars>>
ConvertScalar    == subject = mode /\ ScalarNext /\ UNCHANGED <<subject, textVars, decimal, sigVars>>
ConvertCursor    == subject = "cursor" /\ CursorNext /\ UNCHANGED <<subject, textVars, scalarVars, sigVars>>
ConvertSignature == subject = "signature" /\ SigNext /\ UNCHANGED <<subject, textVars, scalarVars, decimal>>

EncodingsNext == ConvertDocument \/ ConvertScalar \/ ConvertCursor \/ ConvertSignature

EncodingsSpec == EncodingsInit /\ [][EncodingsNext]_encodingVars
=============================================================================
