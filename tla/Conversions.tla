------------------------------ MODULE Conversions ------------------------------
(***************************************************************************)
(* The conversions of the library side by side: each behaviour performs    *)
(* one of them, the others stay as they are.                               *)
(***************************************************************************)
EXTENDS PcrMarshalling, PcrValues, Texts, ErrorTranslation

VARIABLE doing   \* the conversion performed

vars == <<doing, readVars, valueVars, textVars, codeVars>>

NoTask == [task |-> "none"]

Init ==
    /\ doing \in {"read", "value", "text", "code"}
    /\ IF doing = "read" THEN InitRead ELSE request = Failure.selection
    /\ wire = <<>> /\ answer = NoAnswer /\ honest = TRUE /\ outcome = Failure
    /\ stage = "asked"
    /\ IF doing = "value" THEN InitValue ELSE asked = NoTask
    /\ value = Unmade
    /\ IF doing = "text" THEN InitText ELSE given = NoTask
    /\ made = Nothing
    /\ IF doing = "code" THEN InitCode ELSE rc = 0
    /\ category = "none"

Read  == doing = "read" /\ NextRead /\ UNCHANGED <<doing, valueVars, textVars, codeVars>>
Value == doing = "value" /\ NextValue /\ UNCHANGED <<doing, readVars, textVars, codeVars>>
Text  == doing = "text" /\ NextText /\ UNCHANGED <<doing, readVars, valueVars, codeVars>>
Code  == doing = "code" /\ translate /\ UNCHANGED <<doing, readVars, valueVars, textVars>>

Next == Read \/ Value \/ Text \/ Code

Spec == Init /\ [][Next]_vars
=============================================================================
