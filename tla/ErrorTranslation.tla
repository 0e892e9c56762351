---------------------------- MODULE ErrorTranslation ----------------------------
(***************************************************************************)
(* translate_tss_rc: from a 32-bit TSS response code to an error category. *)
(* A code is a byte nobody reads, a byte for the layer that raised it, and *)
(* a 16-bit base.  In the TPM layer a base in format one (bit 7) carries,  *)
(* beside its 6-bit error, a bit that says parameter and four that number  *)
(* the parameter, handle or session; those must not change the category.   *)
(***************************************************************************)
EXTENDS Naturals

CONSTANT Codes   \* response codes met

ASSUME TranslationAssumption == Codes \subseteq Nat

VARIABLES rc,        \* the code a TSS call returned
          category   \* the category of the error made of it, "ok", or "none" yet
codeVars == <<rc, category>>

TPM == 0
ESAPI == 7
TCTI == 10

rc_layer(code) == (code \div 65536) % 256

\* Bit 7: format one.
FMT1(base) == (base \div 128) % 2 = 1

\* Forgetting to look at the format: a warning, such as the lockout, is another code then.
normalize_tpm_base_Fault(base) == 128 * ((base \div 128) % 2) + (base % 64)

normalize_tpm_base(base) == IF FMT1(base) THEN 128 + (base % 64) ELSE base

rc_base(code, layer) ==
    IF layer = TPM THEN normalize_tpm_base(code % 65536) ELSE code % 65536

-----------------------------------------------------------------------------
(* documented_mappings; its entries for backend_error say what the default
   says and are left out *)

security_error ==
    ({TPM} \X {142, 162, 2337, 157})   \* AUTH_FAIL, BAD_AUTH, LOCKOUT, POLICY_FAIL
    \cup ({ESAPI} \X {27})             \* RSP_AUTH_FAILED

input_error ==
    ({TPM} \X {131, 139, 141, 149, 132})     \* HASH, HANDLE, RANGE, SIZE, VALUE
    \cup
    ({ESAPI} \X {5, 6, 13, 11, 14, 15, 16, 24, 25, 26})
                 \* BAD_REFERENCE, INSUFFICIENT_BUFFER, INVALID_SESSIONS, BAD_VALUE,
                 \* NO_DECRYPT_PARAM, NO_ENCRYPT_PARAM, BAD_SIZE, BAD_TR,
                 \* MULTIPLE_DECRYPT_SESSIONS, MULTIPLE_ENCRYPT_SESSIONS
    \cup
    ({TCTI} \X {5, 6, 11})                   \* BAD_REFERENCE, INSUFFICIENT_BUFFER, BAD_VALUE

resource_error ==
    ({TPM} \X {2311, 2308})                  \* LOCALITY, MEMORY
    \cup
    ({ESAPI} \X {9, 10, 20, 23})             \* TRY_AGAIN, IO_ERROR, INCOMPATIBLE_TCTI, MEMORY
    \cup
    ({TCTI} \X {8, 9, 10})                   \* NO_CONNECTION, TRY_AGAIN, IO_ERROR

translate_layer_base(layer, base) ==
    CASE <<layer, base>> \in security_error -> "security_failure"
      [] <<layer, base>> \in input_error -> "input_error"
      [] <<layer, base>> \in resource_error -> "resource_error"
      [] OTHER -> "backend_error"

translate_tss_rc(code) ==
    IF code = 0 THEN "ok"
    ELSE translate_layer_base(rc_layer(code), rc_base(code, rc_layer(code)))

-----------------------------------------------------------------------------
InitCode == rc \in Codes /\ category = "none"

translate == category = "none" /\ category' = translate_tss_rc(rc) /\ UNCHANGED rc

-----------------------------------------------------------------------------
(* Properties *)

\* A TPM response in format one: its error, whether it is about a parameter,
\* and the number of the parameter, handle or session.
FormatOne(error, parameter, number) == 128 + error + 64 * parameter + 256 * number

\* Where in a command an error of the TPM lies does not change its category, which is
\* the one documented for the error, with all of its six bits: normalize_tpm_base hides
\* what TPM2_RC_P, TPM2_RC_S and their numbers add, and nothing else.
SelectorBitsDoNotMatter ==
    category # "none" =>
        \A e \in 0..63, p \in {0, 1}, n \in 0..15 :
            rc = FormatOne(e, p, n) => category = translate_layer_base(TPM, 128 + e)

\* Warnings of the TPM (format zero) and codes of other layers have no selector:
\* each one, as the whole of its 16 bits, has the category documented for it,
\* and no code beside the documented ones is taken for one of them.
OtherCodesStandForThemselves ==
    category # "none" /\ rc # 0 =>
        LET layer == rc_layer(rc)
            base == rc % 65536
        IN layer # TPM \/ ~FMT1(base) =>
            /\ category = "security_failure" <=> <<layer, base>> \in security_error
            /\ category = "input_error" <=> <<layer, base>> \in input_error
            /\ category = "resource_error" <=> <<layer, base>> \in resource_error

\* translate_tss_rc gives every code the category documented for it.
CodesKeepTheirCategory == SelectorBitsDoNotMatter /\ OtherCodesStandForThemselves
=============================================================================
