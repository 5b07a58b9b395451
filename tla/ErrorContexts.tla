---------------------------- MODULE ErrorContexts ----------------------------
(***************************************************************************)
(* The error contexts of error/context.c: an error, its message and place, *)
(* and the error that caused it. A chain is a sequence, the outermost      *)
(* first; every string and every record of it is an allocation of its own, *)
(* and an allocation may fail.                                             *)
(***************************************************************************)
EXTENDS Calls, Integers, Sequences, FiniteSets, SequencesExt

CONSTANTS
    ErrorCodes,     \* KNISHIO_ERROR_...: negative, in hundreds
    ErrorTexts,       \* what is said of it, or where
    Known           \* codes the table of messages has

ASSUME ErrorAssumption == ErrorCodes \subseteq Int /\ Known \subseteq ErrorCodes

Strdup(text, fails) == IF fails THEN Missing ELSE text

\* A context with its strings, the n-th to the (n+3)-th allocation of a call of which
\* those in `failed` fail; NULL is copied without one.
ContextAt(c, n, failed) ==
    [code     |-> c.code,
     message  |-> Strdup(c.message, n + 1 \in failed),
     file     |-> Strdup(c.file, n + 2 \in failed),
     function |-> Strdup(c.function, n + 3 \in failed)]

\* knishio_error_context_create_detailed
CreateDetailed(c, failed) == IF 0 \in failed THEN <<>> ELSE <<ContextAt(c, 0, failed)>>

\* knishio_error_context_clone: the first record that cannot be had ends the clone.
CloneChain(chain, failed) ==
    LET cut == SelectInSeq([k \in DOMAIN chain |-> k], LAMBDA k : 4 * (k - 1) \in failed)
        len == IF cut = 0 THEN Len(chain) ELSE cut - 1
    IN [k \in 1..len |-> ContextAt(chain[k], 4 * (k - 1), failed)]

\* knishio_error_context_set_message, _set_location: what was there is freed first.
SetMessage(chain, text, fails) == [chain EXCEPT ![1].message = Strdup(text, fails)]
SetLocation(chain, file, function, failed) ==
    [chain EXCEPT ![1].file = Strdup(file, 0 \in failed), ![1].function = Strdup(function, 1 \in failed)]

\* knishio_error_context_set_cause: the chain behind it is destroyed, another takes its place.
SetCause(chain, cause) == <<Head(chain)>> \o cause

\* knishio_error_context_get_message, which falls back to knishio_error_to_string
MessageOf(c) == IF c.message # Missing THEN c.message ELSE IF c.code \in Known THEN "of code" ELSE "Unknown error"

\* C's division of a negative number is towards zero.
Quotient(n, d) == IF n < 0 THEN -((-n) \div d) ELSE n \div d

\* knishio_error_is_category
IsCategory(code, base) == code < 0 /\ Quotient(code, 100) * 100 = base

-----------------------------------------------------------------------------
(* Calls. *)

ErrorRecords == [code : ErrorCodes, message : ErrorTexts \cup {Missing}, file : ErrorTexts, function : {Missing}]
Chains == UNION {[1..n -> ErrorRecords] : n \in 1..2}

CloneError ==
    Quiet /\ \E chain \in Chains, failed \in SUBSET {0, 1, 4, 6} :
        Made([fn |-> "error", chain |-> chain, failed |-> failed, cloned |-> CloneChain(chain, failed)])

ChangeError ==
    Quiet /\ \E chain \in Chains, cause \in {<<>>} \cup [{1} -> ErrorRecords], text \in ErrorTexts,
               fails \in BOOLEAN, failed \in SUBSET {0, 1} :
        Made([fn |-> "cause", chain |-> chain, cause |-> cause, text |-> text,
              caused |-> SetCause(SetLocation(SetMessage(chain, text, fails), text, text, failed), cause)])

Classify ==
    Quiet /\ \E code \in ErrorCodes \cup {0} :
        Made([fn |-> "category", code |-> code,
              bases |-> {base \in {-100 * k : k \in 0..9} : IsCategory(code, base)}])

ErrorsNext == CloneError \/ ChangeError \/ Classify

-----------------------------------------------------------------------------
(* Properties. *)

\* A clone that could not be completed is the beginning of the chain, in its order, and
\* its strings are the chain's or none: no cause is said to be of an error it is not of.
\* A context always has a message, and an error belongs to one category, a success to none.
ErrorsAreTold ==
    /\ call.fn = "error" =>
        /\ Len(call.cloned) <= Len(call.chain)
        /\ call.failed = {} => call.cloned = call.chain
        /\ \A k \in DOMAIN call.cloned :
            LET was == call.chain[k]  now == call.cloned[k] IN
            /\ now.code = was.code
            /\ now.message \in {was.message, Missing} /\ now.file \in {was.file, Missing}
            /\ MessageOf(now) # Missing
    /\ call.fn = "cause" =>
        /\ Tail(call.caused) = call.cause
        /\ MessageOf(Head(call.caused)) \in {call.text} \cup {MessageOf([Head(call.chain) EXCEPT !.message = Missing])}
    /\ call.fn = "category" =>
        Cardinality(call.bases) = IF call.code = 0 THEN 0 ELSE 1

=============================================================================
