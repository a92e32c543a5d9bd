------------------------------ MODULE RetryCall ------------------------------
(***************************************************************************)
(* What a call through the retrier promises its caller, with time left     *)
(* out (spec section 4.5): it tries the operation one or more times; it    *)
(* stops at the first success, at the first error the classifier calls     *)
(* permanent, or, after an error worth retrying, when the context is done *)
(* (returning the context's error) or when the budget runs out (returning *)
(* that error).  A cancelled context makes the next try fail with          *)
(* Canceled.                                                               *)
(***************************************************************************)
EXTENDS Naturals

CONSTANTS
    RetryAll,       \* no classifier: every error is worth retrying
    Codes,          \* the status codes an attempt may return
    Retryable       \* the codes the classifier accepts

VARIABLES
    callPhase,      \* "running" or "done"
    tries,          \* attempts made
    code,           \* the code of the last attempt, "none" before the first
    ctxDone,        \* the caller's context is done
    answer          \* what the call returned, "none" while running

callVars == <<callPhase, tries, code, ctxDone, answer>>

Permanent(c) == c # "OK" /\ ~RetryAll /\ c \notin Retryable

\* A try is due first, and after an error worth retrying.
TryDue == code = "none" \/ (code # "OK" /\ ~Permanent(code))

CallInit ==
    /\ callPhase = "running"
    /\ tries = 0
    /\ code = "none"
    /\ ctxDone = FALSE
    /\ answer = "none"

\* One try of the operation, returning c; the context may run out while it
\* is under way.
Try(c) ==
    /\ callPhase = "running"
    /\ TryDue
    /\ ctxDone => c = "Canceled"
    /\ ctxDone' \in {ctxDone, TRUE}
    /\ tries' = tries + 1
    /\ code' = c
    /\ \/ c = "OK" /\ callPhase' = "done" /\ answer' = "ok"
       \/ Permanent(c) /\ callPhase' = "done" /\ answer' = c
       \/ /\ c # "OK" /\ ~Permanent(c)
          /\ \/ ctxDone' /\ callPhase' = "done" /\ answer' = "ctx"
             \/ ~ctxDone' /\ callPhase' = "done" /\ answer' = c
             \/ ~ctxDone' /\ UNCHANGED <<callPhase, answer>>

\* Waiting before the next try, the context is done: the call returns its
\* error.
Interrupt ==
    /\ callPhase = "running"
    /\ tries > 0 /\ TryDue
    /\ ctxDone' = TRUE
    /\ callPhase' = "done"
    /\ answer' = "ctx"
    /\ UNCHANGED <<tries, code>>

\* The context is cancelled, or its deadline passes, while the call runs.
ContextDone ==
    /\ callPhase = "running"
    /\ ~ctxDone
    /\ ctxDone' = TRUE
    /\ UNCHANGED <<callPhase, tries, code, answer>>

CallNext == (\E c \in Codes : Try(c)) \/ Interrupt \/ ContextDone

CallSpec == CallInit /\ [][CallNext]_callVars

=============================================================================
