-------------------------- MODULE AiDocumentation --------------------------
(***************************************************************************)
(* One call of generate_table_documentation: attempts until the model      *)
(* answers or LITELLM_MAX_RETRIES of them have failed, and what becomes of *)
(* an answer.  Whatever goes wrong, the caller gets no document and an     *)
(* error text in last_error, and never an exception.                       *)
(***************************************************************************)
EXTENDS Naturals

CONSTANT NoName   \* None

\* The call for a table: attempts made, whether it is over, the table that the
\* document is about, last_error (is there one?), and whether the call raised.
Begun(table) == [table |-> table, attempts |-> 0, over |-> FALSE, doc |-> NoName,
                 error |-> FALSE, raised |-> FALSE]

Failed(call) == [call EXCEPT !.over = TRUE, !.error = TRUE]

\* An answer: no content, no JSON, JSON that is no object (it has no get), an object.
Contents == {"empty", "text", "list", "object"}

Answered(call, content) ==
    IF content = "object" THEN [call EXCEPT !.over = TRUE, !.doc = call.table]
    ELSE Failed(call)

\* Mutant: the last exception is raised again outside of the try block.
GiveUp_Raises(call) == [Failed(call) EXCEPT !.raised = TRUE]

\* The last exception is raised again, or None if there was no attempt, which is a
\* TypeError; the except block takes either.
GiveUp(call) == Failed(call)

\* Mutant: an attempt too many.
Outcomes_OneMore(call, retries, installed) ==
    IF ~installed THEN {Failed(call)}
    ELSE IF call.attempts > retries THEN {GiveUp(call)}
    ELSE {[call EXCEPT !.attempts = @ + 1]}

\* The next step of a call that is not over; without litellm there is no attempt.
Outcomes(call, retries, installed) ==
    IF ~installed THEN {Failed(call)}
    ELSE IF call.attempts = retries THEN {GiveUp(call)}
    ELSE {[call EXCEPT !.attempts = @ + 1]}
         \cup {Answered([call EXCEPT !.attempts = call.attempts + 1], c) : c \in Contents}
=============================================================================
