--------------------------- MODULE MCAttestation ---------------------------
\* Attestation for TLC.
EXTENDS Attestation

\* The notes differ in nothing, nor do the polls.
Symmetry == Permutations(Note) \cup Permutations(Polls)

\* The state without the local variables that a task does not read again
\* before it sets them, and without what an answer leaves of its deposits.
Used(t) ==
    CASE local[t].pc \in {"boot", "idle", "query"} -> <<local[t].pc>>
      [] local[t].pc \in {"scan", "decrypt"} -> <<local[t].pc, local[t].before>>
      [] local[t].pc = "collect" -> <<local[t]>>
      [] OTHER -> <<local[t].pc, local[t].found, local[t].upTo, local[t].new>>
UsedLocals == [t \in Task |-> Used(t)]
UsedRequest == IF request.pc = "answer" THEN request.withdrawals ELSE request
StateInUse == <<chainVars, scanVars, secrets, opVars, UsedLocals, UsedRequest, answered,
                crashes, failures>>
=============================================================================
