--------------------------- MODULE MCFairServices ---------------------------
(* TLC instance of three parts of the backend that share nothing and are   *)
(* claimed to get somewhere: the audit log with its archiver, the access   *)
(* to the language model, and the calls that start one workflow.  Init     *)
(* picks one, and only that one moves.                                     *)
EXTENDS AuditChain, LlmAccess, WorkflowStart

VARIABLE service

\* Rows older than the chain: none, two in order, two within a millisecond.
Old(id, ts, us) == [id |-> id, ts |-> ts, us |-> us, body |-> "old"]
MCLegacy == {{}, {Old(3, -1, 0), Old(2, 0, 0)}, {Old(3, 0, 0), Old(2, 0, 1)}}

\* The workflow was started before: nobody calls any more.
Started ==
    /\ pc = [c \in Callers |-> "returned"] /\ lock = Free /\ row = "ready"
    /\ executed = {} /\ expiries = 0 /\ crashes = 0

MCInit ==
    /\ service \in {"audit", "llm", "start"}
    /\ AuInit /\ LlmInit /\ IF service = "start" THEN Init ELSE Started
    /\ service # "audit" => logs = {}   \* one initial state each is enough

MCNext ==
    /\ \/ service = "audit" /\ AuNext /\ UNCHANGED <<llmVars, vars>>
       \/ service = "llm" /\ LlmNext /\ UNCHANGED <<auVars, vars>>
       \/ service = "start" /\ Next /\ UNCHANGED <<auVars, llmVars>>
    /\ UNCHANGED service

\* The fairness of AuSpec, LlmSpec and FairSpec, for the part that moves.
MCFairness ==
    /\ WF_auVars(service = "audit" /\ AuTick) /\ WF_auVars(service = "audit" /\ Archiver)
    /\ WF_llmVars(service = "llm" /\ SessionExpires)
    /\ \A c \in Calls : WF_llmVars(service = "llm" /\ CallStep(c))
    /\ \A c \in Callers : WF_vars(service = "start" /\ StartStep(c))

MCSpec == MCInit /\ [][MCNext]_<<auVars, llmVars, vars, service>> /\ MCFairness
=============================================================================
