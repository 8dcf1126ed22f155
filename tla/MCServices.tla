----------------------------- MODULE MCServices -----------------------------
(* TLC instance of four parts of the backend that share nothing, for what  *)
(* they must never do: the market-data cache, the job queue, a user's      *)
(* voice sessions and the language model's quotas.  Init picks one, and    *)
(* only that one moves.                                                    *)
EXTENDS MarketCache, JobQueue, VoiceSession, LlmAccess

VARIABLE service

MCInit ==
    /\ service \in {"market", "queue", "voice", "llm"}
    /\ McInit /\ JqInit /\ VsInit /\ LlmInit
    /\ service # "voice" => members = {}   \* one initial state is enough
    \* The client's action that makes a session listen is one of the events.
    /\ 1 \in members => sessions[1].st = "IDLE"

MCNext ==
    /\ \/ service = "market" /\ McNext /\ UNCHANGED <<jqVars, vsVars, llmVars>>
       \/ service = "queue" /\ JqNext /\ UNCHANGED <<mcVars, vsVars, llmVars>>
       \/ service = "voice" /\ VsNext /\ UNCHANGED <<mcVars, jqVars, llmVars>>
       \/ service = "llm" /\ LlmNext /\ UNCHANGED <<mcVars, jqVars, vsVars>>
    /\ UNCHANGED service

MCSpec == MCInit /\ [][MCNext]_<<mcVars, jqVars, vsVars, llmVars, service>>
=============================================================================
