----------------------------- MODULE LlmAccess -----------------------------
(***************************************************************************)
(* Access to the language model (Backend/src/voice/services: LlmService,   *)
(* QuotaService, LlmCacheService): concurrent requests of one user in one  *)
(* session, for one prompt.  The three quotas are read one after another   *)
(* before the provider is asked and counted only after it has answered.    *)
(* Month and minute counters are keys named after their window, so a new   *)
(* window starts at zero; the session's counter ends only by its expiry.   *)
(***************************************************************************)
EXTENDS Naturals, FiniteSets, Absent

CONSTANTS
    Calls,         \* requests that may be in progress at once
    MonthLimit, CustomLimits, SessionLimit, MinuteLimit,
    MaxMinute      \* bound on the minutes of a run

\* The defaults are 1000, 100 and 20; an administrator may set any limit.
ASSUME LlmAssumption ==
    /\ IsFiniteSet(Calls) /\ Calls # {}
    /\ MonthLimit \in Nat /\ SessionLimit \in Nat /\ MinuteLimit \in Nat /\ MaxMinute \in Nat
    /\ CustomLimits \subseteq Nat /\ None \notin Nat

VARIABLES
    usage,     \* Redis: the month's and the session's counter, and one per minute
    expires,   \* the session's counter has an expiry
    custom,    \* the user's own monthly limit, or None
    cached,    \* an answer to the prompt is cached
    minute,    \* the clock
    call,      \* requests in progress
    reset,     \* keys a resetUserQuota in progress has found
    peak,      \* highest monthly limit in force since the counter began
    orphaned   \* the first to count a session died before it set the expiry

llmVars == <<usage, expires, custom, cached, minute, call, reset, peak, orphaned>>
store == <<usage, expires, custom, cached, peak, orphaned>>

Quiet == [pc |-> "idle", minute |-> 0, limit |-> 0, old |-> FALSE]
Unused == [month |-> 0, session |-> 0, minute |-> [m \in 0..MaxMinute |-> 0]]

LlmInit ==
    /\ usage = Unused /\ expires = FALSE /\ custom = None /\ cached = FALSE
    /\ minute = 0 /\ call = [c \in Calls |-> Quiet] /\ reset = {}
    /\ peak = MonthLimit /\ orphaned = FALSE

\* A request goes on to its next await, or ends.
Goes(c, at, to) == call[c].pc = at /\ call' = [call EXCEPT ![c].pc = to]
Ends(c) == call' = [call EXCEPT ![c] = Quiet]

-----------------------------------------------------------------------------
\* generateResponse (and generateResponseWithFallback, which turns an error
\* into the fallback message and changes nothing).
generateResponse(c) ==
    /\ call[c].pc = "idle"
    /\ call' = [call EXCEPT ![c] = [Quiet EXCEPT !.pc = "limit", !.minute = minute]]
    /\ UNCHANGED <<store, minute, reset>>

InForce(l) == IF l = None THEN MonthLimit ELSE l

ReadLimit(c) ==
    /\ call[c].pc = "limit"
    /\ call' = [call EXCEPT ![c].pc = "month", ![c].limit = InForce(custom)]
    /\ UNCHANGED <<store, minute, reset>>

\* Faulty: refused only above the limit.
ReachedLate(n, limit) == n > limit

Reached(n, limit) == n >= limit

\* What a check was for is forgotten after it.
Passed(e, to) == [pc |-> to, minute |-> IF to = "cache" THEN 0 ELSE e.minute, limit |-> 0, old |-> FALSE]

Check(c, at, n, limit, to) ==
    /\ call[c].pc = at
    /\ IF Reached(n, limit) THEN Ends(c)
       ELSE call' = [call EXCEPT ![c] = Passed(@, to)]
    /\ UNCHANGED <<store, minute, reset>>

\* The month is the one in which enforceQuota began.  Once it is over, its
\* counter is still there, whatever it shows, or has expired.
checkMonthlyQuota(c) ==
    \/ ~call[c].old /\ Check(c, "month", usage.month, call[c].limit, "session")
    \/ call[c].old /\ \E n \in {0, call[c].limit} : Check(c, "month", n, call[c].limit, "session")

checkSessionQuota(c) == Check(c, "session", usage.session, SessionLimit, "minute")

\* The minute is the one in which enforceQuota began.
checkRequestsPerMinute(c) ==
    Check(c, "minute", usage.minute[call[c].minute], MinuteLimit, "cache")

\* A Redis error in enforceQuota refuses the request.
enforceQuotaFails(c) ==
    /\ call[c].pc \in {"limit", "month", "session", "minute"}
    /\ Ends(c)
    /\ UNCHANGED <<store, minute, reset>>

\* With useCache, a hit is returned without being counted, and an error is
\* a miss.
getCached(c, useCache) ==
    /\ \/ useCache /\ cached /\ call[c].pc = "cache" /\ Ends(c)
       \/ Goes(c, "cache", IF useCache THEN "ask and store" ELSE "ask")
    /\ UNCHANGED <<store, minute, reset>>

\* A provider's error is answered with the fallback message, and from here
\* on treated as an answer.
callLlmWithFallback(c) ==
    /\ Goes(c, "ask", "record") \/ Goes(c, "ask and store", "store")
    /\ UNCHANGED <<store, minute, reset>>

\* A failed write is only logged.
setCached(c) ==
    /\ Goes(c, "store", "record")
    /\ cached' \in {cached, TRUE}
    /\ UNCHANGED <<usage, expires, custom, minute, reset, peak, orphaned>>

\* Faulty: INCR taken to return the value before it.
CountedFirstBefore(n) == n = 0

CountedFirst(n) == n = 1

\* recordRequest: the three INCRs, of which a Redis error may lose any, in
\* the windows of this moment.  Whoever counts 1 has the expiry to set.
recordRequest(c, recordQuota) ==
    /\ call[c].pc = "record"
    /\ IF ~recordQuota THEN Ends(c) /\ UNCHANGED usage
       ELSE \E done \in SUBSET {"month", "session", "minute"} :
               LET plus(k) == IF k \in done THEN 1 ELSE 0 IN
               /\ usage' = [month |-> usage.month + plus("month"),
                            session |-> usage.session + plus("session"),
                            minute |-> [usage.minute EXCEPT ![minute] = @ + plus("minute")]]
               /\ IF "session" \in done /\ CountedFirst(usage'.session) THEN Goes(c, "record", "expire")
                  ELSE Ends(c)
    /\ UNCHANGED <<expires, custom, cached, minute, reset, peak, orphaned>>

\* incrementWithExpiry's EXPIRE: nothing happens if the key is gone.
SetExpiry(c) ==
    /\ call[c].pc = "expire"
    /\ expires' = (usage.session > 0)
    /\ Ends(c)
    /\ UNCHANGED <<usage, custom, cached, minute, reset, peak, orphaned>>

\* The process serving the request dies.
CallDies(c) ==
    /\ call[c].pc # "idle"
    /\ Ends(c)
    /\ orphaned' = (orphaned \/ (call[c].pc = "expire" /\ usage.session > 0 /\ ~expires))
    /\ UNCHANGED <<usage, expires, custom, cached, minute, reset, peak>>

-----------------------------------------------------------------------------
DropSession ==
    /\ usage' = [usage EXCEPT !.session = 0]
    /\ expires' = FALSE /\ orphaned' = FALSE
    /\ UNCHANGED <<custom, cached, minute, call, reset, peak>>

resetSessionQuota == usage.session > 0 /\ DropSession
SessionExpires == expires /\ DropSession

Higher(m, n) == IF m > n THEN m ELSE n

\* setUserMonthlyQuota sets a limit below the usage too.
setUserMonthlyQuota(l) ==
    /\ custom' = l
    /\ peak' = Higher(peak, l)
    /\ UNCHANGED <<usage, expires, cached, minute, call, reset, orphaned>>

\* resetUserQuota: KEYS of the user's monthly prefix, which is the limit's
\* prefix too, then DEL of the keys found.
FindUserKeys ==
    /\ reset = {}
    /\ reset' = {k \in {"usage", "limit"} : IF k = "usage" THEN usage.month > 0 ELSE custom # None}
    /\ reset' # {}
    /\ UNCHANGED <<store, minute, call>>

\* The month's counter begins again under limit l.
Begins(l) == usage' = [usage EXCEPT !.month = 0] /\ peak' = InForce(l)

DeleteUserKeys ==
    /\ reset # {} /\ reset' = {}
    /\ custom' = IF "limit" \in reset THEN None ELSE custom
    /\ IF "usage" \in reset THEN Begins(custom')
       ELSE peak' = Higher(peak, InForce(custom')) /\ UNCHANGED usage
    /\ UNCHANGED <<expires, cached, minute, call, orphaned>>

\* A new month names new keys, and the limit expires with the old one.
MonthEnds ==
    /\ custom' = None /\ Begins(None)
    /\ reset' = {}
    /\ call' = [c \in Calls |-> IF call[c].pc \in {"limit", "month"} THEN [call[c] EXCEPT !.old = TRUE]
                                                                     ELSE call[c]]
    /\ UNCHANGED <<expires, cached, minute, orphaned>>

MinuteEnds ==
    /\ minute < MaxMinute
    /\ minute' = minute + 1
    /\ UNCHANGED <<store, call, reset>>

DropAnswer ==
    /\ cached
    /\ cached' = FALSE
    /\ UNCHANGED <<usage, expires, custom, minute, call, reset, peak, orphaned>>

\* For one model or for all; no key found, or a Redis error, changes nothing.
invalidate == DropAnswer
invalidateAll == DropAnswer

\* Taken when the entry is older than the age asked for.
pruneOldEntries == DropAnswer

\* After 24 hours.
AnswerExpires == DropAnswer

warmCache ==
    /\ cached' = TRUE
    /\ UNCHANGED <<usage, expires, custom, minute, call, reset, peak, orphaned>>

CallStep(c) ==
    \/ ReadLimit(c) \/ checkMonthlyQuota(c) \/ checkSessionQuota(c) \/ checkRequestsPerMinute(c)
    \/ \E useCache \in BOOLEAN : getCached(c, useCache)
    \/ callLlmWithFallback(c) \/ setCached(c)
    \/ \E recordQuota \in BOOLEAN : recordRequest(c, recordQuota)
    \/ SetExpiry(c)

LlmNext ==
    \/ \E c \in Calls : generateResponse(c) \/ CallStep(c) \/ enforceQuotaFails(c) \/ CallDies(c)
    \/ resetSessionQuota \/ SessionExpires \/ MonthEnds \/ MinuteEnds
    \/ FindUserKeys \/ DeleteUserKeys
    \/ invalidate \/ invalidateAll \/ pruneOldEntries \/ AnswerExpires \/ warmCache
    \/ \E l \in CustomLimits : setUserMonthlyQuota(l)

\* A request that is running goes on, and Redis expires keys; nobody has to
\* ask, reset or invalidate anything.
LlmFairness == WF_llmVars(SessionExpires) /\ \A c \in Calls : WF_llmVars(CallStep(c))

LlmSpec == LlmInit /\ [][LlmNext]_llmVars /\ LlmFairness

-----------------------------------------------------------------------------
(***************************************************************************)
(* Check and count are apart, so a quota can be overrun, but only by the   *)
(* requests that were under way when it filled up: one less than the       *)
(* number of concurrent requests.  This holds for the month (against the   *)
(* highest limit since its counter began, whatever resets and new limits   *)
(* fall between a request's reads; a limit of 0 counts as 1, because every *)
(* request may have read the limit before it), the session and every       *)
(* minute, although a request may be checked in one minute or month and    *)
(* counted in the next.                                                    *)
(***************************************************************************)
OverrunBounded ==
    LET more == Cardinality(Calls) - 1 IN
    /\ usage.month <= Higher(peak, 1) + more
    /\ usage.session <= SessionLimit + more
    /\ \A m \in 0..MaxMinute : usage.minute[m] <= MinuteLimit + more

(***************************************************************************)
(* A session whose quota is used up is admitted again: its counter expires *)
(* or is reset, unless the process that counted its first request died     *)
(* before it set the expiry.                                               *)
(***************************************************************************)
SessionReopens ==
    Reached(usage.session, SessionLimit) /\ ~orphaned ~> usage.session < SessionLimit \/ orphaned
=============================================================================
