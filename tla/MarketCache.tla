---------------------------- MODULE MarketCache ----------------------------
(***************************************************************************)
(* The market-data cache (Backend/src/market-data): cache-first readers of *)
(* snapshots, prices and news, and the events and endpoints that empty     *)
(* namespaces.  One key per namespace stands for all.  Keys are hashed, so *)
(* a pattern made of a plain name matches none of them.                    *)
(***************************************************************************)
EXTENDS Naturals, Absent

CONSTANTS
    Readers,      \* reading requests
    Cleaners      \* invalidations, by an event or by an endpoint

VARIABLES
    mcache,    \* Redis: is the entry outdated, and was its invalidation missed
    reader,    \* requests in progress, and whether what they hold is outdated
    cleaner    \* invalidations in progress

mcVars == <<mcache, reader, cleaner>>

Namespaces == {"snapshot", "price", "news"}
CacheEntry == [outdated : BOOLEAN, missed : BOOLEAN]

ASSUME MarketAssumption == None \notin Namespaces /\ None \notin CacheEntry

Resting == [pc |-> "idle", ns |-> None, outdated |-> FALSE]
Finished == [pc |-> "idle", ns |-> None]

McInit ==
    /\ mcache = [n \in Namespaces |-> None]
    /\ reader = [r \in Readers |-> Resting] /\ cleaner = [c \in Cleaners |-> Finished]

\* The look-up of a request.  A hit ends it; a miss, a request that
\* bypasses the cache and a failed read, which counts as a miss, go on.
CacheFirst(r, n) ==
    /\ reader[r].pc = "idle"
    /\ \/ mcache[n] # None /\ UNCHANGED reader
       \/ reader' = [reader EXCEPT ![r] = [Resting EXCEPT !.pc = "fetch", !.ns = n]]
    /\ UNCHANGED <<mcache, cleaner>>

getMarketSnapshot(r) == CacheFirst(r, "snapshot")
getAssetPrice(r) == CacheFirst(r, "price")
getNews(r) == CacheFirst(r, "news")
getArticleById(r) == CacheFirst(r, "news")

\* The source answers with the data it has now.
Fetched(r, ns) ==
    /\ reader[r].pc = "fetch" /\ reader[r].ns \in ns
    /\ reader' = [reader EXCEPT ![r].pc = "set"]
    /\ UNCHANGED <<mcache, cleaner>>

\* The source knows no such price or article: nothing is stored.
NotFound(r, ns) ==
    /\ reader[r].pc = "fetch" /\ reader[r].ns \in ns
    /\ reader' = [reader EXCEPT ![r] = Resting]
    /\ UNCHANGED <<mcache, cleaner>>

fetchMarketSnapshot(r) == Fetched(r, {"snapshot"})
fetchAssetPrice(r) == Fetched(r, {"price"}) \/ NotFound(r, {"price"})
fetchNews(r) == Fetched(r, {"news"})
fetchArticleById(r) == Fetched(r, {"news"}) \/ NotFound(r, {"news"})

Entry(r) == [outdated |-> reader[r].outdated, missed |-> reader[r].outdated]

\* A failed write is only logged.
SetCache(r) ==
    /\ reader[r].pc = "set"
    /\ \/ mcache' = [mcache EXCEPT ![reader[r].ns] = Entry(r)]
       \/ UNCHANGED mcache
    /\ reader' = [reader EXCEPT ![r] = Resting]
    /\ UNCHANGED cleaner

Expire(n) ==
    /\ mcache[n] # None
    /\ mcache' = [mcache EXCEPT ![n] = None]
    /\ UNCHANGED <<reader, cleaner>>

-----------------------------------------------------------------------------
\* The source's data changes: what is cached or fetched is outdated.
Changes(ns) ==
    /\ mcache' = [n \in Namespaces |-> IF n \in ns /\ mcache[n] # None
                                       THEN [mcache[n] EXCEPT !.outdated = TRUE] ELSE mcache[n]]
    /\ reader' = [r \in Readers |->
                    IF reader[r].pc = "set" /\ reader[r].ns \in ns
                    THEN [reader[r] EXCEPT !.outdated = TRUE] ELSE reader[r]]

Cleans(c, n) == cleaner[c].pc = "idle" /\ cleaner' = [cleaner EXCEPT ![c] = [pc |-> "list", ns |-> n]]

\* triggerAssetUpdate and handleAssetUpdate: invalidateByPattern of the
\* asset's price, which matches no hashed key, then the snapshots.
handleAssetUpdate(c) ==
    /\ Changes({"snapshot", "price"})
    /\ Cleans(c, "snapshot")

\* Faulty: the event has no handler.
handleNewsPublishedNot(c) ==
    /\ Changes({"news"}) /\ cleaner[c].pc = "idle"
    /\ UNCHANGED cleaner

handleNewsPublished(c) ==
    /\ Changes({"news"})
    /\ Cleans(c, "news")

\* handleManualInvalidation and invalidateCache, with a namespace.
InvalidateManually(c, n) ==
    /\ Cleans(c, n)
    /\ UNCHANGED <<mcache, reader>>

\* With an asset or a category (no endpoint passes one) it is a pattern,
\* which matches no key.
invalidateMarketCache(c) == InvalidateManually(c, "snapshot")
invalidateNewsCache(c) == InvalidateManually(c, "news")

\* invalidateCache with keys: in the snapshot namespace only, one DEL.
InvalidateKeys ==
    /\ mcache' = [mcache EXCEPT !["snapshot"] = None]
    /\ UNCHANGED <<reader, cleaner>>

\* invalidateNamespace: KEYS, then DEL of the keys found.
ListKeys(c) ==
    /\ cleaner[c].pc = "list"
    /\ cleaner' = [cleaner EXCEPT ![c] = IF mcache[@.ns] = None THEN Finished
                                         ELSE [@ EXCEPT !.pc = "delete"]]
    /\ UNCHANGED <<mcache, reader>>

DeleteKeys(c) ==
    /\ cleaner[c].pc = "delete"
    /\ mcache' = [mcache EXCEPT ![cleaner[c].ns] = None]
    /\ cleaner' = [cleaner EXCEPT ![c] = Finished]
    /\ UNCHANGED reader

Missed(e) == IF e = None THEN None ELSE [e EXCEPT !.missed = e.missed \/ e.outdated]

\* Redis fails: logged, and whatever is cached stays until it expires.
InvalidationFails(c) ==
    /\ cleaner[c].pc # "idle"
    /\ cleaner' = [cleaner EXCEPT ![c] = Finished]
    /\ mcache' = [mcache EXCEPT ![cleaner[c].ns] = Missed(@)]
    /\ UNCHANGED reader

McNext ==
    \/ \E r \in Readers : \/ getMarketSnapshot(r) \/ getAssetPrice(r) \/ getNews(r) \/ getArticleById(r)
                          \/ fetchMarketSnapshot(r) \/ fetchAssetPrice(r)
                          \/ fetchNews(r) \/ fetchArticleById(r)
                          \/ SetCache(r)
    \/ \E c \in Cleaners : \/ handleAssetUpdate(c) \/ handleNewsPublished(c)
                           \/ invalidateMarketCache(c) \/ invalidateNewsCache(c)
                           \/ \E n \in Namespaces : InvalidateManually(c, n)
                           \/ ListKeys(c) \/ DeleteKeys(c) \/ InvalidationFails(c)
    \/ InvalidateKeys
    \/ \E n \in Namespaces : Expire(n)

McSpec == McInit /\ [][McNext]_mcVars

-----------------------------------------------------------------------------
Stale(n) == mcache[n] # None /\ mcache[n].outdated

(***************************************************************************)
(* After a change, an outdated snapshot or news page is served only while  *)
(* its invalidation is still under way, or if the invalidation failed, or  *)
(* if a request fetched before the change and stored after it.  (Prices    *)
(* have no such guarantee: their invalidation matches no key.)             *)
(***************************************************************************)
StaleNeedsARace ==
    \A n \in {"snapshot", "news"} :
        Stale(n) => mcache[n].missed \/ \E c \in Cleaners : cleaner[c].ns = n
=============================================================================
