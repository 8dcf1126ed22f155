--------------------------- MODULE ServicesProofs ---------------------------
(***************************************************************************)
(* Proofs about four services of the backend: the audit log, the           *)
(* market-data cache, the access to the language model and the voice       *)
(* sessions, for any number of concurrent requests and any limits.         *)
(***************************************************************************)
EXTENDS AuditChain, MarketCache, LlmAccess, VoiceSession, FiniteSetTheorems, SequenceTheorems,
        TLAPS

(***************************************************************************)
(* The audit log: what the archiver has in hand is still in the log, and   *)
(* after the copy also in the archive.                                     *)
(***************************************************************************)
Unique(rows) == \A a, b \in rows : a.id = b.id => a = b

InHand ==
    /\ arch.pc # "idle" => arch.rows \subseteq logs
    /\ arch.pc = "delete" => arch.rows \subseteq archive

AuInv == NothingLost /\ InHand

(***************************************************************************)
(* A row keeps the id it is given, whatever it is hashed and signed with.  *)
(***************************************************************************)
LEMMA RowId == \A i, t, b, p : Row(i, t, b, p).id = i
  BY DEF Row, Signed, Hashed

(***************************************************************************)
(* The migration stores every old row, under its id.                       *)
(***************************************************************************)
LEMMA UpKeeps ==
    ASSUME NEW rows \in Legacy
    PROVE  IdsOf(Up(rows)) = {r.id : r \in rows} /\ Unique(Up(rows))
<1>1. PICK prev : Up(rows) = {Row(r.id, r.ts, r.body, prev[r]) : r \in rows}
  BY DEF Up
<1>2. IdsOf(Up(rows)) = {r.id : r \in rows}
  BY <1>1, RowId DEF IdsOf
<1>3. Unique(Up(rows))
  <2> SUFFICES ASSUME NEW r \in rows, NEW s \in rows,
                      Row(r.id, r.ts, r.body, prev[r]).id = Row(s.id, s.ts, s.body, prev[s]).id
               PROVE  r = s
    BY <1>1 DEF Unique
  <2>1. r.id = s.id
    BY RowId
  <2> QED
    BY <2>1, LegacyAssumption
<1> QED
  BY <1>2, <1>3

(***************************************************************************)
(* The invariant of the audit log survives every step.                     *)
(***************************************************************************)
LEMMA AuditStep ==
    ASSUME AuInv, [AuNext]_auVars
    PROVE  AuInv'
<1>1. saved = IdsOf(logs) \cup IdsOf(archive) /\ Unique(logs) /\ Unique(archive) /\ InHand
  BY DEF AuInv, NothingLost, Unique
<1>2. SUFFICES saved' = IdsOf(logs') \cup IdsOf(archive') /\ Unique(logs') /\ Unique(archive') /\ InHand'
  BY DEF AuInv, NothingLost, Unique, IdsOf
<1>3. CASE UNCHANGED <<logs, archive, arch, saved>>
  BY <1>1, <1>3 DEF InHand
<1>4. ASSUME NEW c \in Loggers, SaveEntry(c)
      PROVE  saved' = IdsOf(logs') \cup IdsOf(archive') /\ Unique(logs') /\ Unique(archive') /\ InHand'
  <2>1. PICK id, ts, prev : /\ id \in Ids \ saved
                            /\ logs' = logs \cup {Row(id, ts, c, prev)}
                            /\ saved' = saved \cup {id}
    BY <1>4 DEF SaveEntry
  <2> DEFINE w == Row(id, ts, c, prev)
  <2>2. w.id = id /\ logs' = logs \cup {w}
    BY <2>1, RowId
  <2>3. archive' = archive /\ arch' = arch
    BY <1>4 DEF SaveEntry
  <2> HIDE DEF w
  <2>4. IdsOf(logs') = IdsOf(logs) \cup {id}
    BY <2>2 DEF IdsOf
  <2>5. \A e \in logs : e.id # id
    BY <1>1, <2>1 DEF IdsOf
  <2>6. Unique(logs')
    BY <1>1, <2>2, <2>5 DEF Unique
  <2> QED
    BY <1>1, <2>1, <2>2, <2>3, <2>4, <2>6 DEF InHand
<1>5. CASE SelectOld
  <2>1. UNCHANGED <<logs, archive, saved>> /\ arch'.pc = "copy" /\ arch'.rows \subseteq logs
    BY <1>5 DEF SelectOld
  <2> QED
    BY <1>1, <2>1 DEF InHand
<1>6. CASE CopyOld
  <2>1. /\ archive' = Without(archive, IdsOf(arch.rows)) \cup arch.rows
        /\ arch.pc = "copy" /\ UNCHANGED <<logs, saved>> /\ arch.rows \subseteq logs
    BY <1>1, <1>6 DEF CopyOld, InHand
  <2>2. arch' = [arch EXCEPT !.pc = "delete"]
    BY <1>6 DEF CopyOld
  <2>3. arch'.rows = arch.rows
    BY <2>2
  <2>4. IdsOf(archive') = IdsOf(archive) \cup IdsOf(arch.rows)
    BY <2>1 DEF IdsOf, Without
  <2>5. IdsOf(arch.rows) \subseteq IdsOf(logs)
    BY <2>1 DEF IdsOf
  <2>6. Unique(archive')
    BY <1>1, <2>1 DEF Unique, Without, IdsOf
  <2> QED
    BY <1>1, <2>1, <2>3, <2>4, <2>5, <2>6 DEF InHand
<1>7. CASE DeleteOld
  <2>1. /\ logs' = Without(logs, IdsOf(arch.rows)) /\ arch' = Idle
        /\ UNCHANGED <<archive, saved>> /\ arch.rows \subseteq archive
    BY <1>1, <1>7 DEF DeleteOld, InHand
  <2>2. IdsOf(arch.rows) \subseteq IdsOf(archive)
    BY <2>1 DEF IdsOf
  <2>3. IdsOf(logs) \cup IdsOf(archive) = IdsOf(logs') \cup IdsOf(archive)
    BY <2>1, <2>2 DEF IdsOf, Without
  <2>4. Unique(logs')
    BY <1>1, <2>1 DEF Unique, Without
  <2>5. arch'.pc = "idle"
    BY <2>1 DEF Idle
  <2> QED
    BY <1>1, <2>1, <2>3, <2>4, <2>5 DEF InHand
<1>8. CASE ArchiverDies
  <2>1. UNCHANGED <<logs, archive, saved>> /\ arch'.pc = "idle"
    BY <1>8 DEF ArchiverDies, Idle
  <2> QED
    BY <1>1, <2>1 DEF InHand
<1>9. CASE \E c \in Loggers : logAction(c) \/ LatestLog(c) \/ LatestArchive(c)
  BY <1>3, <1>9 DEF logAction, LatestLog, LatestArchive
<1>10. CASE AuTick \/ UNCHANGED auVars
  BY <1>3, <1>10 DEF AuTick, auVars
<1> QED
  BY <1>4, <1>5, <1>6, <1>7, <1>8, <1>9, <1>10 DEF AuNext, Archiver

(***************************************************************************)
(* No audit row is lost (NothingLost), whatever overlaps the archiver and  *)
(* wherever between select, copy and delete it dies, for any tables to     *)
(* start from, any number of calls and any retention.                      *)
(***************************************************************************)
THEOREM AuditRowsAreKept == AuSpec => []NothingLost
<1>1. AuInit => AuInv
  <2> SUFFICES ASSUME AuInit PROVE AuInv
    OBVIOUS
  <2>1. PICK rows \in Legacy : logs = Up(rows) /\ saved = {r.id : r \in rows}
    BY DEF AuInit
  <2>2. archive = {} /\ arch.pc = "idle"
    BY DEF AuInit, Idle
  <2>3. IdsOf(archive) = {} /\ Unique(archive)
    BY <2>2 DEF IdsOf, Unique
  <2> QED
    BY <2>1, <2>2, <2>3, UpKeeps DEF AuInv, NothingLost, InHand, Unique
<1>2. AuInv /\ [AuNext]_auVars => AuInv'
  BY AuditStep
<1>3. AuInv => NothingLost
  BY DEF AuInv
<1> QED
  BY <1>1, <1>2, <1>3, PTL DEF AuSpec

(***************************************************************************)
(* The market-data cache.  A request or an invalidation under way is for a *)
(* namespace, and one at rest is for none.                                 *)
(***************************************************************************)
ReaderState == {Resting} \cup [pc : {"fetch", "set"}, ns : Namespaces, outdated : BOOLEAN]
CleanerState == {Finished} \cup [pc : {"list", "delete"}, ns : Namespaces]

McTyped ==
    /\ mcache \in [Namespaces -> CacheEntry \cup {None}]
    /\ reader \in [Readers -> ReaderState]
    /\ cleaner \in [Cleaners -> CleanerState]

LEMMA McReads ==
    ASSUME McTyped,
           NEW r \in Readers,
           \/ getMarketSnapshot(r) \/ getAssetPrice(r) \/ getNews(r) \/ getArticleById(r)
           \/ fetchMarketSnapshot(r) \/ fetchAssetPrice(r) \/ fetchNews(r) \/ fetchArticleById(r)
    PROVE  reader' \in [Readers -> ReaderState] /\ UNCHANGED <<mcache, cleaner>>
<1>1. ASSUME NEW n \in Namespaces, CacheFirst(r, n)
      PROVE  reader' \in [Readers -> ReaderState] /\ UNCHANGED <<mcache, cleaner>>
  <2>1. [Resting EXCEPT !.pc = "fetch", !.ns = n] \in ReaderState
    BY DEF Resting, ReaderState
  <2> QED
    BY <1>1, <2>1 DEF CacheFirst, McTyped
<1>2. ASSUME NEW ns, Fetched(r, ns)
      PROVE  reader' \in [Readers -> ReaderState] /\ UNCHANGED <<mcache, cleaner>>
  <2>1. reader[r] \in ReaderState /\ reader[r].pc = "fetch"
    BY <1>2 DEF Fetched, McTyped
  <2>2. [reader[r] EXCEPT !.pc = "set"] \in ReaderState
    BY <2>1 DEF Resting, ReaderState
  <2> QED
    BY <1>2, <2>2 DEF Fetched, McTyped
<1>3. ASSUME NEW ns, NotFound(r, ns)
      PROVE  reader' \in [Readers -> ReaderState] /\ UNCHANGED <<mcache, cleaner>>
  BY <1>3 DEF NotFound, McTyped, ReaderState
<1>4. {"snapshot", "price", "news"} = Namespaces
  BY DEF Namespaces
<1> QED
  BY <1>1, <1>2, <1>3, <1>4 DEF getMarketSnapshot, getAssetPrice, getNews, getArticleById,
     fetchMarketSnapshot, fetchAssetPrice, fetchNews, fetchArticleById

(***************************************************************************)
(* A write, an expiry, a change at the source.                             *)
(***************************************************************************)
LEMMA McSets ==
    ASSUME McTyped, NEW r \in Readers, SetCache(r)
    PROVE  /\ McTyped' /\ cleaner' = cleaner
           /\ \A n \in Namespaces : mcache'[n] = mcache[n] \/ mcache'[n].missed = mcache'[n].outdated
<1>1. reader[r] \in ReaderState /\ reader[r].pc = "set"
  BY DEF SetCache, McTyped
<1>2. reader[r].ns \in Namespaces /\ reader[r].outdated \in BOOLEAN
  BY <1>1 DEF ReaderState, Resting
<1>3. Entry(r) \in CacheEntry /\ Entry(r).missed = Entry(r).outdated
  BY <1>2 DEF Entry, CacheEntry
<1>4. reader' \in [Readers -> ReaderState] /\ cleaner' = cleaner
  BY DEF SetCache, McTyped, ReaderState
<1>5. mcache' = [mcache EXCEPT ![reader[r].ns] = Entry(r)] \/ mcache' = mcache
  BY DEF SetCache
<1> HIDE DEF Entry
<1> QED
  BY <1>2, <1>3, <1>4, <1>5 DEF McTyped

LEMMA McChanges ==
    ASSUME McTyped, NEW ns, Changes(ns)
    PROVE  /\ mcache' \in [Namespaces -> CacheEntry \cup {None}]
           /\ reader' \in [Readers -> ReaderState]
           /\ \A n \in Namespaces \ ns : mcache'[n] = mcache[n]
<1>1. ASSUME NEW n \in Namespaces, mcache[n] # None
      PROVE  [mcache[n] EXCEPT !.outdated = TRUE] \in CacheEntry
  BY <1>1 DEF McTyped, CacheEntry
<1>2. ASSUME NEW r \in Readers, reader[r].pc = "set"
      PROVE  [reader[r] EXCEPT !.outdated = TRUE] \in ReaderState
  <2>1. reader[r] \in ReaderState
    BY DEF McTyped
  <2>2. reader[r] \in [pc : {"fetch", "set"}, ns : Namespaces, outdated : BOOLEAN]
    BY <1>2, <2>1 DEF ReaderState, Resting
  <2>3. [reader[r] EXCEPT !.outdated = TRUE] \in [pc : {"fetch", "set"}, ns : Namespaces, outdated : BOOLEAN]
    BY <2>2
  <2> QED
    BY <2>3 DEF ReaderState
<1>3. mcache' \in [Namespaces -> CacheEntry \cup {None}]
  BY <1>1 DEF Changes, McTyped
<1>4. reader' \in [Readers -> ReaderState]
  BY <1>2 DEF Changes, McTyped
<1> QED
  BY <1>3, <1>4 DEF Changes

(***************************************************************************)
(* An invalidation that begins is for its namespace; it was for none.      *)
(***************************************************************************)
LEMMA McCleans ==
    ASSUME McTyped, NEW c \in Cleaners, NEW n \in Namespaces, Cleans(c, n)
    PROVE  /\ cleaner' \in [Cleaners -> CleanerState] /\ cleaner'[c].ns = n
           /\ \A m \in Namespaces : (\E d \in Cleaners : cleaner[d].ns = m) => \E d \in Cleaners : cleaner'[d].ns = m
<1>1. cleaner[c] \in CleanerState /\ cleaner[c].pc = "idle"
  BY DEF Cleans, McTyped
<1>2. cleaner[c].ns \notin Namespaces
  BY <1>1, MarketAssumption DEF CleanerState, Finished
<1>3. [pc |-> "list", ns |-> n] \in CleanerState
  BY DEF CleanerState
<1>4. cleaner' = [cleaner EXCEPT ![c] = [pc |-> "list", ns |-> n]] /\ cleaner \in [Cleaners -> CleanerState]
  BY DEF Cleans, McTyped
<1>5. \A d \in Cleaners : cleaner'[d] = IF d = c THEN [pc |-> "list", ns |-> n] ELSE cleaner[d]
  BY <1>4
<1>6. cleaner'[c].ns = n
  BY <1>5
<1>7. ASSUME NEW m \in Namespaces, NEW d \in Cleaners, cleaner[d].ns = m
      PROVE  cleaner'[d].ns = m
  BY <1>2, <1>5, <1>7
<1> QED
  BY <1>3, <1>4, <1>6, <1>7

(***************************************************************************)
(* An invalidation that ends, or goes on from its list to its delete, is   *)
(* for the namespace it was for, or for none.                              *)
(***************************************************************************)
LEMMA McCleaned ==
    ASSUME McTyped, NEW c \in Cleaners, ListKeys(c) \/ DeleteKeys(c) \/ InvalidationFails(c)
    PROVE  /\ McTyped'
           /\ \A n \in Namespaces : n # cleaner[c].ns =>
                /\ mcache'[n] = mcache[n]
                /\ (\E d \in Cleaners : cleaner[d].ns = n) => \E d \in Cleaners : cleaner'[d].ns = n
           /\ LET n == cleaner[c].ns IN
              \/ mcache'[n] = None
              \/ mcache'[n] = mcache[n] /\ cleaner'[c].ns = n
              \/ mcache'[n].outdated => mcache'[n].missed
<1> DEFINE k == cleaner[c].ns
<1>1. cleaner[c] \in [pc : {"list", "delete"}, ns : Namespaces]
  <2>1. cleaner[c] \in CleanerState /\ cleaner[c].pc # "idle"
    BY DEF ListKeys, DeleteKeys, InvalidationFails, McTyped
  <2> QED
    BY <2>1 DEF CleanerState, Finished
<1>2. k \in Namespaces /\ Finished \in CleanerState /\ [cleaner[c] EXCEPT !.pc = "delete"] \in CleanerState
  BY <1>1 DEF CleanerState
<1>3. [cleaner[c] EXCEPT !.pc = "delete"].ns = k
  BY <1>1
<1>4. PICK e \in {Finished, [cleaner[c] EXCEPT !.pc = "delete"]} : cleaner' = [cleaner EXCEPT ![c] = e]
  BY DEF ListKeys, DeleteKeys, InvalidationFails
<1>5. cleaner' \in [Cleaners -> CleanerState] /\ \A d \in Cleaners : d # c => cleaner'[d] = cleaner[d]
  BY <1>2, <1>4 DEF McTyped
<1>6. ASSUME NEW n \in Namespaces, n # k, NEW d \in Cleaners, cleaner[d].ns = n
      PROVE  cleaner'[d].ns = n
  BY <1>5, <1>6
<1>7. CASE ListKeys(c)
  <2>1. mcache' = mcache /\ reader' = reader
    BY <1>7 DEF ListKeys
  <2>2. mcache[k] = None \/ cleaner' = [cleaner EXCEPT ![c] = [@ EXCEPT !.pc = "delete"]]
    BY <1>7 DEF ListKeys, McTyped
  <2>3. mcache[k] = None \/ cleaner'[c].ns = k
    BY <1>3, <2>2 DEF McTyped
  <2> QED
    BY <1>5, <1>6, <2>1, <2>3 DEF McTyped
<1>8. CASE DeleteKeys(c)
  <2>1. mcache' = [mcache EXCEPT ![k] = None] /\ reader' = reader
    BY <1>8 DEF DeleteKeys
  <2> QED
    BY <1>2, <1>5, <1>6, <2>1 DEF McTyped
<1>9. CASE InvalidationFails(c)
  <2>1. mcache' = [mcache EXCEPT ![k] = Missed(mcache[k])] /\ reader' = reader
    BY <1>9, <1>2 DEF InvalidationFails, McTyped
  <2>2. mcache[k] \in CacheEntry \cup {None}
    BY <1>2 DEF McTyped
  <2>3. \A e2 \in CacheEntry \cup {None} :
          /\ Missed(e2) \in CacheEntry \cup {None}
          /\ Missed(e2) = None \/ (Missed(e2).outdated => Missed(e2).missed)
    BY MarketAssumption DEF CacheEntry, Missed
  <2>4. /\ mcache' \in [Namespaces -> CacheEntry \cup {None}]
        /\ mcache'[k] = Missed(mcache[k])
        /\ \A n \in Namespaces : n # k => mcache'[n] = mcache[n]
    BY <1>2, <2>1, <2>2, <2>3 DEF McTyped
  <2>5. mcache'[k] = None \/ (mcache'[k].outdated => mcache'[k].missed)
    BY <2>2, <2>3, <2>4
  <2> QED
    BY <1>5, <1>6, <2>1, <2>4, <2>5 DEF McTyped
<1> QED
  BY <1>7, <1>8, <1>9

(***************************************************************************)
(* The invariant of the cache survives every step.                         *)
(***************************************************************************)
McInv == McTyped /\ StaleNeedsARace

LEMMA McStep ==
    ASSUME McInv, [McNext]_mcVars
    PROVE  McInv'
<1> DEFINE Named == {"snapshot", "news"}
           Fine(n) == (mcache[n] # None /\ mcache[n].outdated) =>
                          (mcache[n].missed \/ \E c \in Cleaners : cleaner[c].ns = n)
<1>1. McTyped /\ \A n \in Named : Fine(n)
  BY DEF McInv, StaleNeedsARace, Stale
<1>2. (McTyped /\ \A n \in Named : Fine(n))' => McInv'
  BY DEF McInv, StaleNeedsARace, Stale
<1>3. SUFFICES McTyped' /\ \A n \in Named : Fine(n)'
  BY <1>2
<1>4. Named \subseteq Namespaces /\ "snapshot" \in Namespaces /\ "news" \in Namespaces
  BY DEF Namespaces
<1>5. CASE UNCHANGED <<mcache, cleaner>> /\ reader' \in [Readers -> ReaderState]
  BY <1>1, <1>5 DEF McTyped
<1>6. CASE UNCHANGED mcVars
  BY <1>1, <1>5, <1>6 DEF McTyped, mcVars
<1>7. ASSUME NEW r \in Readers, SetCache(r)
      PROVE  McTyped' /\ \A n \in Named : Fine(n)'
  BY <1>1, <1>4, <1>7, McSets
<1>8. ASSUME NEW n \in Namespaces, mcache' = [mcache EXCEPT ![n] = None], UNCHANGED <<reader, cleaner>>
      PROVE  McTyped' /\ \A m \in Named : Fine(m)'
  BY <1>1, <1>4, <1>8 DEF McTyped
<1>9. ASSUME NEW c \in Cleaners, NEW n \in Namespaces, NEW ns, Changes(ns), Cleans(c, n), ns \cap Named = {n}
      PROVE  McTyped' /\ \A m \in Named : Fine(m)'
  <2>1. McTyped'
    BY <1>1, <1>9, McChanges, McCleans DEF McTyped
  <2>2. cleaner'[c].ns = n
    BY <1>1, <1>9, McCleans
  <2>3. ASSUME NEW m \in Named, m # n PROVE Fine(m)'
    <3>1. mcache'[m] = mcache[m]
      BY <1>1, <1>4, <1>9, <2>3, McChanges
    <3>2. (\E d \in Cleaners : cleaner[d].ns = m) => \E d \in Cleaners : cleaner'[d].ns = m
      BY <1>1, <1>4, <1>9, McCleans
    <3> QED
      BY <1>1, <3>1, <3>2
  <2> QED
    BY <2>1, <2>2, <2>3
<1>10. ASSUME NEW c \in Cleaners, NEW n \in Namespaces, InvalidateManually(c, n)
       PROVE  McTyped' /\ \A m \in Named : Fine(m)'
  <2>1. Cleans(c, n) /\ UNCHANGED <<mcache, reader>>
    BY <1>10 DEF InvalidateManually
  <2>2. McTyped'
    BY <1>1, <2>1, McCleans DEF McTyped
  <2>3. \A m \in Namespaces : (\E d \in Cleaners : cleaner[d].ns = m) => \E d \in Cleaners : cleaner'[d].ns = m
    BY <1>1, <2>1, McCleans
  <2> QED
    BY <1>1, <1>4, <2>1, <2>2, <2>3
<1>11. ASSUME NEW c \in Cleaners, ListKeys(c) \/ DeleteKeys(c) \/ InvalidationFails(c)
       PROVE  McTyped' /\ \A m \in Named : Fine(m)'
  <2>1. McTyped'
    BY <1>1, <1>11, McCleaned
  <2>2. ASSUME NEW m \in Named PROVE Fine(m)'
    <3>1. CASE m = cleaner[c].ns
      BY <1>1, <1>11, <3>1, McCleaned
    <3>2. CASE m # cleaner[c].ns
      BY <1>1, <1>4, <1>11, <3>2, McCleaned
    <3> QED
      BY <3>1, <3>2
  <2> QED
    BY <2>1, <2>2
<1>12. CASE \E r \in Readers : \/ getMarketSnapshot(r) \/ getAssetPrice(r) \/ getNews(r) \/ getArticleById(r)
                               \/ fetchMarketSnapshot(r) \/ fetchAssetPrice(r) \/ fetchNews(r) \/ fetchArticleById(r)
  BY <1>1, <1>5, <1>12, McReads
<1>13. CASE \E c \in Cleaners : handleAssetUpdate(c) \/ handleNewsPublished(c)
  BY <1>4, <1>9, <1>13 DEF handleAssetUpdate, handleNewsPublished
<1>14. CASE \E c \in Cleaners : invalidateMarketCache(c) \/ invalidateNewsCache(c)
  BY <1>4, <1>10, <1>14 DEF invalidateMarketCache, invalidateNewsCache
<1>15. CASE InvalidateKeys \/ \E n \in Namespaces : Expire(n)
  BY <1>4, <1>8, <1>15 DEF InvalidateKeys, Expire
<1> HIDE DEF Fine, Named
<1> QED
  BY <1>6, <1>7, <1>10, <1>11, <1>12, <1>13, <1>14, <1>15 DEF McNext

(***************************************************************************)
(* An outdated snapshot or news page needs an invalidation under way, one  *)
(* that failed, or a request that raced it (StaleNeedsARace), for any      *)
(* number of requests and invalidations.                                   *)
(***************************************************************************)
THEOREM StaleEntriesNeedARace == McSpec => []StaleNeedsARace
<1>1. McInit => McInv
  BY DEF McInit, McInv, McTyped, StaleNeedsARace, Stale, ReaderState, CleanerState, Namespaces
<1>2. McInv /\ [McNext]_mcVars => McInv'
  BY McStep
<1>3. McInv => StaleNeedsARace
  BY DEF McInv
<1> QED
  BY <1>1, <1>2, <1>3, PTL DEF McSpec

(***************************************************************************)
(* The access to the language model.  Who may still count against a quota: *)
(* the requests past its check, and those that will be let past it by what *)
(* they read before: a month that is over, a limit that was higher, a      *)
(* minute that is over.                                                    *)
(***************************************************************************)
Asked == {"cache", "ask", "ask and store", "store", "record"}
Checking == {"limit", "month", "session", "minute"}

CallState == [pc : {"idle", "expire"} \cup Checking \cup Asked,
              minute : 0..MaxMinute, limit : Nat, old : BOOLEAN]

InMonth(e, p) ==
    \/ e.pc \in {"session", "minute"} \cup Asked
    \/ e.pc \in {"limit", "month"} /\ e.old
    \/ e.pc = "month" /\ e.limit > p
InSession(e) == e.pc \in {"minute"} \cup Asked
InMinute(e, m) ==
    \/ e.pc \in Asked
    \/ MinuteLimit > 0 /\ e.pc \in Checking /\ e.minute < m

MonthSet == {c \in Calls : InMonth(call[c], peak)}
SessionSet == {c \in Calls : InSession(call[c])}
MinuteSet == {c \in Calls : InMinute(call[c], minute)}

LlmTyped ==
    /\ usage \in [month : Nat, session : Nat, minute : [0..MaxMinute -> Nat]]
    /\ custom \in CustomLimits \cup {None} /\ peak \in Nat /\ InForce(custom) <= peak
    /\ minute \in 0..MaxMinute
    /\ call \in [Calls -> CallState]
    /\ \A c \in Calls : call[c].minute <= minute

\* A counter at n, against limit l, with the requests in S still to count.
Bound(n, S, l) == n + Cardinality(S) <= l + Cardinality(Calls) - 1

LlmInv ==
    /\ LlmTyped
    /\ Bound(usage.month, MonthSet, Higher(peak, 1))
    /\ Bound(usage.session, SessionSet, SessionLimit)
    /\ Bound(usage.minute[minute], MinuteSet, MinuteLimit)
    /\ \A m \in 0..MaxMinute : /\ usage.minute[m] <= MinuteLimit + Cardinality(Calls) - 1
                               /\ m > minute => usage.minute[m] = 0

(***************************************************************************)
(* Counting: fewer requests still to count, a lower counter or a higher    *)
(* limit keep the bound; so does a request that counts and is done; and    *)
(* below the limit there is room for all of them.                          *)
(***************************************************************************)
LEMMA Sizes ==
    ASSUME NEW S \in SUBSET Calls
    PROVE  /\ IsFiniteSet(S) /\ Cardinality(S) \in Nat /\ Cardinality(Calls) \in Nat
           /\ Cardinality(S) <= Cardinality(Calls) /\ Cardinality(Calls) > 0
  BY LlmAssumption, FS_Subset, FS_CardinalityType, FS_EmptySet

LEMMA Shrinks ==
    ASSUME NEW n \in Nat, NEW n2 \in Nat, n2 <= n, NEW l \in Nat, NEW l2 \in Nat, l <= l2,
           NEW S \in SUBSET Calls, NEW T \in SUBSET S, Bound(n, S, l)
    PROVE  Bound(n2, T, l2)
<1>1. Cardinality(T) <= Cardinality(S)
  BY Sizes, FS_Subset
<1>2. Cardinality(T) \in Nat /\ Cardinality(S) \in Nat /\ Cardinality(Calls) \in Nat
  BY Sizes
<1> QED
  BY <1>1, <1>2 DEF Bound

LEMMA Counts ==
    ASSUME NEW n \in Nat, NEW n2 \in Nat, n2 <= n + 1, NEW l \in Nat,
           NEW S \in SUBSET Calls, NEW c \in S, NEW T \in SUBSET (S \ {c}), Bound(n, S, l)
    PROVE  Bound(n2, T, l)
<1>1. Cardinality(S \ {c}) = Cardinality(S) - 1
  BY Sizes, FS_RemoveElement
<1>2. Cardinality(T) <= Cardinality(S \ {c})
  <2>1. IsFiniteSet(S \ {c})
    BY Sizes
  <2> QED
    BY <2>1, FS_Subset
<1>3. Cardinality(T) \in Nat /\ Cardinality(S) \in Nat /\ Cardinality(Calls) \in Nat
  BY Sizes
<1> QED
  BY <1>1, <1>2, <1>3 DEF Bound

LEMMA Enters ==
    ASSUME NEW n \in Nat, NEW l \in Nat, n < l, NEW T \in SUBSET Calls
    PROVE  Bound(n, T, l)
<1>1. /\ Cardinality(T) \in Nat /\ Cardinality(Calls) \in Nat
      /\ Cardinality(T) <= Cardinality(Calls)
  BY Sizes
<1> QED
  BY <1>1 DEF Bound

(***************************************************************************)
(* One request moves and becomes e: nobody but it can come to any of the   *)
(* three sets.                                                             *)
(***************************************************************************)
LEMMA CallMoves ==
    ASSUME LlmTyped, NEW c \in Calls, NEW e \in CallState, e.minute <= minute,
           call' = [call EXCEPT ![c] = e], UNCHANGED <<minute, peak>>
    PROVE  /\ call' \in [Calls -> CallState] /\ \A d \in Calls : call'[d].minute <= minute'
           /\ (InMonth(e, peak) => InMonth(call[c], peak)) => MonthSet' \subseteq MonthSet
           /\ (InSession(e) => InSession(call[c])) => SessionSet' \subseteq SessionSet
           /\ (InMinute(e, minute) => InMinute(call[c], minute)) => MinuteSet' \subseteq MinuteSet
           /\ ~InMonth(e, peak) => c \notin MonthSet'
           /\ ~InSession(e) => c \notin SessionSet'
           /\ ~InMinute(e, minute) => c \notin MinuteSet'
<1>1. call' \in [Calls -> CallState] /\ \A d \in Calls : call'[d] = IF d = c THEN e ELSE call[d]
  BY DEF LlmTyped
<1>2. \A d \in Calls : call'[d].minute <= minute'
  BY <1>1 DEF LlmTyped
<1>3. MonthSet' = {d \in Calls : InMonth(call'[d], peak)}
  BY DEF MonthSet, InMonth
<1>4. SessionSet' = {d \in Calls : InSession(call'[d])}
  BY DEF SessionSet, InSession
<1>5. MinuteSet' = {d \in Calls : InMinute(call'[d], minute)}
  BY DEF MinuteSet, InMinute
<1> HIDE DEF InMonth, InSession, InMinute
<1> QED
  BY <1>1, <1>2, <1>3, <1>4, <1>5 DEF MonthSet, SessionSet, MinuteSet

(***************************************************************************)
(* So a request may become e if it was in the sets that e is in, or if the *)
(* counter is below its limit.                                             *)
(***************************************************************************)
LEMMA Walks ==
    ASSUME LlmInv, NEW c \in Calls, NEW e \in CallState, e.minute <= minute,
           call' = [call EXCEPT ![c] = e], UNCHANGED <<usage, custom, minute, peak>>,
           InMonth(e, peak) => InMonth(call[c], peak) \/ usage.month < Higher(peak, 1),
           InSession(e) => InSession(call[c]) \/ usage.session < SessionLimit,
           InMinute(e, minute) => InMinute(call[c], minute) \/ usage.minute[minute] < MinuteLimit
    PROVE  LlmInv'
<1>1. LlmTyped /\ MonthSet' \subseteq Calls /\ SessionSet' \subseteq Calls /\ MinuteSet' \subseteq Calls
  BY DEF LlmInv, MonthSet, SessionSet, MinuteSet
<1>2. /\ usage.month \in Nat /\ usage.session \in Nat /\ usage.minute[minute] \in Nat
      /\ Higher(peak, 1) \in Nat /\ SessionLimit \in Nat /\ MinuteLimit \in Nat
  BY <1>1, LlmAssumption DEF LlmTyped, Higher
<1>3. MonthSet \in SUBSET Calls /\ SessionSet \in SUBSET Calls /\ MinuteSet \in SUBSET Calls
  BY DEF MonthSet, SessionSet, MinuteSet
<1>4. Bound(usage.month, MonthSet', Higher(peak, 1))
  <2>1. CASE usage.month < Higher(peak, 1)
    BY <1>1, <1>2, <2>1, Enters
  <2>2. CASE MonthSet' \subseteq MonthSet
    BY <1>2, <1>3, <2>2, Shrinks DEF LlmInv
  <2> QED
    BY <1>1, <2>1, <2>2, CallMoves
<1>5. Bound(usage.session, SessionSet', SessionLimit)
  <2>1. CASE usage.session < SessionLimit
    BY <1>1, <1>2, <2>1, Enters
  <2>2. CASE SessionSet' \subseteq SessionSet
    BY <1>2, <1>3, <2>2, Shrinks DEF LlmInv
  <2> QED
    BY <1>1, <2>1, <2>2, CallMoves
<1>6. Bound(usage.minute[minute], MinuteSet', MinuteLimit)
  <2>1. CASE usage.minute[minute] < MinuteLimit
    BY <1>1, <1>2, <2>1, Enters
  <2>2. CASE MinuteSet' \subseteq MinuteSet
    BY <1>2, <1>3, <2>2, Shrinks DEF LlmInv
  <2> QED
    BY <1>1, <2>1, <2>2, CallMoves
<1>7. LlmTyped'
  <2>1. call' \in [Calls -> CallState] /\ \A d \in Calls : call'[d].minute <= minute'
    BY <1>1, CallMoves
  <2> QED
    BY <1>1, <2>1 DEF LlmTyped, InForce
<1>8. \A m \in 0..MaxMinute : /\ usage'.minute[m] <= MinuteLimit + Cardinality(Calls) - 1
                              /\ m > minute' => usage'.minute[m] = 0
  BY DEF LlmInv
<1>9. /\ Bound(usage.month, MonthSet, Higher(peak, 1))'
      /\ Bound(usage.session, SessionSet, SessionLimit)'
      /\ Bound(usage.minute[minute], MinuteSet, MinuteLimit)'
  BY <1>4, <1>5, <1>6 DEF Bound, Higher
<1> QED
  BY <1>7, <1>8, <1>9 DEF LlmInv

(***************************************************************************)
(* A request that ends, one that begins, one that goes on behind the       *)
(* checks.                                                                 *)
(***************************************************************************)
LEMMA EndsKeeps ==
    ASSUME LlmInv, NEW c \in Calls, Ends(c), UNCHANGED <<usage, custom, minute, peak>>
    PROVE  LlmInv'
<1>1. Quiet \in CallState /\ Quiet.minute <= minute /\ Quiet.pc = "idle"
  BY LlmAssumption DEF Quiet, CallState, LlmInv, LlmTyped
<1>2. ~InMonth(Quiet, peak) /\ ~InSession(Quiet) /\ ~InMinute(Quiet, minute)
  BY <1>1 DEF InMonth, InSession, InMinute, Asked, Checking
<1>3. call' = [call EXCEPT ![c] = Quiet]
  BY DEF Ends
<1> QED
  BY <1>1, <1>2, <1>3, Walks

LEMMA GenerateKeeps ==
    ASSUME LlmInv, NEW c \in Calls, generateResponse(c)
    PROVE  LlmInv'
<1> DEFINE e == [Quiet EXCEPT !.pc = "limit", !.minute = minute]
<1>1. minute \in 0..MaxMinute
  BY DEF LlmInv, LlmTyped
<1>2. e \in CallState /\ e.pc = "limit" /\ e.minute = minute /\ e.old = FALSE
  BY <1>1 DEF Quiet, CallState, Checking
<1>3. call' = [call EXCEPT ![c] = e] /\ UNCHANGED <<usage, custom, minute, peak>>
  BY DEF generateResponse, store
<1> HIDE DEF e
<1>4. ~InMonth(e, peak) /\ ~InSession(e) /\ ~InMinute(e, minute)
  BY <1>1, <1>2 DEF InMonth, InSession, InMinute, Asked
<1>5. e.minute <= minute
  BY <1>1, <1>2
<1> QED
  BY <1>2, <1>3, <1>4, <1>5, Walks

LEMMA GoesKeeps ==
    ASSUME LlmInv, NEW c \in Calls, NEW at \in Asked, NEW to \in Asked, Goes(c, at, to),
           UNCHANGED <<usage, custom, minute, peak>>
    PROVE  LlmInv'
<1> DEFINE f == call[c]
           e == [f EXCEPT !.pc = to]
<1>1. f \in CallState /\ f.minute <= minute /\ f.pc = at
  BY DEF LlmInv, LlmTyped, Goes
<1>2. call' = [call EXCEPT ![c] = e]
  BY DEF Goes, LlmInv, LlmTyped
<1>3. e \in CallState /\ e.pc = to /\ e.minute = f.minute
  BY <1>1 DEF CallState
<1> HIDE DEF e
<1>4. InMonth(f, peak) /\ InSession(f) /\ InMinute(f, minute)
  BY <1>1 DEF InMonth, InSession, InMinute
<1>5. e.minute <= minute
  BY <1>1, <1>3
<1> QED
  BY <1>2, <1>3, <1>4, <1>5, Walks

(***************************************************************************)
(* The look-up of the limit in force, which is at most the peak.           *)
(***************************************************************************)
LEMMA ReadLimitKeeps ==
    ASSUME LlmInv, NEW c \in Calls, ReadLimit(c)
    PROVE  LlmInv'
<1> DEFINE f == call[c]
           l == InForce(custom)
           e == [f EXCEPT !.pc = "month", !.limit = l]
<1>1. f \in CallState /\ f.minute <= minute /\ f.pc = "limit" /\ f.minute \in Nat /\ minute \in Nat
  BY LlmAssumption DEF LlmInv, LlmTyped, ReadLimit, CallState
<1>2. l \in Nat /\ l <= peak /\ peak \in Nat
  BY LlmAssumption DEF LlmInv, LlmTyped, InForce
<1>3. call' = [call EXCEPT ![c] = e] /\ UNCHANGED <<usage, custom, minute, peak>>
  BY DEF ReadLimit, LlmInv, LlmTyped, store
<1> HIDE DEF l
<1>4. e \in CallState /\ e.pc = "month" /\ e.minute = f.minute /\ e.limit = l /\ e.old = f.old
  BY <1>1, <1>2 DEF CallState, Checking
<1> HIDE DEF e, f
<1>5. InMonth(e, peak) => InMonth(f, peak)
  BY <1>1, <1>2, <1>4 DEF InMonth, Asked
<1>6. ~InSession(e) /\ (InMinute(e, minute) => InMinute(f, minute))
  BY <1>1, <1>4 DEF InSession, InMinute, Asked, Checking
<1>7. e.minute <= minute
  BY <1>1, <1>4
<1> QED
  BY <1>3, <1>4, <1>5, <1>6, <1>7, Walks DEF f

(***************************************************************************)
(* A check lets a request past it, and nobody else comes closer to any     *)
(* counter.                                                                *)
(***************************************************************************)
LEMMA ChecksKeep ==
    ASSUME LlmInv, NEW c \in Calls,
           checkMonthlyQuota(c) \/ checkSessionQuota(c) \/ checkRequestsPerMinute(c)
    PROVE  LlmInv'
<1> DEFINE f == call[c]
<1>1. f \in CallState /\ f.minute <= minute /\ f.minute \in Nat /\ minute \in 0..MaxMinute
  BY LlmAssumption DEF LlmInv, LlmTyped, CallState
<1>2. /\ usage.month \in Nat /\ usage.session \in Nat /\ usage.minute \in [0..MaxMinute -> Nat]
      /\ peak \in Nat /\ SessionLimit \in Nat /\ MinuteLimit \in Nat /\ f.limit \in Nat
      /\ f.minute \in 0..MaxMinute
  BY <1>1, LlmAssumption DEF LlmInv, LlmTyped, CallState
<1>3. \A to \in {"session", "minute", "cache"} :
         LET e == Passed(f, to) IN
         /\ e \in CallState /\ e.pc = to /\ e.minute \in {0, f.minute}
         /\ to # "cache" => e.minute = f.minute
  <2> SUFFICES ASSUME NEW to \in {"session", "minute", "cache"}
               PROVE  /\ Passed(f, to) \in CallState /\ Passed(f, to).pc = to
                      /\ Passed(f, to).minute \in {0, f.minute}
                      /\ to # "cache" => Passed(f, to).minute = f.minute
    OBVIOUS
  <2> DEFINE m == IF to = "cache" THEN 0 ELSE f.minute
  <2>1. m \in 0..MaxMinute
    BY <1>2, LlmAssumption
  <2>2. Passed(f, to) = [pc |-> to, minute |-> m, limit |-> 0, old |-> FALSE]
    BY DEF Passed
  <2>3. m \in {0, f.minute} /\ (to # "cache" => m = f.minute)
    OBVIOUS
  <2> HIDE DEF m
  <2>4. [pc |-> to, minute |-> m, limit |-> 0, old |-> FALSE] \in CallState
    BY <2>1 DEF CallState, Checking, Asked
  <2> QED
    BY <2>2, <2>3, <2>4
<1>4. ASSUME NEW at, NEW n, NEW limit, NEW to, Check(c, at, n, limit, to)
      PROVE  /\ UNCHANGED <<usage, custom, minute, peak>> /\ f.pc = at
             /\ Ends(c) \/ (call' = [call EXCEPT ![c] = Passed(f, to)] /\ ~Reached(n, limit))
  BY <1>4 DEF Check, store, LlmInv, LlmTyped
<1>5. SUFFICES ASSUME UNCHANGED <<usage, custom, minute, peak>>, ~Ends(c) PROVE LlmInv'
  <2>1. UNCHANGED <<usage, custom, minute, peak>>
    BY <1>4 DEF checkMonthlyQuota, checkSessionQuota, checkRequestsPerMinute
  <2> QED
    BY <1>5, <2>1, EndsKeeps
<1>6. CASE checkMonthlyQuota(c)
  <2> DEFINE e == Passed(f, "session")
  <2>1. /\ f.pc = "month" /\ call' = [call EXCEPT ![c] = e]
        /\ f.old \/ ~Reached(usage.month, f.limit)
    BY <1>4, <1>5, <1>6 DEF checkMonthlyQuota
  <2>2. e \in CallState /\ e.pc = "session" /\ e.minute = f.minute
    BY <1>3
  <2> HIDE DEF e, f
  <2>3. InMonth(f, peak) \/ usage.month < Higher(peak, 1)
    BY <1>2, <2>1 DEF InMonth, Reached, Higher
  <2>4. ~InSession(e) /\ (InMinute(e, minute) => InMinute(f, minute))
    BY <2>1, <2>2 DEF InSession, InMinute, Asked, Checking
  <2>5. e.minute <= minute
    BY <1>1, <2>2
  <2> QED
    BY <1>5, <2>1, <2>2, <2>3, <2>4, <2>5, Walks DEF f
<1>7. CASE checkSessionQuota(c)
  <2> DEFINE e == Passed(f, "minute")
  <2>1. f.pc = "session" /\ call' = [call EXCEPT ![c] = e] /\ ~Reached(usage.session, SessionLimit)
    BY <1>4, <1>5, <1>7 DEF checkSessionQuota
  <2>2. e \in CallState /\ e.pc = "minute" /\ e.minute = f.minute
    BY <1>3
  <2> HIDE DEF e, f
  <2>3. InMonth(f, peak) /\ usage.session < SessionLimit
    BY <1>2, <2>1 DEF InMonth, Reached
  <2>4. InMinute(e, minute) => InMinute(f, minute)
    BY <2>1, <2>2 DEF InMinute, Asked, Checking
  <2>5. e.minute <= minute
    BY <1>1, <2>2
  <2> QED
    BY <1>5, <2>1, <2>2, <2>3, <2>4, <2>5, Walks DEF f
<1>8. CASE checkRequestsPerMinute(c)
  <2> DEFINE e == Passed(f, "cache")
  <2>1. /\ f.pc = "minute" /\ call' = [call EXCEPT ![c] = e]
        /\ ~Reached(usage.minute[f.minute], MinuteLimit)
    BY <1>4, <1>5, <1>8 DEF checkRequestsPerMinute
  <2>2. e \in CallState /\ e.minute \in {0, f.minute}
    BY <1>3
  <2> HIDE DEF e, f
  <2>3. usage.minute[f.minute] < MinuteLimit
    <3>1. usage.minute[f.minute] \in Nat
      BY <1>2
    <3> QED
      BY <1>2, <2>1, <3>1 DEF Reached
  <2>4. InMonth(f, peak) /\ InSession(f)
    BY <2>1 DEF InMonth, InSession
  <2>5. InMinute(f, minute) \/ usage.minute[minute] < MinuteLimit
    <3>1. CASE f.minute = minute
      BY <2>3, <3>1
    <3>2. CASE f.minute # minute
      <4>1. usage.minute[f.minute] \in Nat
        BY <1>2
      <4>2. MinuteLimit > 0
        BY <1>2, <2>3, <4>1
      <4>3. f.minute < minute
        BY <1>1, <1>2, <3>2
      <4> QED
        BY <2>1, <4>2, <4>3 DEF InMinute, Checking
    <3> QED
      BY <3>1, <3>2
  <2>6. e.minute <= minute
    BY <1>1, <2>2
  <2> QED
    BY <1>5, <2>1, <2>2, <2>4, <2>5, <2>6, Walks DEF f
<1> QED
  BY <1>6, <1>7, <1>8

(***************************************************************************)
(* A request counts, in any of the three windows, and is done: it was in   *)
(* all three sets and is in none.                                          *)
(***************************************************************************)
LEMMA RecordKeeps ==
    ASSUME LlmInv, NEW c \in Calls, recordRequest(c, TRUE)
    PROVE  LlmInv'
<1> DEFINE f == call[c]
           gone == [f EXCEPT !.pc = "expire"]
<1>1. f \in CallState /\ f.minute <= minute /\ f.minute \in Nat /\ f.pc = "record" /\ LlmTyped
  <2>1. f.pc = "record"
    BY DEF recordRequest
  <2>2. LlmTyped /\ f \in CallState /\ f.minute <= minute
    BY DEF LlmInv, LlmTyped
  <2>3. f.minute \in Nat
    BY <2>2, LlmAssumption DEF CallState
  <2> QED
    BY <2>1, <2>2, <2>3
<1>2. PICK x \in {0, 1}, y \in {0, 1}, z \in {0, 1} :
         usage' = [month |-> usage.month + x, session |-> usage.session + y,
                   minute |-> [usage.minute EXCEPT ![minute] = @ + z]]
  BY Zenon DEF recordRequest
<1>3. Ends(c) \/ Goes(c, "record", "expire")
  BY DEF recordRequest
<1>4. UNCHANGED <<custom, minute, peak>>
  BY DEF recordRequest
<1>5. PICK e \in {Quiet, gone} : call' = [call EXCEPT ![c] = e]
  BY <1>3 DEF Ends, Goes, LlmInv, LlmTyped
<1>6. /\ gone \in CallState /\ gone.pc = "expire" /\ gone.minute = f.minute
      /\ Quiet \in CallState /\ Quiet.pc = "idle" /\ Quiet.minute = 0
  BY <1>1, LlmAssumption DEF CallState, Quiet
<1>7. minute \in 0..MaxMinute
  BY <1>1 DEF LlmTyped
<1>8. e \in CallState /\ e.minute <= minute /\ e.pc \in {"idle", "expire"}
  <2> HIDE DEF gone
  <2>1. CASE e = Quiet
    BY <1>6, <1>7, <2>1
  <2>2. CASE e = gone
    BY <1>1, <1>6, <2>2
  <2> QED
    BY <2>1, <2>2
<1>9. ~InMonth(e, peak) /\ ~InSession(e) /\ ~InMinute(e, minute)
  BY <1>8 DEF InMonth, InSession, InMinute, Asked, Checking
<1>10. c \in MonthSet /\ c \in SessionSet /\ c \in MinuteSet
  BY <1>1 DEF MonthSet, SessionSet, MinuteSet, InMonth, InSession, InMinute, Asked
<1>11. /\ MonthSet' \in SUBSET (MonthSet \ {c}) /\ SessionSet' \in SUBSET (SessionSet \ {c})
       /\ MinuteSet' \in SUBSET (MinuteSet \ {c})
       /\ call' \in [Calls -> CallState] /\ \A d \in Calls : call'[d].minute <= minute'
  BY <1>1, <1>4, <1>5, <1>8, <1>9, CallMoves
<1>12. /\ usage.month \in Nat /\ usage.session \in Nat /\ usage.minute \in [0..MaxMinute -> Nat]
       /\ Higher(peak, 1) \in Nat /\ SessionLimit \in Nat /\ MinuteLimit \in Nat
  BY <1>1, LlmAssumption DEF LlmTyped, Higher
<1>13. MonthSet \in SUBSET Calls /\ SessionSet \in SUBSET Calls /\ MinuteSet \in SUBSET Calls
  BY DEF MonthSet, SessionSet, MinuteSet
<1>14. /\ usage'.month = usage.month + x /\ usage'.session = usage.session + y
       /\ usage'.minute = [usage.minute EXCEPT ![minute] = @ + z]
  BY <1>2
<1>15. usage'.month \in Nat /\ usage'.month <= usage.month + 1
  BY <1>12, <1>14
<1>16. usage'.session \in Nat /\ usage'.session <= usage.session + 1
  BY <1>12, <1>14
<1>17. /\ usage'.minute \in [0..MaxMinute -> Nat] /\ usage'.minute[minute] <= usage.minute[minute] + 1
       /\ \A m \in 0..MaxMinute : m # minute => usage'.minute[m] = usage.minute[m]
  <2>1. usage.minute[minute] \in Nat
    BY <1>7, <1>12
  <2>2. usage.minute[minute] + z \in Nat /\ usage.minute[minute] + z <= usage.minute[minute] + 1
    BY <2>1
  <2>3. usage'.minute = [usage.minute EXCEPT ![minute] = usage.minute[minute] + z]
    BY <1>14
  <2> QED
    BY <1>7, <1>12, <2>2, <2>3
<1>18. LlmTyped'
  <2>1. usage' \in [month : Nat, session : Nat, minute : [0..MaxMinute -> Nat]]
    <3>1. usage' = [month |-> usage'.month, session |-> usage'.session, minute |-> usage'.minute]
      BY <1>2
    <3> QED
      BY <1>15, <1>16, <1>17, <3>1
  <2> QED
    BY <1>1, <1>4, <1>11, <2>1 DEF LlmTyped, InForce
<1>19. Bound(usage'.month, MonthSet', Higher(peak, 1))
  BY <1>10, <1>11, <1>12, <1>13, <1>15, Counts DEF LlmInv
<1>20. Bound(usage'.session, SessionSet', SessionLimit)
  BY <1>10, <1>11, <1>12, <1>13, <1>16, Counts DEF LlmInv
<1>21. Bound(usage'.minute[minute], MinuteSet', MinuteLimit)
  <2>1. usage'.minute[minute] \in Nat /\ usage.minute[minute] \in Nat
    BY <1>7, <1>12, <1>17
  <2> QED
    BY <1>10, <1>11, <1>12, <1>13, <1>17, <2>1, Counts DEF LlmInv
<1>22. usage'.minute[minute] <= MinuteLimit + Cardinality(Calls) - 1
  <2>1. usage'.minute[minute] \in Nat /\ Cardinality(MinuteSet') \in Nat /\ Cardinality(Calls) \in Nat
    BY <1>7, <1>11, <1>13, <1>17, Sizes
  <2> QED
    BY <1>12, <1>21, <2>1 DEF Bound
<1>23. \A m \in 0..MaxMinute : /\ usage'.minute[m] <= MinuteLimit + Cardinality(Calls) - 1
                               /\ m > minute => usage'.minute[m] = 0
  <2> SUFFICES ASSUME NEW m \in 0..MaxMinute
               PROVE  /\ usage'.minute[m] <= MinuteLimit + Cardinality(Calls) - 1
                      /\ m > minute => usage'.minute[m] = 0
    OBVIOUS
  <2>1. CASE m = minute
    BY <1>7, <1>22, <2>1
  <2>2. CASE m # minute
    BY <1>17, <2>2 DEF LlmInv
  <2> QED
    BY <2>1, <2>2
<1>24. /\ Bound(usage.month, MonthSet, Higher(peak, 1))'
       /\ Bound(usage.session, SessionSet, SessionLimit)'
       /\ Bound(usage.minute[minute], MinuteSet, MinuteLimit)'
  BY <1>4, <1>19, <1>20, <1>21 DEF Bound, Higher
<1> QED
  BY <1>4, <1>18, <1>23, <1>24 DEF LlmInv

(***************************************************************************)
(* Limits, resets, expiries and a new month, which move no request.        *)
(***************************************************************************)
LEMMA CountersKeep ==
    ASSUME LlmInv, LlmTyped', minute' = minute,
           \A c \in Calls : call'[c].pc = call[c].pc /\ call'[c].minute = call[c].minute,
           usage'.minute = usage.minute, usage'.session <= usage.session,
           usage'.month = 0 \/ (usage'.month = usage.month /\ peak <= peak' /\ call' = call)
    PROVE  LlmInv'
<1>1. /\ usage.month \in Nat /\ usage.session \in Nat /\ usage.minute \in [0..MaxMinute -> Nat]
      /\ peak \in Nat /\ SessionLimit \in Nat /\ MinuteLimit \in Nat /\ minute \in 0..MaxMinute
      /\ usage'.month \in Nat /\ usage'.session \in Nat /\ peak' \in Nat
  BY LlmAssumption DEF LlmInv, LlmTyped
<1>2. /\ MonthSet \in SUBSET Calls /\ SessionSet \in SUBSET Calls /\ MinuteSet \in SUBSET Calls
      /\ MonthSet' \in SUBSET Calls
  BY DEF MonthSet, SessionSet, MinuteSet
<1>3. SessionSet' = SessionSet
  BY DEF SessionSet, InSession
<1>4. MinuteSet' = MinuteSet
  BY DEF MinuteSet, InMinute
<1>5. Bound(usage'.month, MonthSet', Higher(peak', 1))
  <2>1. CASE usage'.month = 0
    <3>1. Higher(peak', 1) \in Nat /\ 0 < Higher(peak', 1)
      BY <1>1 DEF Higher
    <3> QED
      BY <1>1, <1>2, <2>1, <3>1, Enters
  <2>2. CASE usage'.month = usage.month /\ peak <= peak' /\ call' = call
    <3>1. MonthSet' \subseteq MonthSet
      <4> SUFFICES ASSUME NEW c \in Calls, InMonth(call[c], peak') PROVE InMonth(call[c], peak)
        BY <2>2 DEF MonthSet, InMonth
      <4>1. call[c].limit \in Nat
        BY DEF LlmInv, LlmTyped, CallState
      <4> QED
        BY <1>1, <2>2, <4>1 DEF InMonth
    <3>2. Higher(peak, 1) \in Nat /\ Higher(peak', 1) \in Nat /\ Higher(peak, 1) <= Higher(peak', 1)
      BY <1>1, <2>2 DEF Higher
    <3>3. usage'.month <= usage.month
      BY <1>1, <2>2
    <3>4. Bound(usage.month, MonthSet, Higher(peak, 1))
      BY DEF LlmInv
    <3> QED
      BY <1>1, <1>2, <3>1, <3>2, <3>3, <3>4, Shrinks, SMTT(30)
  <2> QED
    BY <2>1, <2>2
<1>6. Bound(usage'.session, SessionSet', SessionLimit)
  <2>1. SessionLimit <= SessionLimit
    BY <1>1
  <2> QED
    BY <1>1, <1>2, <1>3, <2>1, Shrinks DEF LlmInv
<1>7. /\ Bound(usage.month, MonthSet, Higher(peak, 1))'
      /\ Bound(usage.session, SessionSet, SessionLimit)'
      /\ Bound(usage.minute[minute], MinuteSet, MinuteLimit)'
  BY <1>4, <1>5, <1>6 DEF Bound, Higher, LlmInv
<1>8. \A m \in 0..MaxMinute : /\ usage'.minute[m] <= MinuteLimit + Cardinality(Calls) - 1
                              /\ m > minute' => usage'.minute[m] = 0
  BY DEF LlmInv
<1> QED
  BY <1>7, <1>8 DEF LlmInv

(***************************************************************************)
(* A new minute: its counter is at zero, and everyone whose check is still *)
(* to come, by a minute that is over, may count in it.                     *)
(***************************************************************************)
LEMMA MinuteKeeps ==
    ASSUME LlmInv, MinuteEnds
    PROVE  LlmInv'
<1>1. minute \in 0..MaxMinute /\ minute' = minute + 1 /\ minute' \in 0..MaxMinute /\ UNCHANGED <<store, call>>
  BY LlmAssumption DEF LlmInv, LlmTyped, MinuteEnds
<1>2. UNCHANGED <<usage, custom, peak>> /\ LlmTyped
  BY <1>1 DEF store, LlmInv
<1>3. LlmTyped'
  <2>1. \A c \in Calls : call[c].minute \in Nat /\ call[c].minute <= minute'
    BY <1>1, <1>2, LlmAssumption DEF LlmTyped, CallState
  <2> QED
    BY <1>1, <1>2, <2>1 DEF LlmTyped, InForce
<1>4. usage.minute[minute'] = 0 /\ usage.minute[minute] \in Nat /\ MinuteLimit \in Nat
  BY <1>1, <1>2, LlmAssumption DEF LlmInv, LlmTyped
<1>5. MinuteSet' \in SUBSET Calls /\ MinuteSet \in SUBSET Calls
  BY DEF MinuteSet
<1>6. Bound(0, MinuteSet', MinuteLimit)
  <2>1. CASE MinuteLimit > 0
    BY <1>4, <1>5, <2>1, Enters
  <2>2. CASE MinuteLimit = 0
    <3>1. MinuteSet' \subseteq MinuteSet
      BY <1>1, <2>2 DEF MinuteSet, InMinute
    <3>2. 0 <= usage.minute[minute] /\ MinuteLimit <= MinuteLimit
      BY <1>4
    <3> QED
      BY <1>4, <1>5, <3>1, <3>2, Shrinks DEF LlmInv
  <2> QED
    BY <1>4, <2>1, <2>2
<1>7. Bound(usage.minute[minute], MinuteSet, MinuteLimit)'
  BY <1>2, <1>4, <1>6 DEF Bound
<1>8. /\ Bound(usage.month, MonthSet, Higher(peak, 1))'
      /\ Bound(usage.session, SessionSet, SessionLimit)'
  BY <1>1, <1>2 DEF LlmInv, MonthSet, SessionSet, InMonth, InSession, Higher, Bound
<1>9. \A m \in 0..MaxMinute : /\ usage'.minute[m] <= MinuteLimit + Cardinality(Calls) - 1
                              /\ m > minute' => usage'.minute[m] = 0
  BY <1>1, <1>2 DEF LlmInv
<1> QED
  BY <1>3, <1>7, <1>8, <1>9 DEF LlmInv

(***************************************************************************)
(* What an administrator, Redis and the calendar do.                       *)
(***************************************************************************)
LEMMA OthersKeep ==
    ASSUME LlmInv,
           \/ resetSessionQuota \/ SessionExpires \/ MonthEnds \/ FindUserKeys \/ DeleteUserKeys
           \/ invalidate \/ invalidateAll \/ pruneOldEntries \/ AnswerExpires \/ warmCache
           \/ \E l \in CustomLimits : setUserMonthlyQuota(l)
           \/ UNCHANGED llmVars
    PROVE  LlmInv'
<1>1. LlmTyped /\ usage.month \in Nat /\ usage.session \in Nat /\ peak \in Nat
  BY DEF LlmInv, LlmTyped
<1>2. CASE UNCHANGED <<usage, custom, minute, call, peak>>
  <2>1. LlmTyped'
    BY <1>1, <1>2 DEF LlmTyped, InForce
  <2> QED
    BY <1>1, <1>2, <2>1, CountersKeep
<1>3. CASE DropSession
  <2>1. usage' = [usage EXCEPT !.session = 0] /\ UNCHANGED <<custom, minute, call, peak>>
    BY <1>3 DEF DropSession
  <2>2. /\ usage' \in [month : Nat, session : Nat, minute : [0..MaxMinute -> Nat]]
        /\ usage'.month = usage.month /\ usage'.session = 0 /\ usage'.minute = usage.minute
    BY <1>1, <2>1 DEF LlmTyped
  <2>3. LlmTyped'
    BY <1>1, <2>1, <2>2 DEF LlmTyped, InForce
  <2> QED
    BY <1>1, <2>1, <2>2, <2>3, CountersKeep
<1>4. ASSUME NEW l \in CustomLimits, setUserMonthlyQuota(l) PROVE LlmInv'
  <2>1. custom' = l /\ peak' = Higher(peak, l) /\ UNCHANGED <<usage, minute, call>>
    BY <1>4 DEF setUserMonthlyQuota
  <2>2. l \in Nat /\ l # None
    BY LlmAssumption
  <2>3. peak' \in Nat /\ peak <= peak' /\ l <= peak'
    BY <1>1, <2>1, <2>2 DEF Higher
  <2>4. InForce(custom') <= peak'
    BY <2>1, <2>2, <2>3 DEF InForce
  <2>5. LlmTyped'
    BY <1>1, <2>1, <2>3, <2>4 DEF LlmTyped, InForce
  <2> QED
    BY <1>1, <2>1, <2>3, <2>5, CountersKeep
<1>5. ASSUME NEW l \in CustomLimits \cup {None}, Begins(l), custom' = l, minute' = minute,
             call' \in [Calls -> CallState],
             \A c \in Calls : call'[c].pc = call[c].pc /\ call'[c].minute = call[c].minute
      PROVE  LlmInv'
  <2>1. usage' = [usage EXCEPT !.month = 0] /\ peak' = InForce(l)
    BY <1>5 DEF Begins
  <2>2. /\ usage' \in [month : Nat, session : Nat, minute : [0..MaxMinute -> Nat]]
        /\ usage'.month = 0 /\ usage'.session = usage.session /\ usage'.minute = usage.minute
    BY <1>1, <2>1 DEF LlmTyped
  <2>3. InForce(l) \in Nat
    BY LlmAssumption DEF InForce
  <2>4. InForce(custom') = peak' /\ peak' \in Nat /\ peak' <= peak'
    BY <1>5, <2>1, <2>3
  <2>5. LlmTyped'
    BY <1>1, <1>5, <2>2, <2>4 DEF LlmTyped, InForce
  <2> QED
    BY <1>1, <1>5, <2>2, <2>5, CountersKeep
<1>6. CASE MonthEnds
  <2>1. /\ custom' = None /\ Begins(None) /\ minute' = minute
        /\ call' = [c \in Calls |-> IF call[c].pc \in {"limit", "month"} THEN [call[c] EXCEPT !.old = TRUE]
                                                                         ELSE call[c]]
    BY <1>6 DEF MonthEnds
  <2>2. \A f \in CallState : /\ [f EXCEPT !.old = TRUE] \in CallState
                             /\ [f EXCEPT !.old = TRUE].pc = f.pc
                             /\ [f EXCEPT !.old = TRUE].minute = f.minute
    BY DEF CallState
  <2>3. /\ call' \in [Calls -> CallState]
        /\ \A c \in Calls : call'[c].pc = call[c].pc /\ call'[c].minute = call[c].minute
    BY <1>1, <2>1, <2>2 DEF LlmTyped
  <2> QED
    BY <1>5, <2>1, <2>3
<1>7. CASE DeleteUserKeys
  <2>1. /\ minute' = minute /\ call' = call /\ custom' \in CustomLimits \cup {None}
        /\ Begins(custom') \/ (peak' = Higher(peak, InForce(custom')) /\ usage' = usage)
    BY <1>1, <1>7 DEF DeleteUserKeys, LlmTyped
  <2>2. CASE Begins(custom')
    BY <1>1, <1>5, <2>1, <2>2 DEF LlmTyped
  <2>3. CASE peak' = Higher(peak, InForce(custom')) /\ usage' = usage
    <3>1. InForce(custom') \in Nat
      BY <2>1, LlmAssumption DEF InForce
    <3>2. peak' \in Nat /\ peak <= peak' /\ InForce(custom') <= peak'
      BY <1>1, <2>3, <3>1 DEF Higher
    <3>3. LlmTyped'
      BY <1>1, <2>1, <2>3, <3>2 DEF LlmTyped, InForce
    <3> QED
      BY <1>1, <2>1, <2>3, <3>2, <3>3, CountersKeep
  <2> QED
    BY <2>1, <2>2, <2>3
<1>8. CASE resetSessionQuota \/ SessionExpires
  BY <1>3, <1>8 DEF resetSessionQuota, SessionExpires
<1>9. CASE invalidate \/ invalidateAll \/ pruneOldEntries \/ AnswerExpires \/ warmCache
  BY <1>2, <1>9 DEF invalidate, invalidateAll, pruneOldEntries, AnswerExpires, warmCache, DropAnswer
<1>10. CASE FindUserKeys \/ UNCHANGED llmVars
  BY <1>2, <1>10 DEF FindUserKeys, llmVars, store
<1> QED
  BY <1>4, <1>6, <1>7, <1>8, <1>9, <1>10

(***************************************************************************)
(* The invariant of the quotas survives every step.                        *)
(***************************************************************************)
LEMMA LlmStep ==
    ASSUME LlmInv, [LlmNext]_llmVars
    PROVE  LlmInv'
<1>1. ASSUME NEW c \in Calls, enforceQuotaFails(c) \/ CallDies(c) \/ SetExpiry(c) PROVE LlmInv'
  BY <1>1, EndsKeeps DEF enforceQuotaFails, CallDies, SetExpiry, store
<1>2. ASSUME NEW c \in Calls, NEW b \in BOOLEAN, getCached(c, b) PROVE LlmInv'
  <2>1. UNCHANGED <<usage, custom, minute, peak>>
    BY <1>2 DEF getCached, store
  <2>2. "cache" \in Asked /\ "ask" \in Asked /\ "ask and store" \in Asked
    BY DEF Asked
  <2>3. Ends(c) \/ Goes(c, "cache", "ask") \/ Goes(c, "cache", "ask and store")
    BY <1>2 DEF getCached
  <2> QED
    BY <2>1, <2>2, <2>3, EndsKeeps, GoesKeeps
<1>3. ASSUME NEW c \in Calls, callLlmWithFallback(c) \/ setCached(c) PROVE LlmInv'
  <2>1. UNCHANGED <<usage, custom, minute, peak>>
    BY <1>3 DEF callLlmWithFallback, setCached, store
  <2>2. "ask" \in Asked /\ "ask and store" \in Asked /\ "store" \in Asked /\ "record" \in Asked
    BY DEF Asked
  <2>3. Goes(c, "ask", "record") \/ Goes(c, "ask and store", "store") \/ Goes(c, "store", "record")
    BY <1>3 DEF callLlmWithFallback, setCached
  <2> QED
    BY <2>1, <2>2, <2>3, GoesKeeps
<1>4. ASSUME NEW c \in Calls, NEW b \in BOOLEAN, recordRequest(c, b) PROVE LlmInv'
  <2>1. CASE b = TRUE
    BY <1>4, <2>1, RecordKeeps
  <2>2. CASE b = FALSE
    <3>1. Ends(c) /\ UNCHANGED <<usage, custom, minute, peak>>
      BY <1>4, <2>2 DEF recordRequest
    <3> QED
      BY <3>1, EndsKeeps
  <2> QED
    BY <2>1, <2>2
<1>5. ASSUME NEW c \in Calls, CallStep(c) PROVE LlmInv'
  BY <1>1, <1>2, <1>3, <1>4, <1>5, ReadLimitKeeps, ChecksKeep DEF CallStep
<1>6. ASSUME NEW c \in Calls, generateResponse(c) PROVE LlmInv'
  BY <1>6, GenerateKeeps
<1>7. CASE MinuteEnds
  BY <1>7, MinuteKeeps
<1> QED
  BY <1>1, <1>5, <1>6, <1>7, OthersKeep DEF LlmNext

(***************************************************************************)
(* A quota is overrun by at most the requests under way (OverrunBounded):  *)
(* for any limits, also zero, and any number of concurrent requests, with  *)
(* new limits, resets, deaths, lost counts and ends of windows in between. *)
(***************************************************************************)
THEOREM QuotasAreBounded == LlmSpec => []OverrunBounded
<1>1. LlmInit => LlmInv
  <2> SUFFICES ASSUME LlmInit PROVE LlmInv
    OBVIOUS
  <2>1. /\ usage = Unused /\ custom = None /\ peak = MonthLimit /\ minute = 0
        /\ call = [c \in Calls |-> Quiet]
    BY DEF LlmInit
  <2>2. /\ usage \in [month : Nat, session : Nat, minute : [0..MaxMinute -> Nat]]
        /\ usage.month = 0 /\ usage.session = 0 /\ \A m \in 0..MaxMinute : usage.minute[m] = 0
    BY <2>1, LlmAssumption DEF Unused
  <2>3. Quiet \in CallState /\ Quiet.pc = "idle" /\ Quiet.minute = 0
    BY LlmAssumption DEF Quiet, CallState
  <2>4. LlmTyped
    BY <2>1, <2>2, <2>3, LlmAssumption DEF LlmTyped, InForce
  <2>5. MonthSet = {} /\ SessionSet = {} /\ MinuteSet = {}
    BY <2>1, <2>3 DEF MonthSet, SessionSet, MinuteSet, InMonth, InSession, InMinute, Asked, Checking
  <2>6. Cardinality({}) = 0 /\ Cardinality(Calls) \in Nat /\ Cardinality(Calls) > 0
    BY FS_EmptySet, Sizes
  <2>7. \A l \in Nat : Bound(0, {}, l) /\ 0 <= l + Cardinality(Calls) - 1
    BY <2>6 DEF Bound
  <2>8. Higher(peak, 1) \in Nat /\ 0 \in 0..MaxMinute
    BY <2>1, LlmAssumption DEF Higher
  <2> QED
    BY <2>1, <2>2, <2>4, <2>5, <2>7, <2>8, LlmAssumption DEF LlmInv
<1>2. LlmInv /\ [LlmNext]_llmVars => LlmInv'
  BY LlmStep
<1>3. LlmInv => OverrunBounded
  <2> SUFFICES ASSUME LlmInv PROVE OverrunBounded
    OBVIOUS
  <2>1. /\ Cardinality(MonthSet) \in Nat /\ Cardinality(SessionSet) \in Nat /\ Cardinality(Calls) \in Nat
    BY Sizes DEF MonthSet, SessionSet
  <2>2. /\ usage.month \in Nat /\ usage.session \in Nat /\ Higher(peak, 1) \in Nat
        /\ SessionLimit \in Nat /\ MinuteLimit \in Nat
    BY LlmAssumption DEF LlmInv, LlmTyped, Higher
  <2>3. usage.month <= Higher(peak, 1) + (Cardinality(Calls) - 1)
    BY <2>1, <2>2 DEF LlmInv, Bound
  <2>4. usage.session <= SessionLimit + (Cardinality(Calls) - 1)
    BY <2>1, <2>2 DEF LlmInv, Bound
  <2>5. \A m \in 0..MaxMinute : usage.minute[m] <= MinuteLimit + (Cardinality(Calls) - 1)
    BY <2>1, <2>2 DEF LlmInv
  <2> QED
    BY <2>3, <2>4, <2>5 DEF OverrunBounded
<1> QED
  BY <1>1, <1>2, <1>3, PTL DEF LlmSpec

-----------------------------------------------------------------------------
(***************************************************************************)
(* Voice sessions: the programs are sequences of operations on sessions    *)
(* that were given out.                                                    *)
(***************************************************************************)
Session ==
    [st : {"IDLE", "LISTENING", "THINKING", "RESPONDING", "INTERRUPTED"}, fresh : BOOLEAN]

PlainNames ==
    {"interrupt", "resume", "require", "pointer", "point", "unpoint", "unpoint if mine", "delete",
     "remove", "members", "new", "add", "open", "speaking", "ask", "chunk", "close", "stop"}
Targets ==
    {"IDLE", "LISTENING", "THINKING", "RESPONDING", "INTERRUPTED", "STALE", "TERMINATED", "touch", "ping"}

Operation ==
    [op : PlainNames] \cup [op : {"update"}, to : Targets] \cup [op : {"save"}, s : Session]
        \cup [op : {"list", "limit"}, ids : SUBSET SessionIds]

Frame == [ops : Seq(Operation), sid : SessionIds \cup {None}]

Given == 1..used.sessions

VsTyped ==
    /\ sessions \in [SessionIds -> Session \cup {None}]
    /\ members \subseteq SessionIds
    /\ pointer \in SessionIds \cup {None}
    /\ running \in [Procs -> Frame]
    /\ used \in [events : Nat, sessions : 0..MaxSessions, streams : SUBSET Streams]
    /\ active \subseteq used.streams
    /\ stopped \subseteq used.streams
    /\ failed \subseteq Procs
    /\ excused \in BOOLEAN

\* Whatever names a session names one that was given out, and a program that
\* has none asks for one.
Known ==
    /\ Live \subseteq Given /\ members \subseteq Given /\ pointer \in Given \cup {None}
    /\ \A p \in Procs :
          /\ running[p].sid \in Given \cup {None}
          /\ \A k \in DOMAIN running[p].ops :
                running[p].ops[k].op \in {"list", "limit"} => running[p].ops[k].ids \subseteq Given
          /\ running[p].sid = None /\ running[p].ops # <<>>
                => Head(running[p].ops).op \in {"pointer", "members", "list", "limit", "new"}

CreateOps == {"members", "list", "limit", "new", "add"}
CreateNames == <<"members", "list", "members", "limit", "new", "add", "update", "point">>

IsCreate(ops) == \E k \in DOMAIN ops : ops[k].op \in CreateOps

\* A creation is a rest of the whole creation, and a session is deleted just
\* before it is removed.
WellFormed(ops) ==
    /\ IsCreate(ops) => /\ 3 <= Len(ops) /\ Len(ops) <= 8
                        /\ \A k \in 1..Len(ops) : ops[k].op = CreateNames[8 - Len(ops) + k]
    /\ \A k \in 2..Len(ops) : ops[k].op = "remove" => ops[k-1].op = "delete"

Formed ==
    /\ \A p \in Procs : WellFormed(running[p].ops)
    /\ \A s \in Streams : ~IsCreate(running[s].ops)

\* An answer that may still speak ends by being forgotten.
StreamOps == {"speaking", "update", "save", "ask", "chunk", "close"}
Speaking(ops) ==
    /\ ops # <<>> /\ ops[Len(ops)].op = "close"
    /\ \A k \in 1..Len(ops) : ops[k].op \in StreamOps

Streaming ==
    /\ active \cap stopped = {}
    /\ \A s \in active : s \in failed \/ Speaking(running[s].ops)

\* Without an excuse there is one creation at a time, which knows of every
\* live session, and goes on only if there is none.
Alone ==
    /\ \A p, q \in Procs : IsCreate(running[p].ops) /\ IsCreate(running[q].ops) => p = q
    /\ \A p \in Procs : At(p, "remove") /\ running[p].sid # None => sessions[running[p].sid] = None
    /\ \A p \in Procs : At(p, "list") => Live \subseteq Head(running[p].ops).ids
    /\ \A p \in Procs : IsCreate(running[p].ops) /\ 4 <= Len(running[p].ops) /\ Len(running[p].ops) <= 6
                              => Live = {}
    /\ \A p \in Procs : At(p, "add") => Live \subseteq {running[p].sid}
    /\ (\A p \in Procs : ~At(p, "add")) => Live \subseteq members
    /\ \A i, j \in Live : i = j

VsInv == VsTyped /\ Known /\ Formed /\ Streaming /\ (excused \/ Alone)

-----------------------------------------------------------------------------
(* Programs *)

\* What dropping the first operation does to a sequence.
LEMMA VsTail ==
    ASSUME NEW ops \in Seq(Operation), ops # <<>>
    PROVE  /\ Len(ops) \in Nat \ {0} /\ Head(ops) = ops[1] /\ ops[1] \in Operation
           /\ Tail(ops) \in Seq(Operation) /\ Len(Tail(ops)) = Len(ops) - 1
           /\ \A k \in 1..(Len(ops) - 1) : Tail(ops)[k] = ops[k + 1]
           /\ DOMAIN ops = 1..Len(ops) /\ DOMAIN Tail(ops) = 1..(Len(ops) - 1)
<1>1. /\ Len(ops) \in Nat /\ Len(ops) # 0 /\ DOMAIN ops = 1..Len(ops) /\ Head(ops) = ops[1]
      /\ ops[1] \in Operation
  BY EmptySeq, LenProperties, ElementOfSeq, HeadTailProperties
<1>2. /\ Tail(ops) \in Seq(Operation) /\ Len(Tail(ops)) = Len(ops) - 1
      /\ \A k \in 1..Len(Tail(ops)) : Tail(ops)[k] = ops[k + 1]
  BY HeadTailProperties
<1> QED
  BY <1>1, <1>2, LenProperties

\* What putting another operation in the place of the first one does.
LEMMA VsReplace ==
    ASSUME NEW ops \in Seq(Operation), ops # <<>>, NEW x \in Operation
    PROVE  LET new == <<x>> \o Tail(ops) IN
           /\ new \in Seq(Operation) /\ Len(new) = Len(ops) /\ new[1] = x /\ Head(new) = x /\ new # <<>>
           /\ \A k \in 2..Len(ops) : new[k] = ops[k]
           /\ DOMAIN new = 1..Len(ops)
<1> DEFINE new == <<x>> \o Tail(ops)
<1>1. <<x>> \in Seq(Operation) /\ Len(<<x>>) = 1 /\ <<x>>[1] = x
  OBVIOUS
<1>2. new \in Seq(Operation) /\ Len(new) = 1 + Len(Tail(ops))
  BY <1>1, VsTail, ConcatProperties
<1>3. \A k \in 1..Len(new) : new[k] = IF k <= 1 THEN <<x>>[k] ELSE Tail(ops)[k - 1]
  BY <1>1, VsTail, ConcatProperties
<1>4. Len(new) = Len(ops) /\ Len(ops) \in Nat \ {0} /\ DOMAIN new = 1..Len(ops)
  BY <1>2, VsTail, LenProperties
<1>5. new[1] = x
  BY <1>1, <1>3, <1>4
<1>6. ASSUME NEW k \in 2..Len(ops)
      PROVE  new[k] = ops[k]
  <2>1. k \in 1..Len(new) /\ ~(k <= 1) /\ k - 1 \in 1..(Len(ops) - 1) /\ (k - 1) + 1 = k
    BY <1>4
  <2>2. new[k] = Tail(ops)[k - 1]
    BY <2>1, <1>3
  <2>3. Tail(ops)[k - 1] = ops[(k - 1) + 1]
    BY <2>1, VsTail
  <2> QED
    BY <2>1, <2>2, <2>3
<1>7. new # <<>> /\ Head(new) = x
  BY <1>2, <1>4, <1>5, EmptySeq, HeadTailProperties
<1> QED
  BY <1>2, <1>4, <1>5, <1>6, <1>7

\* A creation has an operation of creations next.
LEMMA VsCreateHead ==
    ASSUME NEW ops \in Seq(Operation), WellFormed(ops), IsCreate(ops)
    PROVE  /\ ops # <<>> /\ 3 <= Len(ops) /\ Len(ops) <= 8 /\ Head(ops).op = CreateNames[9 - Len(ops)]
           /\ Head(ops).op \in CreateOps
<1>1. 3 <= Len(ops) /\ Len(ops) <= 8 /\ \A k \in 1..Len(ops) : ops[k].op = CreateNames[8 - Len(ops) + k]
  BY DEF WellFormed
<1>n. Len(ops) \in Nat
  BY LenProperties
<1>2. ops # <<>>
  BY <1>1, <1>n, EmptySeq
<1>3. Head(ops) = ops[1]
  BY <1>2, VsTail
<1>4. ops[1].op = CreateNames[8 - Len(ops) + 1] /\ 8 - Len(ops) + 1 = 9 - Len(ops)
  BY <1>1
<1>5. 9 - Len(ops) \in 1..6
  BY <1>1, <1>n
<1>6. \A j \in 1..6 : CreateNames[j] \in CreateOps
  BY DEF CreateNames, CreateOps
<1> QED
  BY <1>1, <1>2, <1>3, <1>4, <1>5, <1>6

\* The rest of a well-formed program is one.
LEMMA VsDrop ==
    ASSUME NEW ops \in Seq(Operation), ops # <<>>, WellFormed(ops)
    PROVE  /\ WellFormed(Tail(ops))
           /\ IsCreate(Tail(ops)) => IsCreate(ops) /\ 4 <= Len(ops) /\ Len(ops) <= 8
           /\ Tail(ops) # <<>> /\ Head(Tail(ops)).op = "remove" => Head(ops).op = "delete"
<1>1. /\ Len(ops) \in Nat \ {0} /\ Len(Tail(ops)) = Len(ops) - 1
      /\ \A k \in 1..(Len(ops) - 1) : Tail(ops)[k] = ops[k + 1]
      /\ DOMAIN ops = 1..Len(ops) /\ DOMAIN Tail(ops) = 1..(Len(ops) - 1)
      /\ Tail(ops) \in Seq(Operation)
  BY VsTail
<1>2. ASSUME IsCreate(Tail(ops))
      PROVE  /\ IsCreate(ops) /\ 4 <= Len(ops) /\ Len(ops) <= 8
             /\ \A k \in 1..Len(Tail(ops)) : Tail(ops)[k].op = CreateNames[8 - Len(Tail(ops)) + k]
  <2>1. PICK k \in 1..(Len(ops) - 1) : Tail(ops)[k].op \in CreateOps
    BY <1>1, <1>2 DEF IsCreate
  <2>2. k + 1 \in 1..Len(ops) /\ ops[k + 1].op \in CreateOps
    BY <1>1, <2>1
  <2>3. IsCreate(ops)
    BY <1>1, <2>2 DEF IsCreate
  <2>4. 3 <= Len(ops) /\ Len(ops) <= 8 /\ \A j \in 1..Len(ops) : ops[j].op = CreateNames[8 - Len(ops) + j]
    BY <2>3 DEF WellFormed
  <2>5. Len(ops) # 3
    <3> SUFFICES ASSUME Len(ops) = 3 PROVE FALSE
      OBVIOUS
    <3>1. k \in 1..2 /\ ops[k + 1].op = CreateNames[5 + (k + 1)]
      BY <2>1, <2>2, <2>4
    <3>2. 5 + (k + 1) \in {7, 8}
      BY <3>1
    <3>3. CreateNames[7] \notin CreateOps /\ CreateNames[8] \notin CreateOps
      BY DEF CreateNames, CreateOps
    <3> QED
      BY <2>2, <3>1, <3>2, <3>3
  <2>6. ASSUME NEW j \in 1..Len(Tail(ops))
        PROVE  Tail(ops)[j].op = CreateNames[8 - Len(Tail(ops)) + j]
    <3>1. j + 1 \in 1..Len(ops) /\ 8 - Len(ops) + (j + 1) = 8 - Len(Tail(ops)) + j
      BY <1>1, <2>4
    <3>2. Tail(ops)[j] = ops[j + 1] /\ ops[j + 1].op = CreateNames[8 - Len(ops) + (j + 1)]
      BY <1>1, <2>4, <3>1
    <3> QED
      BY <3>1, <3>2
  <2>7. 4 <= Len(ops) /\ Len(ops) <= 8
    BY <1>1, <2>4, <2>5
  <2> QED
    BY <2>3, <2>6, <2>7
<1>3. ASSUME NEW k \in 2..Len(Tail(ops)), Tail(ops)[k].op = "remove"
      PROVE  Tail(ops)[k-1].op = "delete"
  <2>1. k + 1 \in 2..Len(ops) /\ ops[k + 1].op = "remove" /\ (k + 1) - 1 = k /\ (k - 1) + 1 = k
    BY <1>1, <1>3
  <2>2. ops[(k + 1) - 1].op = "delete"
    BY <2>1 DEF WellFormed
  <2>3. Tail(ops)[k - 1] = ops[(k - 1) + 1]
    BY <1>1
  <2> QED
    BY <2>1, <2>2, <2>3
<1>4. ASSUME Tail(ops) # <<>>, Head(Tail(ops)).op = "remove"
      PROVE  Head(ops).op = "delete"
  <2>1. Len(Tail(ops)) \in Nat \ {0} /\ Head(Tail(ops)) = Tail(ops)[1] /\ Head(ops) = ops[1]
    BY <1>1, <1>4, VsTail
  <2>2. 2 \in 2..Len(ops) /\ ops[2].op = "remove"
    BY <1>1, <1>4, <2>1
  <2>3. ops[2 - 1].op = "delete" /\ 2 - 1 = 1
    BY <2>2 DEF WellFormed
  <2> QED
    BY <2>1, <2>3
<1>5. IsCreate(Tail(ops)) => 3 <= Len(Tail(ops)) /\ Len(Tail(ops)) <= 8
  BY <1>1, <1>2
<1>6. WellFormed(Tail(ops))
  BY <1>2, <1>3, <1>5 DEF WellFormed
<1> QED
  BY <1>2, <1>4, <1>6

\* An operation in the place of another one makes no creation.
LEMMA VsSwap ==
    ASSUME NEW ops \in Seq(Operation), ops # <<>>, WellFormed(ops), Head(ops).op \notin CreateOps \cup {"delete"},
           NEW x \in Operation, x.op \in {"update", "save", "interrupt", "unpoint"}
    PROVE  WellFormed(<<x>> \o Tail(ops)) /\ ~IsCreate(<<x>> \o Tail(ops))
<1> DEFINE new == <<x>> \o Tail(ops)
<1>1. /\ new \in Seq(Operation) /\ Len(new) = Len(ops) /\ new[1] = x
      /\ \A k \in 2..Len(ops) : new[k] = ops[k]
      /\ DOMAIN new = 1..Len(ops)
  BY VsReplace
<1>2. Len(ops) \in Nat \ {0} /\ Head(ops) = ops[1] /\ DOMAIN ops = 1..Len(ops)
  BY VsTail
<1> HIDE DEF new
<1>3. ~IsCreate(ops)
  BY VsCreateHead
<1>4. ~IsCreate(new)
  <2> SUFFICES ASSUME NEW k \in 1..Len(ops), new[k].op \in CreateOps PROVE FALSE
    BY <1>1 DEF IsCreate
  <2>1. x.op \notin CreateOps
    BY DEF CreateOps
  <2>2. k \in 2..Len(ops)
    BY <1>1, <1>2, <2>1
  <2> QED
    BY <1>1, <1>2, <1>3, <2>2 DEF IsCreate
<1>5. ASSUME NEW k \in 2..Len(ops), new[k].op = "remove"
      PROVE  new[k - 1].op = "delete"
  <2>1. ops[k].op = "remove" /\ ops[k - 1].op = "delete"
    BY <1>1, <1>5 DEF WellFormed
  <2>2. k # 2
    BY <1>2, <2>1
  <2>3. k - 1 \in 2..Len(ops)
    BY <1>2, <2>2
  <2> QED
    BY <1>1, <2>1, <2>3
<1> QED
  BY <1>1, <1>4, <1>5 DEF WellFormed, new

\* An answer that goes on still ends by being forgotten.
LEMMA VsSpeakOn ==
    ASSUME NEW ops \in Seq(Operation), Speaking(ops), ops # <<>>, Head(ops).op # "close"
    PROVE  /\ Speaking(Tail(ops))
           /\ \A x \in Operation : x.op \in StreamOps => Speaking(<<x>> \o Tail(ops))
<1>1. /\ Len(ops) \in Nat \ {0} /\ Head(ops) = ops[1] /\ Tail(ops) \in Seq(Operation)
      /\ Len(Tail(ops)) = Len(ops) - 1
      /\ \A k \in 1..(Len(ops) - 1) : Tail(ops)[k] = ops[k + 1]
  BY VsTail
<1>2. ops[Len(ops)].op = "close" /\ \A k \in 1..Len(ops) : ops[k].op \in StreamOps
  BY DEF Speaking
<1>3. Len(ops) # 1
  BY <1>1, <1>2
<1>4. Speaking(Tail(ops))
  <2>1. Tail(ops) # <<>>
    <3>1. Len(Tail(ops)) # 0
      BY <1>1, <1>3
    <3> QED
      BY <1>1, <3>1, EmptySeq
  <2>2. Tail(ops)[Len(Tail(ops))].op = "close"
    <3>1. Len(ops) - 1 \in 1..(Len(ops) - 1) /\ (Len(ops) - 1) + 1 = Len(ops)
      BY <1>1, <1>3
    <3> QED
      BY <1>1, <1>2, <3>1
  <2>3. ASSUME NEW k \in 1..Len(Tail(ops)) PROVE Tail(ops)[k].op \in StreamOps
    <3>1. k \in 1..(Len(ops) - 1) /\ k + 1 \in 1..Len(ops)
      BY <1>1
    <3> QED
      BY <1>1, <1>2, <3>1
  <2> QED
    BY <2>1, <2>2, <2>3 DEF Speaking
<1>5. ASSUME NEW x \in Operation, x.op \in StreamOps
      PROVE  Speaking(<<x>> \o Tail(ops))
  <2> DEFINE new == <<x>> \o Tail(ops)
  <2>1. /\ Len(new) = Len(ops) /\ new[1] = x /\ new # <<>>
        /\ \A k \in 2..Len(ops) : new[k] = ops[k]
    BY VsReplace
  <2> HIDE DEF new
  <2>2. Len(ops) \in 2..Len(ops)
    BY <1>1, <1>3
  <2>3. new[Len(new)].op = "close"
    BY <1>2, <2>1, <2>2
  <2>4. ASSUME NEW k \in 1..Len(new) PROVE new[k].op \in StreamOps
    <3>1. k = 1 \/ k \in 2..Len(ops)
      BY <1>1, <2>1
    <3>2. CASE k = 1
      BY <1>5, <2>1, <3>2
    <3>3. CASE k \in 2..Len(ops)
      <4>1. k \in 1..Len(ops) /\ new[k] = ops[k]
        BY <2>1, <3>3
      <4> QED
        BY <1>2, <4>1
    <3> QED
      BY <3>1, <3>2, <3>3
  <2> QED
    BY <2>1, <2>3, <2>4 DEF Speaking, new
<1> QED
  BY <1>4, <1>5

-----------------------------------------------------------------------------
(* One process moves *)

\* Only process p has moved.
Turn(p) == running' \in [Procs -> Frame] /\ \A q \in Procs \ {p} : running'[q] = running[q]

\* Do gives a process its new program and leaves the others alone.
LEMMA VsDo ==
    ASSUME VsTyped, NEW p \in Procs, NEW ops \in Seq(Operation), Do(p, ops)
    PROVE  /\ Turn(p) /\ running'[p].ops = ops
           /\ running'[p].sid = IF ops = <<>> THEN None ELSE running[p].sid
<1>1. running \in [Procs -> Frame] /\ running[p] \in Frame
  BY DEF VsTyped
<1> DEFINE f == IF ops = <<>> THEN AtRest ELSE [running[p] EXCEPT !.ops = ops]
<1>2. running' = [running EXCEPT ![p] = f]
  BY DEF Do
<1>3. f \in Frame /\ f.ops = ops /\ f.sid = IF ops = <<>> THEN None ELSE running[p].sid
  <2>1. CASE ops = <<>>
    BY <2>1 DEF AtRest, Frame
  <2>2. CASE ops # <<>>
    BY <1>1, <2>2 DEF Frame
  <2> QED
    BY <2>1, <2>2
<1> HIDE DEF f
<1> QED
  BY <1>1, <1>2, <1>3 DEF Turn

\* The same for a program on another session.
LEMMA VsBecome ==
    ASSUME VsTyped, NEW p \in Procs, NEW ops \in Seq(Operation), NEW i \in SessionIds \cup {None},
           running' = [running EXCEPT ![p] = [ops |-> ops, sid |-> i]]
    PROVE  Turn(p) /\ running'[p].ops = ops /\ running'[p].sid = i
<1>1. running \in [Procs -> Frame]
  BY DEF VsTyped
<1>2. [ops |-> ops, sid |-> i] \in Frame
  BY DEF Frame
<1> QED
  BY <1>1, <1>2 DEF Turn

\* What is next, when something is.
LEMMA VsNextOp ==
    ASSUME VsTyped, NEW p \in Procs, NEW name, At(p, name)
    PROVE  /\ running[p].ops \in Seq(Operation) /\ running[p].ops # <<>>
           /\ Head(running[p].ops).op = name /\ Head(running[p].ops) \in Operation
           /\ Rest(p) = Tail(running[p].ops) /\ Rest(p) \in Seq(Operation)
           /\ running[p].sid \in SessionIds \cup {None}
<1>1. running[p].ops \in Seq(Operation) /\ running[p].sid \in SessionIds \cup {None}
  BY DEF VsTyped, Frame
<1>2. running[p].ops # <<>> /\ Head(running[p].ops).op = name
  BY DEF At
<1> QED
  BY <1>1, <1>2, VsTail DEF Rest

\* What a step of p must do to the streams.
StreamsKept(p) ==
    /\ active' \subseteq active /\ active' \cap stopped' = {} /\ failed \subseteq failed'
    /\ p \in active' => p \in failed' \/ Speaking(running'[p].ops)

\* What a step without creation leaves true for creations, if it is no excuse.
Keeps(p) ==
    /\ ~excused /\ Live' \subseteq Live
    /\ \A i \in SessionIds : sessions[i] = None => sessions'[i] = None
    /\ \A i \in Live' : i \in members => i \in members'
    /\ At(p, "add") => Live' \subseteq members'
    /\ (/\ running'[p].ops # <<>> /\ Head(running'[p].ops).op = "remove"
        /\ running'[p].sid # None) => sessions'[running'[p].sid] = None

\* A program's session was given out, or the program asks for one.
KnownFrame(f) ==
    /\ f.sid \in Given \cup {None}
    /\ f.sid = None /\ f.ops # <<>> => Head(f.ops).op \in {"pointer", "members", "list", "limit", "new"}

\* The streams, after a step of one process.
LEMMA VsStreams ==
    ASSUME VsTyped, Streaming, NEW p \in Procs, Turn(p), StreamsKept(p)
    PROVE  Streaming'
<1>1. active \subseteq Procs
  BY DEF VsTyped, Procs
<1>2. ASSUME NEW s \in active' PROVE s \in failed' \/ Speaking(running'[s].ops)
  BY <1>1 DEF Streaming, Turn, StreamsKept
<1> QED
  BY <1>2 DEF Streaming, StreamsKept, Speaking

\* A step after which the process creates nothing.
LEMMA VsQuiet ==
    ASSUME VsInv, NEW p \in Procs, VsTyped', Turn(p), StreamsKept(p),
           used'.sessions = used.sessions, Live' \subseteq Given, members' \subseteq Given,
           pointer' \in Given \cup {None}, KnownFrame(running'[p]),
           WellFormed(running'[p].ops), ~IsCreate(running'[p].ops),
           excused' \/ Keeps(p)
    PROVE  VsInv'
<1>0. VsTyped /\ Known /\ Formed /\ Streaming /\ Procs = Handlers \cup Streams
  BY DEF VsInv, Procs
<1>g. Given' = Given
  BY DEF Given
<1>f. \A q \in Procs : running[q].ops \in Seq(Operation) /\ running'[q].ops \in Seq(Operation)
  BY <1>0 DEF VsTyped, Turn, Frame
<1>d. \A q \in Procs : \A k \in DOMAIN running'[q].ops : running'[q].ops[k].op \in CreateOps => q # p
  BY DEF IsCreate
<1>1. Known'
  <2>1. ASSUME NEW q \in Procs
        PROVE  /\ running'[q].sid \in Given \cup {None}
               /\ \A k \in DOMAIN running'[q].ops :
                     running'[q].ops[k].op \in {"list", "limit"} => running'[q].ops[k].ids \subseteq Given
               /\ running'[q].sid = None /\ running'[q].ops # <<>>
                     => Head(running'[q].ops).op \in {"pointer", "members", "list", "limit", "new"}
    <3>1. CASE q = p
      BY <1>d, <3>1 DEF KnownFrame, CreateOps
    <3>2. CASE q # p
      BY <1>0, <3>2 DEF Known, Turn
    <3> QED
      BY <3>1, <3>2
  <2> QED
    BY <1>g, <2>1 DEF Known
<1>2. Formed'
  <2>1. \A q \in Procs : WellFormed(running'[q].ops)
    BY <1>0 DEF Formed, Turn
  <2>2. \A s \in Streams : ~IsCreate(running'[s].ops)
    BY <1>0 DEF Formed, Turn
  <2> QED
    BY <2>1, <2>2 DEF Formed, WellFormed, IsCreate
<1>3. Streaming'
  BY <1>0, VsStreams
<1>4. ASSUME ~excused' PROVE Alone'
  <2>1. Keeps(p) /\ Alone
    BY <1>4 DEF VsInv, Keeps
  <2>2. \A q \in Procs : IsCreate(running'[q].ops) => q # p /\ running'[q] = running[q]
    BY DEF Turn
  <2>h. \A q \in Procs : running'[q].ops # <<>> /\ Head(running'[q].ops).op \in CreateOps
                            => IsCreate(running'[q].ops)
    <3> SUFFICES ASSUME NEW q \in Procs, running'[q].ops # <<>>, Head(running'[q].ops).op \in CreateOps
                 PROVE  IsCreate(running'[q].ops)
      OBVIOUS
    <3>1. /\ Head(running'[q].ops) = running'[q].ops[1] /\ Len(running'[q].ops) \in Nat \ {0}
          /\ DOMAIN running'[q].ops = 1..Len(running'[q].ops)
      BY <1>f, VsTail
    <3>2. 1 \in DOMAIN running'[q].ops
      BY <3>1
    <3> QED
      BY <3>1, <3>2 DEF IsCreate
  <2>3. ASSUME NEW q \in Procs, NEW r \in Procs, IsCreate(running'[q].ops), IsCreate(running'[r].ops)
        PROVE  q = r
    BY <2>1, <2>2, <2>3 DEF Alone
  <2>4. ASSUME NEW q \in Procs, running'[q].ops # <<>>, Head(running'[q].ops).op = "remove",
               running'[q].sid # None
        PROVE  sessions'[running'[q].sid] = None
    <3>1. CASE q = p
      BY <2>1, <2>4, <3>1 DEF Keeps
    <3>2. CASE q # p
      <4>1. running'[q] = running[q]
        BY <3>2 DEF Turn
      <4>2. sessions[running[q].sid] = None
        BY <2>1, <2>4, <4>1 DEF Alone, At
      <4>3. running[q].sid \in SessionIds
        BY <1>0, <2>4, <4>1 DEF VsTyped, Frame
      <4> QED
        BY <2>1, <4>1, <4>2, <4>3 DEF Keeps
    <3> QED
      BY <3>1, <3>2
  <2>5. ASSUME NEW q \in Procs, running'[q].ops # <<>>, Head(running'[q].ops).op = "list"
        PROVE  Live' \subseteq Head(running'[q].ops).ids
    <3>1. running'[q] = running[q]
      BY <2>2, <2>5, <2>h DEF CreateOps
    <3>2. Live \subseteq Head(running[q].ops).ids
      BY <2>1, <2>5, <3>1 DEF Alone, At
    <3> QED
      BY <2>1, <3>1, <3>2 DEF Keeps
  <2>6. ASSUME NEW q \in Procs, IsCreate(running'[q].ops), 4 <= Len(running'[q].ops), Len(running'[q].ops) <= 6
        PROVE  Live' = {}
    <3>1. running'[q] = running[q]
      BY <2>2, <2>6
    <3>2. Live = {}
      BY <2>1, <2>6, <3>1 DEF Alone
    <3> QED
      BY <2>1, <3>2 DEF Keeps
  <2>7. ASSUME NEW q \in Procs, running'[q].ops # <<>>, Head(running'[q].ops).op = "add"
        PROVE  Live' \subseteq {running'[q].sid}
    <3>1. running'[q] = running[q]
      BY <2>2, <2>7, <2>h DEF CreateOps
    <3>2. Live \subseteq {running[q].sid}
      BY <2>1, <2>7, <3>1 DEF Alone, At
    <3> QED
      BY <2>1, <3>1, <3>2 DEF Keeps
  <2>8. ASSUME \A q \in Procs : ~(running'[q].ops # <<>> /\ Head(running'[q].ops).op = "add")
        PROVE  Live' \subseteq members'
    <3>1. CASE At(p, "add")
      BY <2>1, <3>1 DEF Keeps
    <3>2. CASE ~At(p, "add")
      <4>1. \A q \in Procs : ~At(q, "add")
        BY <2>8, <3>2 DEF Turn, At
      <4>2. Live \subseteq members
        BY <2>1, <4>1 DEF Alone
      <4> QED
        BY <2>1, <4>2 DEF Keeps
    <3> QED
      BY <3>1, <3>2
  <2>9. \A i, j \in Live' : i = j
    BY <2>1 DEF Keeps, Alone
  <2> QED
    BY <2>3, <2>4, <2>5, <2>6, <2>7, <2>8, <2>9 DEF Alone, At, IsCreate
<1> QED
  BY <1>1, <1>2, <1>3, <1>4 DEF VsInv

\* A program that creates nothing goes on, ends, or gets another next operation.
GoesOn(p, name, X) ==
    \/ X = <<>> \/ X = Rest(p)
    \/ /\ name # "delete"
       /\ \E x \in Operation : x.op \in {"update", "save", "interrupt", "unpoint"} /\ X = <<x>> \o Rest(p)

\* What it is then.
Went(p, name, X) ==
    /\ X \in Seq(Operation) /\ Turn(p) /\ running'[p].ops = X
    /\ WellFormed(running'[p].ops) /\ ~IsCreate(running'[p].ops) /\ KnownFrame(running'[p])
    /\ running[p].sid \in SessionIds /\ running[p].sid \in Given
    /\ X # <<>> => running'[p].sid = running[p].sid
    /\ X # <<>> /\ Head(X).op = "remove" => name = "delete"
    /\ p \in active /\ p \notin failed => name \in StreamOps
    /\ p \in active /\ p \notin failed /\ name # "close"
          /\ (X = Rest(p) \/ \E x \in Operation : x.op \in {"update", "save"} /\ X = <<x>> \o Rest(p))
          => Speaking(running'[p].ops)

\* Every way to go on leads there.
LEMMA VsGoesOn ==
    ASSUME VsInv, NEW p \in Procs, NEW name, At(p, name), name \notin CreateOps \cup {"pointer"},
           NEW X, Do(p, X), GoesOn(p, name, X)
    PROVE  Went(p, name, X)
<1> DEFINE ops == running[p].ops
<1>1. /\ ops \in Seq(Operation) /\ ops # <<>> /\ Head(ops).op = name /\ Head(ops) \in Operation
      /\ Rest(p) = Tail(ops) /\ Rest(p) \in Seq(Operation) /\ running[p].sid \in SessionIds \cup {None}
  BY VsNextOp DEF VsInv
<1>2. WellFormed(ops)
  BY DEF VsInv, Formed
<1>3. running[p].sid # None /\ running[p].sid \in Given
  <2>1. /\ running[p].sid \in Given \cup {None}
        /\ running[p].sid = None /\ ops # <<>>
              => Head(ops).op \in {"pointer", "members", "list", "limit", "new"}
    BY DEF VsInv, Known
  <2> QED
    BY <1>1, <2>1 DEF CreateOps
<1>4. ~IsCreate(ops)
  BY <1>1, <1>2, VsCreateHead
<1> HIDE DEF ops
<1>5. /\ X \in Seq(Operation) /\ WellFormed(X) /\ ~IsCreate(X)
      /\ X # <<>> /\ Head(X).op = "remove" => name = "delete"
  <2>1. CASE X = <<>>
    <3>1. X \in Seq(Operation) /\ Len(X) = 0 /\ DOMAIN X = {}
      BY <2>1
    <3>2. ~IsCreate(X)
      BY <3>1 DEF IsCreate
    <3> QED
      BY <2>1, <3>1, <3>2 DEF WellFormed
  <2>2. CASE X = Rest(p)
    BY <1>1, <1>2, <1>4, <2>2, VsDrop
  <2>3. ASSUME NEW x \in Operation, name # "delete", x.op \in {"update", "save", "interrupt", "unpoint"},
               X = <<x>> \o Rest(p)
        PROVE  X \in Seq(Operation) /\ WellFormed(X) /\ ~IsCreate(X) /\ Head(X).op # "remove"
    <3>1. X \in Seq(Operation) /\ Head(X) = x
      BY <1>1, <2>3, VsReplace
    <3>2. WellFormed(X) /\ ~IsCreate(X)
      BY <1>1, <1>2, <2>3, VsSwap
    <3> QED
      BY <2>3, <3>1, <3>2
  <2>4. \/ X = <<>> \/ X = Rest(p)
        \/ \E x \in Operation : /\ name # "delete" /\ x.op \in {"update", "save", "interrupt", "unpoint"}
                               /\ X = <<x>> \o Rest(p)
    BY DEF GoesOn
  <2> QED
    BY <2>1, <2>2, <2>3, <2>4
<1>6. Turn(p) /\ running'[p].ops = X /\ running'[p].sid = IF X = <<>> THEN None ELSE running[p].sid
  BY <1>5, VsDo DEF VsInv
<1>7. KnownFrame(running'[p])
  BY <1>3, <1>6 DEF KnownFrame
<1>8. ASSUME p \in active, p \notin failed
      PROVE  Speaking(ops)
  BY <1>8 DEF VsInv, Streaming, ops
<1>9. ASSUME p \in active, p \notin failed
      PROVE  name \in StreamOps
  <2>1. Len(ops) \in Nat \ {0} /\ Head(ops) = ops[1]
    BY <1>1, VsTail
  <2>2. 1 \in 1..Len(ops)
    BY <2>1
  <2> QED
    BY <1>1, <1>8, <1>9, <2>1, <2>2 DEF Speaking
<1>10. ASSUME p \in active, p \notin failed, name # "close",
              X = Rest(p) \/ \E x \in Operation : x.op \in {"update", "save"} /\ X = <<x>> \o Rest(p)
       PROVE  Speaking(X)
  <2>1. Speaking(ops)
    BY <1>8, <1>10
  <2>2. CASE X = Rest(p)
    BY <1>1, <1>10, <2>1, <2>2, VsSpeakOn
  <2>3. CASE \E x \in Operation : x.op \in {"update", "save"} /\ X = <<x>> \o Rest(p)
    <3>1. PICK x \in Operation : x.op \in {"update", "save"} /\ X = <<x>> \o Rest(p)
      BY <2>3
    <3>2. x.op \in StreamOps
      BY <3>1 DEF StreamOps
    <3> QED
      BY <1>1, <1>10, <2>1, <3>1, <3>2, VsSpeakOn
  <2> QED
    BY <1>10, <2>2, <2>3
<1> QED
  BY <1>1, <1>3, <1>5, <1>6, <1>7, <1>9, <1>10 DEF Went

\* The type invariant after a step that changes one program.
LEMMA VsTypes ==
    ASSUME VsInv, NEW p \in Procs, Turn(p), UNCHANGED used,
           sessions' \in [SessionIds -> Session \cup {None}], members' \subseteq SessionIds,
           pointer' \in SessionIds \cup {None}, active' \subseteq active,
           stopped' \subseteq stopped \cup active, failed' \subseteq failed \cup {p}, excused' \in BOOLEAN
    PROVE  VsTyped'
  BY DEF VsInv, VsTyped, Turn

\* Only the program and the streams change.
LEMMA VsQuietRedis ==
    ASSUME VsInv, NEW p \in Procs, NEW name, At(p, name),
           name \notin CreateOps \cup {"pointer", "delete"}, NEW X, Do(p, X), GoesOn(p, name, X),
           UNCHANGED <<redis, used, excused>>, active' \subseteq active,
           stopped' \subseteq stopped \cup active, active' \cap stopped' = {},
           failed \subseteq failed', failed' \subseteq failed \cup {p},
           p \in active' /\ p \notin failed' /\ name \in StreamOps
               => /\ name # "close"
                  /\ X = Rest(p) \/ \E x \in Operation : x.op \in {"update", "save"} /\ X = <<x>> \o Rest(p)
    PROVE  VsInv'
<1>1. /\ X \in Seq(Operation) /\ Turn(p) /\ running'[p].ops = X
      /\ WellFormed(running'[p].ops) /\ ~IsCreate(running'[p].ops) /\ KnownFrame(running'[p])
      /\ X # <<>> => Head(X).op # "remove"
      /\ p \in active /\ p \notin failed => name \in StreamOps
      /\ p \in active /\ p \notin failed /\ name # "close"
            /\ (X = Rest(p) \/ \E x \in Operation : x.op \in {"update", "save"} /\ X = <<x>> \o Rest(p))
            => Speaking(running'[p].ops)
  <2>1. Went(p, name, X)
    BY VsGoesOn
  <2> QED
    BY <2>1 DEF Went
<1>2. sessions' = sessions /\ members' = members /\ pointer' = pointer /\ used' = used /\ excused' = excused
  BY DEF redis
<1>3. VsTyped /\ Known
  BY DEF VsInv
<1>4. VsTyped'
  BY <1>1, <1>2, <1>3, VsTypes DEF VsTyped
<1>5. StreamsKept(p)
  BY <1>1 DEF StreamsKept
<1>6. Live' = Live
  BY <1>2 DEF Live
<1>7. Live' \subseteq Given /\ members' \subseteq Given /\ pointer' \in Given \cup {None}
  BY <1>2, <1>3, <1>6 DEF Known
<1>8. excused' \/ Keeps(p)
  <2> SUFFICES ASSUME ~excused PROVE Keeps(p)
    BY <1>2
  <2>1. ~At(p, "add")
    BY DEF At, CreateOps
  <2> QED
    BY <1>1, <1>2, <1>6, <2>1 DEF Keeps
<1> QED
  BY <1>1, <1>2, <1>4, <1>5, <1>7, <1>8, VsQuiet

-----------------------------------------------------------------------------
(* Steps that create nothing *)

\* A program that has asked for its session has one.
LEMMA VsOwn ==
    ASSUME VsInv, NEW p \in Procs, NEW name, At(p, name),
           name \notin {"pointer", "members", "list", "limit", "new"}
    PROVE  /\ running[p].sid \in SessionIds /\ running[p].sid \in Given /\ running[p].sid # None
           /\ Own(p) \in Session \cup {None}
<1>1. /\ running[p].ops # <<>> /\ Head(running[p].ops).op = name
      /\ running[p].sid \in SessionIds \cup {None}
  BY VsNextOp DEF VsInv
<1>2. /\ running[p].sid \in Given \cup {None}
      /\ running[p].sid = None /\ running[p].ops # <<>>
            => Head(running[p].ops).op \in {"pointer", "members", "list", "limit", "new"}
  BY DEF VsInv, Known
<1>3. running[p].sid # None /\ running[p].sid \in SessionIds
  BY <1>1, <1>2
<1> QED
  BY <1>2, <1>3 DEF VsInv, VsTyped, Own

\* What an update writes back is a session.
LEMMA VsUpdated ==
    ASSUME NEW s \in Session, NEW to \in Targets, ~Refused(s, to)
    PROVE  Save(Updated(s, to)) \in Operation /\ Save(Updated(s, to)).op = "save"
<1>1. Updated(s, to) \in Session
  <2>1. CASE to = "touch"
    BY <2>1 DEF Updated
  <2>2. CASE to = "ping"
    BY <2>2 DEF Updated, Session
  <2>3. CASE to \notin {"touch", "ping"}
    <3>1. to \in {"IDLE", "LISTENING", "THINKING", "RESPONDING", "INTERRUPTED"}
      BY <2>3 DEF Refused, validTransitions
    <3> QED
      BY <2>3, <3>1 DEF Updated, Session
  <2> QED
    BY <2>1, <2>2, <2>3
<1> QED
  BY <1>1 DEF Save, Operation

\* The operations that programs are made of.
LEMMA VsOps ==
    /\ \A name \in PlainNames : Op(name) \in Operation /\ Op(name).op = name
    /\ \A to \in Targets : Update(to) \in Operation /\ Update(to).op = "update"
  BY DEF Op, Update, Operation

\* The read half of an update: the copy it will write back is put next, or the
\* program goes on without one.
LEMMA VsLoad ==
    ASSUME VsInv, NEW p \in Procs, Load(p)
    PROVE  VsInv'
<1> DEFINE to == Head(running[p].ops).to
<1>0. PICK own \in getSession(p) : Do(p, AfterLoad(p, own, to))
  BY DEF Load
<1> DEFINE X == AfterLoad(p, own, to)
<1>1. At(p, "update") /\ Do(p, X) /\ UNCHANGED <<redis, active, used, ghosts>>
  BY <1>0 DEF Load
<1>2. to \in Targets
  <2>1. Head(running[p].ops) \in Operation /\ Head(running[p].ops).op = "update"
    BY <1>1, VsNextOp DEF VsInv
  <2> QED
    BY <2>1 DEF Operation, PlainNames
<1>3. own \in Session \cup {None}
  BY <1>0, <1>1, VsOwn DEF getSession
<1>4. X = Rest(p) \/ \E x \in Operation : x.op \in {"update", "save"} /\ X = <<x>> \o Rest(p)
  <2> HIDE DEF to
  <2>1. CASE own = None \/ Refused(own, to)
    BY <2>1 DEF AfterLoad
  <2>2. CASE ~(own = None \/ Refused(own, to))
    <3>1. X = <<Save(Updated(own, to))>> \o Rest(p)
      BY <2>2 DEF AfterLoad
    <3>2. Save(Updated(own, to)) \in Operation /\ Save(Updated(own, to)).op = "save"
      BY <1>2, <1>3, <2>2, VsUpdated
    <3> HIDE DEF X
    <3> QED
      BY <3>1, <3>2
  <2> QED
    BY <2>1, <2>2
<1> HIDE DEF X
<1>5. GoesOn(p, "update", X)
  BY <1>4 DEF GoesOn
<1>6. active' = active /\ stopped' = stopped /\ failed' = failed /\ excused' = excused
  BY <1>1 DEF ghosts
<1>7. active \cap stopped = {}
  BY DEF VsInv, Streaming
<1>8. "update" \notin CreateOps \cup {"pointer", "delete"}
  BY DEF CreateOps
<1> QED
  BY <1>1, <1>4, <1>5, <1>6, <1>7, <1>8, VsQuietRedis

\* How the handlers' own steps go on.
Continues(p, X) ==
    \/ X = <<>> \/ X = Rest(p) \/ X = <<Op("interrupt")>> \o Rest(p) \/ X = <<Op("unpoint")>> \o Rest(p)
    \/ \E to \in Targets : X = <<Update(to)>> \o Rest(p)

\* The handlers' own steps, which a stream never takes.
LEMMA VsHandlerStep ==
    ASSUME VsInv, NEW p \in Procs, NEW name, At(p, name),
           name \notin CreateOps \cup StreamOps \cup {"pointer", "delete"}, NEW X, Do(p, X),
           Continues(p, X),
           UNCHANGED <<redis, used, failed, excused>>, active' \subseteq active,
           stopped' \subseteq stopped \cup active, active' \cap stopped' = {}
    PROVE  VsInv'
<1>1. GoesOn(p, name, X)
  <2>1. Op("interrupt") \in Operation /\ Op("unpoint") \in Operation
        /\ Op("interrupt").op = "interrupt" /\ Op("unpoint").op = "unpoint"
    BY VsOps DEF PlainNames
  <2>2. CASE X = <<Op("interrupt")>> \o Rest(p)
    BY <2>1, <2>2 DEF GoesOn
  <2>3. CASE X = <<Op("unpoint")>> \o Rest(p)
    BY <2>1, <2>3 DEF GoesOn
  <2>4. ASSUME NEW to \in Targets, X = <<Update(to)>> \o Rest(p) PROVE GoesOn(p, name, X)
    <3>1. Update(to) \in Operation /\ Update(to).op = "update"
      BY VsOps
    <3> QED
      BY <2>4, <3>1 DEF GoesOn
  <2> QED
    BY <2>2, <2>3, <2>4 DEF GoesOn, Continues
<1>2. name \notin CreateOps \cup {"pointer", "delete"}
  OBVIOUS
<1>3. UNCHANGED <<redis, used, excused>> /\ failed \subseteq failed' /\ failed' \subseteq failed \cup {p}
  OBVIOUS
<1> QED
  BY <1>1, <1>2, <1>3, VsQuietRedis

\* Interrupting, resuming, requiring a session, clearing the pointer, stopping.
LEMMA VsHandlerSteps ==
    ASSUME VsInv, NEW p \in Procs,
           \/ interruptSession(p) \/ resumeSession(p) \/ RequireSession(p)
           \/ clearUserActiveSessionIfMatches(p) \/ StopStreams(p)
    PROVE  VsInv'
<1>0. /\ "INTERRUPTED" \in Targets /\ "LISTENING" \in Targets /\ "IDLE" \in Targets
      /\ \A n \in {"interrupt", "resume", "require", "unpoint if mine", "stop"} :
            n \notin CreateOps \cup StreamOps \cup {"pointer", "delete"}
      /\ active \cap stopped = {}
  BY DEF CreateOps, StreamOps, Targets, VsInv, Streaming
<1>1. ASSUME NEW n \in {"interrupt", "resume", "require", "unpoint if mine"}, At(p, n), NEW X, Do(p, X),
             Continues(p, X),
             UNCHANGED <<redis, active, used, ghosts>>
      PROVE  VsInv'
  <2>1. /\ UNCHANGED <<redis, used, failed, excused>> /\ active' \subseteq active
        /\ stopped' \subseteq stopped \cup active /\ active' \cap stopped' = {}
    BY <1>0, <1>1 DEF ghosts
  <2>2. n \notin CreateOps \cup StreamOps \cup {"pointer", "delete"}
    BY <1>0, <1>1
  <2> QED
    BY <1>1, <2>1, <2>2, VsHandlerStep
<1>2. CASE interruptSession(p)
  <2>1. PICK X : /\ Do(p, X) /\ Continues(p, X)
                 /\ At(p, "interrupt") /\ UNCHANGED <<redis, active, used, ghosts>>
    <3>1. PICK own \in getSession(p) :
              Do(p, IF own # None /\ own.st \in {"THINKING", "RESPONDING"}
                    THEN <<Update("INTERRUPTED")>> \o Rest(p) ELSE Rest(p))
      BY <1>2 DEF interruptSession
    <3> QED
      BY <1>0, <1>2, <3>1 DEF interruptSession, Continues
  <2> QED
    BY <2>1, <1>1
<1>3. CASE resumeSession(p)
  <2>1. PICK X : /\ Do(p, X) /\ Continues(p, X)
                 /\ At(p, "resume") /\ UNCHANGED <<redis, active, used, ghosts>>
    <3>0. PICK own \in getSession(p) :
              Do(p, IF own = None THEN Rest(p)
                    ELSE <<Update(IF own.st = "INTERRUPTED" THEN "LISTENING" ELSE "IDLE")>> \o Rest(p))
      BY <1>3 DEF resumeSession
    <3>1. CASE own = None
      BY <1>3, <3>0, <3>1 DEF resumeSession, Continues
    <3>2. CASE own # None /\ own.st = "INTERRUPTED"
      BY <1>0, <1>3, <3>0, <3>2 DEF resumeSession, Continues
    <3>3. CASE own # None /\ own.st # "INTERRUPTED"
      BY <1>0, <1>3, <3>0, <3>3 DEF resumeSession, Continues
    <3> QED
      BY <3>1, <3>2, <3>3
  <2> QED
    BY <2>1, <1>1
<1>4. CASE RequireSession(p)
  <2>1. PICK X : /\ Do(p, X) /\ Continues(p, X)
                 /\ At(p, "require") /\ UNCHANGED <<redis, active, used, ghosts>>
    <3>1. PICK own \in getSession(p) : Do(p, IF own = None THEN <<>> ELSE Rest(p))
      BY <1>4 DEF RequireSession
    <3> QED
      BY <1>4, <3>1 DEF RequireSession, Continues
  <2> QED
    BY <2>1, <1>1
<1>5. CASE clearUserActiveSessionIfMatches(p)
  <2>1. PICK X : /\ Do(p, X) /\ Continues(p, X)
                 /\ At(p, "unpoint if mine") /\ UNCHANGED <<redis, active, used, ghosts>>
    BY <1>5 DEF clearUserActiveSessionIfMatches, Continues
  <2> QED
    BY <2>1, <1>1
<1>6. CASE StopStreams(p)
  <2>1. PICK X : /\ Do(p, X) /\ Continues(p, X)
                 /\ At(p, "stop") /\ UNCHANGED <<redis, used, failed, excused>>
                 /\ active' \subseteq active /\ stopped' \subseteq stopped \cup active
                 /\ active' \cap stopped' = {}
    <3>0. At(p, "stop") /\ UNCHANGED <<redis, used, failed, excused>>
      BY <1>6 DEF StopStreams
    <3>1. CASE Do(p, Rest(p)) /\ UNCHANGED <<active, stopped>>
      BY <1>0, <3>0, <3>1 DEF Continues
    <3>2. CASE ~(Do(p, Rest(p)) /\ UNCHANGED <<active, stopped>>)
      <4>1. PICK which : /\ which \subseteq active
                         /\ active' = active \ which /\ stopped' = stopped \cup which
                         /\ Do(p, <<Op("interrupt")>> \o Rest(p))
        BY <1>6, <3>2 DEF StopStreams
      <4>2. At(p, "stop") /\ UNCHANGED <<redis, used, failed, excused>>
        BY <3>0
      <4>3. active' \subseteq active /\ stopped' \subseteq stopped \cup active /\ active' \cap stopped' = {}
        BY <1>0, <4>1
      <4> QED
        BY <4>1, <4>2, <4>3 DEF Continues
    <3> QED
      BY <3>1, <3>2
  <2> QED
    BY <1>0, <2>1, VsHandlerStep
<1> QED
  BY <1>2, <1>3, <1>4, <1>5, <1>6

\* The steps of an answer.
LEMMA VsStreamSteps ==
    ASSUME VsInv, NEW p \in Procs,
           CheckSpeaking(p) \/ (AskLlm(p) /\ ~ServerRestarts) \/ SendChunk(p) \/ CloseStream(p)
    PROVE  VsInv'
<1>0. /\ active \cap stopped = {}
      /\ \A n \in {"speaking", "ask", "chunk", "close"} : n \notin CreateOps \cup {"pointer", "delete"}
  BY DEF CreateOps, VsInv, Streaming
<1>1. ASSUME NEW n \in {"speaking", "ask", "chunk", "close"}, At(p, n), NEW X, Do(p, X),
             X = <<>> \/ X = Rest(p), active' \subseteq active, failed \subseteq failed',
             failed' \subseteq failed \cup {p}, UNCHANGED <<redis, used, stopped, excused>>,
             p \in active' /\ p \notin failed' => n # "close" /\ X = Rest(p)
      PROVE  VsInv'
  <2>1. GoesOn(p, n, X)
    BY <1>1 DEF GoesOn
  <2>2. stopped' \subseteq stopped \cup active /\ active' \cap stopped' = {}
    BY <1>0, <1>1
  <2>3. n \notin CreateOps \cup {"pointer", "delete"}
    BY <1>0, <1>1
  <2> QED
    BY <1>1, <2>1, <2>2, <2>3, VsQuietRedis
<1>2. CASE CheckSpeaking(p)
  <2>0. PICK own \in getSession(p) :
            /\ Do(p, IF p \in active /\ own # None THEN Rest(p) ELSE <<>>)
            /\ failed' = IF own = None THEN failed \cup {p} ELSE failed
    BY <1>2 DEF CheckSpeaking
  <2>1. PICK X : /\ Do(p, X) /\ X = (IF p \in active /\ own # None THEN Rest(p) ELSE <<>>)
                 /\ At(p, "speaking") /\ active' = active /\ UNCHANGED <<redis, used, stopped, excused>>
                 /\ failed' = IF own = None THEN failed \cup {p} ELSE failed
    BY <1>2, <2>0 DEF CheckSpeaking
  <2>2. failed \subseteq failed' /\ failed' \subseteq failed \cup {p} /\ (X = <<>> \/ X = Rest(p))
    BY <2>1
  <2>3. p \in active' /\ p \notin failed' => "speaking" # "close" /\ X = Rest(p)
    BY <2>1
  <2> QED
    BY <2>1, <2>2, <2>3, <1>1
<1>3. CASE AskLlm(p) /\ ~ServerRestarts
  <2>1. PICK X : /\ Do(p, X) /\ X = Rest(p) /\ failed' = failed
                 /\ At(p, "ask") /\ active' = active /\ UNCHANGED <<redis, used, stopped, excused>>
    BY <1>3 DEF AskLlm, ghosts
  <2>2. failed \subseteq failed' /\ failed' \subseteq failed \cup {p} /\ (X = <<>> \/ X = Rest(p))
    BY <2>1
  <2>3. p \in active' /\ p \notin failed' => "ask" # "close" /\ X = Rest(p)
    BY <2>1
  <2> QED
    BY <2>1, <2>2, <2>3, <1>1
<1>4. CASE SendChunk(p)
  <2>1. PICK X : /\ Do(p, X) /\ X = (IF p \in active THEN Rest(p) ELSE <<>>)
                 /\ At(p, "chunk") /\ active' = active /\ failed' = failed
                 /\ UNCHANGED <<redis, used, stopped, excused>>
    BY <1>4 DEF SendChunk, MaySpeak, ghosts
  <2>2. failed \subseteq failed' /\ failed' \subseteq failed \cup {p} /\ (X = <<>> \/ X = Rest(p))
    BY <2>1
  <2>3. p \in active' /\ p \notin failed' => "chunk" # "close" /\ X = Rest(p)
    BY <2>1
  <2> QED
    BY <2>1, <2>2, <2>3, <1>1
<1>5. CASE CloseStream(p)
  <2>1. PICK X : /\ Do(p, X) /\ X = <<>>
                 /\ At(p, "close") /\ active' = active \ {p} /\ failed' = failed
                 /\ UNCHANGED <<redis, used, stopped, excused>>
    BY <1>5 DEF CloseStream, ghosts
  <2>2. failed \subseteq failed' /\ failed' \subseteq failed \cup {p} /\ (X = <<>> \/ X = Rest(p))
    BY <2>1
  <2>3. active' \subseteq active /\ (p \in active' /\ p \notin failed' => "close" # "close" /\ X = Rest(p))
    BY <2>1
  <2> QED
    BY <2>1, <2>2, <2>3, <1>1
<1> QED
  BY <1>2, <1>3, <1>4, <1>5

\* A program reads the user's pointer, and goes on with that session.
LEMMA VsReadPointer ==
    ASSUME VsInv, NEW p \in Procs, ReadPointer(p)
    PROVE  VsInv'
<1>1. /\ At(p, "pointer") /\ UNCHANGED <<redis, active, used, ghosts>>
      /\ running' = [running EXCEPT ![p] = IF pointer = None THEN AtRest
                                           ELSE [ops |-> Rest(p), sid |-> pointer]]
  BY DEF ReadPointer
<1> DEFINE ops == running[p].ops
<1> DEFINE X == IF pointer = None THEN <<>> ELSE Rest(p)
<1>2. /\ ops \in Seq(Operation) /\ ops # <<>> /\ Head(ops).op = "pointer"
      /\ Rest(p) = Tail(ops) /\ Rest(p) \in Seq(Operation)
  BY <1>1, VsNextOp DEF VsInv
<1>3. VsTyped /\ Known /\ WellFormed(ops) /\ Streaming
  BY DEF VsInv, Formed
<1>4. /\ WellFormed(Rest(p)) /\ ~IsCreate(Rest(p))
      /\ Rest(p) # <<>> => Head(Rest(p)).op # "remove"
  <2>1. ~IsCreate(ops)
    BY <1>2, <1>3, VsCreateHead DEF CreateOps
  <2> QED
    BY <1>2, <1>3, <2>1, VsDrop
<1>5. X \in Seq(Operation) /\ pointer \in SessionIds \cup {None}
      /\ running' = [running EXCEPT ![p] = [ops |-> X, sid |-> pointer]]
  <2>1. pointer \in SessionIds \cup {None}
    BY <1>3 DEF VsTyped
  <2>2. CASE pointer = None
    BY <1>1, <2>1, <2>2 DEF AtRest
  <2>3. CASE pointer # None
    BY <1>1, <1>2, <2>1, <2>3
  <2> QED
    BY <2>2, <2>3
<1>6. Turn(p) /\ running'[p].ops = X /\ running'[p].sid = pointer
  <2> HIDE DEF X
  <2> QED
    BY <1>3, <1>5, VsBecome
<1>7. WellFormed(X) /\ ~IsCreate(X)
  <2>1. CASE pointer = None
    <3>1. X = <<>> /\ Len(X) = 0 /\ DOMAIN X = {}
      BY <2>1
    <3> HIDE DEF X
    <3>2. ~IsCreate(X)
      BY <3>1 DEF IsCreate
    <3> QED
      BY <3>1, <3>2 DEF WellFormed
  <2>2. CASE pointer # None
    BY <1>4, <2>2
  <2> QED
    BY <2>1, <2>2
<1>8. /\ sessions' = sessions /\ members' = members /\ pointer' = pointer /\ used' = used
      /\ active' = active /\ stopped' = stopped /\ failed' = failed /\ excused' = excused
  BY <1>1 DEF redis, ghosts
<1>9. VsTyped'
  BY <1>3, <1>6, <1>8, VsTypes DEF VsTyped
<1>10. StreamsKept(p)
  <2>1. p \in active => p \in failed
    <3> SUFFICES ASSUME p \in active, p \notin failed PROVE FALSE
      OBVIOUS
    <3>1. Speaking(ops)
      BY <1>3 DEF Streaming
    <3>2. Len(ops) \in Nat \ {0} /\ Head(ops) = ops[1]
      BY <1>2, VsTail
    <3>3. 1 \in 1..Len(ops)
      BY <3>2
    <3>4. "pointer" \in StreamOps
      BY <1>2, <3>1, <3>2, <3>3 DEF Speaking
    <3> QED
      BY <3>4 DEF StreamOps
  <2> QED
    BY <1>3, <1>8, <2>1 DEF StreamsKept, Streaming
<1>11. /\ Live' = Live /\ Live' \subseteq Given /\ members' \subseteq Given /\ pointer' \in Given \cup {None}
       /\ used'.sessions = used.sessions
  BY <1>3, <1>8 DEF Known, Live
<1>12. KnownFrame(running'[p])
  BY <1>6, <1>8, <1>11 DEF KnownFrame
<1>13. excused' \/ Keeps(p)
  <2> SUFFICES ASSUME ~excused PROVE Keeps(p)
    BY <1>8
  <2>1. ~At(p, "add")
    BY <1>1 DEF At
  <2>2. running'[p].ops # <<>> => Head(running'[p].ops).op # "remove"
    BY <1>4, <1>6
  <2> QED
    BY <1>8, <1>11, <2>1, <2>2 DEF Keeps
<1> QED
  BY <1>6, <1>7, <1>9, <1>10, <1>11, <1>12, <1>13, VsQuiet

\* The ids given out are ids.
LEMMA VsGiven ==
    ASSUME VsTyped
    PROVE  Given \subseteq SessionIds
<1>1. used.sessions \in 0..MaxSessions /\ MaxSessions \in Nat
  BY ProcessesAssumption DEF VsTyped
<1> QED
  BY <1>1 DEF Given, SessionIds

\* What a step of a handler writes to Redis.
LEMMA VsWrite ==
    ASSUME VsInv, NEW p \in Procs, NEW name, At(p, name), name \notin CreateOps \cup {"pointer", "close"},
           Do(p, Rest(p)), UNCHANGED <<active, used, stopped, failed>>,
           sessions' \in [SessionIds -> Session \cup {None}], Live' \subseteq Given, members' \subseteq Given,
           pointer' \in Given \cup {None}, excused' \in BOOLEAN,
           excused' \/ (/\ ~excused /\ Live' \subseteq Live
                        /\ \A i \in SessionIds : sessions[i] = None => sessions'[i] = None
                        /\ \A i \in Live' : i \in members => i \in members'
                        /\ name = "delete" => sessions'[running[p].sid] = None)
    PROVE  VsInv'
<1>1. Went(p, name, Rest(p))
  BY VsGoesOn DEF GoesOn
<1>2. /\ Turn(p) /\ WellFormed(running'[p].ops) /\ ~IsCreate(running'[p].ops) /\ KnownFrame(running'[p])
      /\ running'[p].ops = Rest(p)
      /\ Rest(p) # <<>> => running'[p].sid = running[p].sid
      /\ Rest(p) # <<>> /\ Head(Rest(p)).op = "remove" => name = "delete"
      /\ p \in active /\ p \notin failed => Speaking(running'[p].ops)
  BY <1>1 DEF Went
<1>3. VsTyped /\ Streaming /\ Given \subseteq SessionIds
  BY VsGiven DEF VsInv
<1>4. VsTyped'
  BY <1>2, <1>3, VsTypes
<1>5. StreamsKept(p)
  BY <1>2, <1>3 DEF StreamsKept, Streaming
<1>6. excused' \/ Keeps(p)
  <2> SUFFICES ASSUME ~excused' PROVE Keeps(p)
    OBVIOUS
  <2>1. ~At(p, "add")
    BY DEF At, CreateOps
  <2>2. /\ running'[p].ops # <<>> /\ Head(running'[p].ops).op = "remove"
        => sessions'[running'[p].sid] = None
    BY <1>2
  <2> QED
    BY <2>1, <2>2 DEF Keeps
<1> QED
  BY <1>2, <1>4, <1>5, <1>6, VsQuiet

\* Saving, deleting and pointing.
LEMMA VsWrites ==
    ASSUME VsInv, NEW p \in Procs,
           \/ saveSession(p) \/ setUserActiveSession(p) \/ deleteUserActiveSession(p)
           \/ DeleteSession(p) \/ removeUserSession(p)
    PROVE  VsInv'
<1>0. /\ VsTyped /\ Known /\ excused \in BOOLEAN
      /\ sessions \in [SessionIds -> Session \cup {None}] /\ Live \subseteq Given
      /\ members \subseteq Given /\ pointer \in Given \cup {None}
  BY DEF VsInv, Known, VsTyped
<1>n. \A n \in {"save", "point", "unpoint", "delete", "remove"} :
         /\ n \notin CreateOps \cup {"pointer", "close"}
         /\ n \notin {"pointer", "members", "list", "limit", "new"}
  BY DEF CreateOps
<1>1. CASE saveSession(p)
  <2>1. /\ At(p, "save") /\ Do(p, Rest(p)) /\ UNCHANGED <<active, used, stopped, failed>>
        /\ members' = members /\ pointer' = pointer
        /\ sessions' = [sessions EXCEPT ![running[p].sid] = Head(running[p].ops).s]
        /\ excused' = (excused \/ Own(p) = None)
    BY <1>1 DEF saveSession
  <2>2. Head(running[p].ops).s \in Session
    <3>1. Head(running[p].ops) \in Operation /\ Head(running[p].ops).op = "save"
      BY <1>0, <2>1, VsNextOp
    <3> QED
      BY <3>1 DEF Operation, PlainNames
  <2>3. running[p].sid \in SessionIds /\ running[p].sid \in Given
    BY <1>n, <2>1, VsOwn
  <2>4. sessions' \in [SessionIds -> Session \cup {None}]
    BY <1>0, <2>1, <2>2
  <2>5. \A i \in SessionIds : i # running[p].sid => sessions'[i] = sessions[i]
    BY <1>0, <2>1
  <2>6. Live' \subseteq Live \cup {running[p].sid}
    BY <2>5 DEF Live
  <2>7. excused' \/ (/\ ~excused /\ Live' \subseteq Live
                     /\ \A i \in SessionIds : sessions[i] = None => sessions'[i] = None
                     /\ \A i \in Live' : i \in members => i \in members'
                     /\ "save" = "delete" => sessions'[running[p].sid] = None)
    <3> SUFFICES ASSUME ~excused' PROVE ~excused /\ Own(p) # None
                    /\ running[p].sid \in Live
      BY <2>1, <2>5, <2>6 DEF Own
    <3> QED
      BY <2>1, <2>3 DEF Own, Live
  <2>8. Live' \subseteq Given /\ members' \subseteq Given /\ pointer' \in Given \cup {None} /\ excused' \in BOOLEAN
    BY <1>0, <2>1, <2>3, <2>6
  <2> QED
    BY <1>n, <2>1, <2>4, <2>7, <2>8, VsWrite
<1>2. ASSUME NEW n \in {"point", "unpoint"}, At(p, n), Do(p, Rest(p)),
             pointer' \in {running[p].sid, None},
             UNCHANGED <<sessions, members, active, used, ghosts>>
      PROVE  VsInv'
  <2>1. running[p].sid \in Given
    BY <1>2, <1>n, VsOwn
  <2>2. UNCHANGED <<active, used, stopped, failed>> /\ excused' = excused
    BY <1>2 DEF ghosts
  <2>3. Live' = Live
    BY <1>2 DEF Live
  <2>4. /\ sessions' \in [SessionIds -> Session \cup {None}] /\ Live' \subseteq Given
        /\ members' \subseteq Given /\ pointer' \in Given \cup {None} /\ excused' \in BOOLEAN
    BY <1>0, <1>2, <2>1, <2>2, <2>3
  <2>5. excused' \/ (/\ ~excused /\ Live' \subseteq Live
                     /\ \A i \in SessionIds : sessions[i] = None => sessions'[i] = None
                     /\ \A i \in Live' : i \in members => i \in members'
                     /\ n = "delete" => sessions'[running[p].sid] = None)
    BY <1>2, <2>2, <2>3
  <2>6. n \notin CreateOps \cup {"pointer", "close"}
    BY <1>n, <1>2
  <2> QED
    BY <1>2, <2>2, <2>4, <2>5, <2>6, VsWrite
<1>3. CASE setUserActiveSession(p)
  BY <1>2, <1>3 DEF setUserActiveSession
<1>4. CASE deleteUserActiveSession(p)
  BY <1>2, <1>4 DEF deleteUserActiveSession
<1>5. CASE DeleteSession(p)
  <2>1. /\ At(p, "delete") /\ Do(p, Rest(p)) /\ UNCHANGED <<active, used, stopped, failed>>
        /\ members' = members /\ pointer' = pointer /\ excused' = excused
        /\ sessions' = [sessions EXCEPT ![running[p].sid] = None]
    BY <1>5 DEF DeleteSession, ghosts
  <2>3. running[p].sid \in SessionIds
    BY <1>n, <2>1, VsOwn
  <2>4. sessions' \in [SessionIds -> Session \cup {None}] /\ sessions'[running[p].sid] = None
    BY <1>0, <2>1, <2>3
  <2>5. \A i \in SessionIds : i # running[p].sid => sessions'[i] = sessions[i]
    BY <1>0, <2>1
  <2>6. Live' \subseteq Live
    BY <2>4, <2>5 DEF Live
  <2>7. excused' \/ (/\ ~excused /\ Live' \subseteq Live
                     /\ \A i \in SessionIds : sessions[i] = None => sessions'[i] = None
                     /\ \A i \in Live' : i \in members => i \in members'
                     /\ "delete" = "delete" => sessions'[running[p].sid] = None)
    BY <2>1, <2>4, <2>5, <2>6
  <2>8. Live' \subseteq Given /\ members' \subseteq Given /\ pointer' \in Given \cup {None} /\ excused' \in BOOLEAN
    BY <1>0, <2>1, <2>6
  <2> QED
    BY <1>n, <2>1, <2>4, <2>7, <2>8, VsWrite
<1>6. CASE removeUserSession(p)
  <2>1. /\ At(p, "remove") /\ Do(p, Rest(p)) /\ UNCHANGED <<active, used, stopped, failed>>
        /\ members' = members \ {running[p].sid} /\ pointer' = pointer /\ excused' = excused
        /\ sessions' = sessions
    BY <1>6 DEF removeUserSession, ghosts
  <2>2. Live' = Live
    BY <2>1 DEF Live
  <2>3. running[p].sid # None
    BY <1>n, <2>1, VsOwn
  <2>4. ~excused => running[p].sid \notin Live
    BY <2>1, <2>3 DEF VsInv, Alone, Live
  <2>7. excused' \/ (/\ ~excused /\ Live' \subseteq Live
                     /\ \A i \in SessionIds : sessions[i] = None => sessions'[i] = None
                     /\ \A i \in Live' : i \in members => i \in members'
                     /\ "remove" = "delete" => sessions'[running[p].sid] = None)
    BY <2>1, <2>2, <2>4
  <2>8. /\ sessions' \in [SessionIds -> Session \cup {None}]
        /\ Live' \subseteq Given /\ members' \subseteq Given /\ pointer' \in Given \cup {None} /\ excused' \in BOOLEAN
    BY <1>0, <2>1, <2>2
  <2> QED
    BY <1>n, <2>1, <2>7, <2>8, VsWrite
<1> QED
  BY <1>1, <1>3, <1>4, <1>5, <1>6

-----------------------------------------------------------------------------
(* Creations *)

\* Who has such an operation next creates, and is at the stage it says.
LEMMA VsStage ==
    ASSUME VsInv, NEW p \in Procs, NEW name \in CreateOps, At(p, name)
    PROVE  LET ops == running[p].ops IN
           /\ ops \in Seq(Operation) /\ ops # <<>> /\ Head(ops).op = name /\ Head(ops) \in Operation
           /\ Rest(p) = Tail(ops) /\ Rest(p) \in Seq(Operation)
           /\ IsCreate(ops) /\ WellFormed(ops) /\ p \notin Streams
           /\ p \in active => p \in failed
           /\ Len(ops) \in Nat /\ 3 <= Len(ops) /\ Len(ops) <= 8
           /\ name = "members" => Len(ops) = 8 \/ Len(ops) = 6
           /\ name = "list" => Len(ops) = 7
           /\ name = "limit" => Len(ops) = 5
           /\ name = "new" => Len(ops) = 4
           /\ name = "add" => Len(ops) = 3
<1> DEFINE ops == running[p].ops
<1>1. /\ ops \in Seq(Operation) /\ ops # <<>> /\ Head(ops).op = name /\ Head(ops) \in Operation
      /\ Rest(p) = Tail(ops) /\ Rest(p) \in Seq(Operation)
  BY VsNextOp DEF VsInv
<1>2. WellFormed(ops) /\ (p \in active /\ p \notin failed => Speaking(ops))
  BY DEF VsInv, Formed, Streaming
<1>3. IsCreate(ops) => p \notin Streams
  BY DEF VsInv, Formed
<1> HIDE DEF ops
<1>4. Len(ops) \in Nat \ {0} /\ Head(ops) = ops[1] /\ DOMAIN ops = 1..Len(ops)
  BY <1>1, VsTail
<1>5. 1 \in 1..Len(ops)
  BY <1>4
<1>6. IsCreate(ops)
  BY <1>1, <1>4, <1>5 DEF IsCreate
<1>7. 3 <= Len(ops) /\ Len(ops) <= 8 /\ name = CreateNames[9 - Len(ops)]
  BY <1>1, <1>2, <1>6, VsCreateHead
<1>8. p \in active => p \in failed
  <2> SUFFICES ASSUME p \in active, p \notin failed PROVE FALSE
    OBVIOUS
  <2>1. name \in StreamOps
    BY <1>1, <1>2, <1>4, <1>5 DEF Speaking
  <2> QED
    BY <2>1 DEF StreamOps, CreateOps
<1>9. \E j \in 1..6 : Len(ops) = 9 - j /\ name = CreateNames[j]
  <2>1. 9 - Len(ops) \in 1..6 /\ Len(ops) = 9 - (9 - Len(ops))
    BY <1>4, <1>7
  <2> QED
    BY <1>7, <2>1
<1>10. /\ CreateNames[1] = "members" /\ CreateNames[2] = "list" /\ CreateNames[3] = "members"
       /\ CreateNames[4] = "limit" /\ CreateNames[5] = "new" /\ CreateNames[6] = "add"
  BY DEF CreateNames
<1>11. /\ name = "members" => Len(ops) = 8 \/ Len(ops) = 6
       /\ name = "list" => Len(ops) = 7
       /\ name = "limit" => Len(ops) = 5
       /\ name = "new" => Len(ops) = 4
       /\ name = "add" => Len(ops) = 3
  BY <1>9, <1>10
<1> QED
  BY <1>1, <1>2, <1>3, <1>4, <1>6, <1>7, <1>8, <1>11 DEF ops

\* The next stage of a creation.
LEMMA VsNextStage ==
    ASSUME NEW ops \in Seq(Operation), WellFormed(ops), IsCreate(ops), 4 <= Len(ops)
    PROVE  /\ Tail(ops) \in Seq(Operation) /\ Tail(ops) # <<>> /\ Len(Tail(ops)) = Len(ops) - 1
           /\ Head(Tail(ops)).op = CreateNames[10 - Len(ops)] /\ Head(Tail(ops)).op \in CreateOps
           /\ IsCreate(Tail(ops)) /\ WellFormed(Tail(ops))
<1>1. ops # <<>> /\ Len(ops) \in Nat /\ Len(ops) <= 8
  BY VsCreateHead, LenProperties
<1>2. /\ Tail(ops) \in Seq(Operation) /\ Len(Tail(ops)) = Len(ops) - 1
      /\ \A k \in 1..(Len(ops) - 1) : Tail(ops)[k] = ops[k + 1]
      /\ DOMAIN Tail(ops) = 1..(Len(ops) - 1)
  BY <1>1, VsTail
<1>3. Len(Tail(ops)) # 0 /\ 1 \in 1..(Len(ops) - 1)
  BY <1>1, <1>2
<1>4. Tail(ops) # <<>>
  BY <1>2, <1>3, EmptySeq
<1>5. Head(Tail(ops)) = ops[2]
  <2>1. Head(Tail(ops)) = Tail(ops)[1]
    BY <1>2, <1>4, VsTail
  <2>2. Tail(ops)[1] = ops[1 + 1] /\ 1 + 1 = 2
    BY <1>2, <1>3
  <2> QED
    BY <2>1, <2>2
<1>6. ops[2].op = CreateNames[10 - Len(ops)]
  <2>1. \A k \in 1..Len(ops) : ops[k].op = CreateNames[8 - Len(ops) + k]
    BY DEF WellFormed
  <2>2. 2 \in 1..Len(ops) /\ 8 - Len(ops) + 2 = 10 - Len(ops)
    BY <1>1
  <2> QED
    BY <2>1, <2>2
<1>7. CreateNames[10 - Len(ops)] \in CreateOps
  <2>1. 10 - Len(ops) \in 2..6
    BY <1>1
  <2>2. \A j \in 2..6 : CreateNames[j] \in CreateOps
    BY DEF CreateNames, CreateOps
  <2> QED
    BY <2>1, <2>2
<1>8. IsCreate(Tail(ops))
  <2>1. Tail(ops)[1].op \in CreateOps /\ 1 \in DOMAIN Tail(ops)
    BY <1>2, <1>3, <1>5, <1>6, <1>7, <1>4, VsTail
  <2> QED
    BY <2>1 DEF IsCreate
<1> QED
  BY <1>1, <1>2, <1>4, <1>5, <1>6, <1>7, <1>8, VsDrop

\* The well-formedness of a program depends on the names of its operations.
LEMMA VsSameNames ==
    ASSUME NEW ops \in Seq(Operation), NEW new \in Seq(Operation), Len(new) = Len(ops),
           \A k \in 1..Len(ops) : new[k].op = ops[k].op, WellFormed(ops)
    PROVE  WellFormed(new) /\ (IsCreate(new) <=> IsCreate(ops))
<1>1. DOMAIN ops = 1..Len(ops) /\ DOMAIN new = 1..Len(ops) /\ Len(ops) \in Nat
  BY LenProperties
<1>2. IsCreate(new) <=> IsCreate(ops)
  BY <1>1 DEF IsCreate
<1>3. ASSUME NEW k \in 2..Len(ops), new[k].op = "remove" PROVE new[k - 1].op = "delete"
  <2>1. k \in 1..Len(ops) /\ k - 1 \in 1..Len(ops)
    BY <1>1
  <2>2. ops[k - 1].op = "delete"
    BY <1>3, <2>1 DEF WellFormed
  <2> QED
    BY <2>1, <2>2
<1> QED
  BY <1>2, <1>3 DEF WellFormed

\* What a step of a creation must leave, if there is no excuse.
StageKept(p) ==
    /\ \A i \in Given : sessions[i] = None => sessions'[i] = None
    /\ \A i, j \in Live' : i = j
    /\ Head(running'[p].ops).op # "remove"
    /\ Head(running'[p].ops).op = "list" => Live' \subseteq Head(running'[p].ops).ids
    /\ 4 <= Len(running'[p].ops) /\ Len(running'[p].ops) <= 6 => Live' = {}
    /\ Head(running'[p].ops).op = "add" => Live' \subseteq {running'[p].sid}
    /\ Head(running'[p].ops).op # "add" => Live' \subseteq Live

\* A step after which the process goes on creating.
LEMMA VsCreates ==
    ASSUME VsInv, NEW p \in Procs, IsCreate(running[p].ops), ~At(p, "add"), VsTyped', Turn(p),
           UNCHANGED <<members, pointer, active, stopped, failed>>, Given \subseteq Given', Live' \subseteq Given',
           p \in active => p \in failed,
           running'[p].sid \in Given' \cup {None}, running'[p].ops # <<>>,
           Head(running'[p].ops).op \in CreateOps,
           running'[p].sid = None => Head(running'[p].ops).op # "add",
           \A k \in DOMAIN running'[p].ops :
               running'[p].ops[k].op \in {"list", "limit"} => running'[p].ops[k].ids \subseteq Given',
           WellFormed(running'[p].ops), ~excused' => ~excused /\ StageKept(p)
    PROVE  VsInv'
<1>0. VsTyped /\ Known /\ Formed /\ Streaming /\ Procs = Handlers \cup Streams
      /\ members' = members /\ pointer' = pointer /\ active' = active
      /\ stopped' = stopped /\ failed' = failed
  BY DEF VsInv, Procs
<1>f. \A q \in Procs : running'[q].ops \in Seq(Operation)
  BY DEF Turn, Frame
<1>1. Known'
  <2>1. ASSUME NEW q \in Procs
        PROVE  /\ running'[q].sid \in Given' \cup {None}
               /\ \A k \in DOMAIN running'[q].ops :
                     running'[q].ops[k].op \in {"list", "limit"} => running'[q].ops[k].ids \subseteq Given'
               /\ running'[q].sid = None /\ running'[q].ops # <<>>
                     => Head(running'[q].ops).op \in {"pointer", "members", "list", "limit", "new"}
    <3>1. CASE q = p
      BY <3>1 DEF CreateOps
    <3>2. CASE q # p
      <4>1. running'[q] = running[q]
        BY <3>2 DEF Turn
      <4> QED
        BY <1>0, <4>1 DEF Known
    <3> QED
      BY <3>1, <3>2
  <2>2. members' \subseteq Given' /\ pointer' \in Given' \cup {None}
    BY <1>0 DEF Known
  <2> QED
    BY <2>1, <2>2 DEF Known
<1>2. Formed'
  <2>1. p \notin Streams
    BY <1>0 DEF Formed
  <2>2. \A q \in Procs : WellFormed(running'[q].ops)
    BY <1>0 DEF Formed, Turn
  <2>3. \A s \in Streams : ~IsCreate(running'[s].ops)
    BY <1>0, <2>1 DEF Formed, Turn
  <2> QED
    BY <2>2, <2>3 DEF Formed, WellFormed, IsCreate
<1>3. Streaming'
  <2>1. StreamsKept(p)
    BY <1>0 DEF StreamsKept, Streaming
  <2> QED
    BY <1>0, <2>1, VsStreams
<1>4. ASSUME ~excused' PROVE Alone'
  <2>1. StageKept(p) /\ Alone
    BY <1>0, <1>4 DEF VsInv
  <2>2. ASSUME NEW q \in Procs, q # p
        PROVE  running'[q] = running[q] /\ ~IsCreate(running'[q].ops)
    BY <2>1, <2>2 DEF Turn, Alone
  <2>h. ASSUME NEW q \in Procs, running'[q].ops # <<>>, Head(running'[q].ops).op \in CreateOps
        PROVE  q = p
    <3>1. /\ Head(running'[q].ops) = running'[q].ops[1] /\ Len(running'[q].ops) \in Nat \ {0}
          /\ DOMAIN running'[q].ops = 1..Len(running'[q].ops)
      BY <1>f, <2>h, VsTail
    <3>2. 1 \in DOMAIN running'[q].ops
      BY <3>1
    <3>3. IsCreate(running'[q].ops)
      BY <2>h, <3>1, <3>2 DEF IsCreate
    <3> QED
      BY <2>2, <3>3
  <2>3. ASSUME NEW q \in Procs, NEW r \in Procs, IsCreate(running'[q].ops), IsCreate(running'[r].ops)
        PROVE  q = r
    BY <2>2, <2>3
  <2>4. ASSUME NEW q \in Procs, running'[q].ops # <<>>, Head(running'[q].ops).op = "remove",
               running'[q].sid # None
        PROVE  sessions'[running'[q].sid] = None
    <3>1. q # p
      BY <2>1, <2>4 DEF StageKept
    <3>2. running'[q] = running[q]
      BY <2>2, <3>1
    <3>3. sessions[running[q].sid] = None
      BY <2>1, <2>4, <3>2 DEF Alone, At
    <3>4. running[q].sid \in Given
      BY <1>0, <2>4, <3>2 DEF Known
    <3> QED
      BY <2>1, <3>2, <3>3, <3>4 DEF StageKept
  <2>5. ASSUME NEW q \in Procs, running'[q].ops # <<>>, Head(running'[q].ops).op = "list"
        PROVE  Live' \subseteq Head(running'[q].ops).ids
    <3>1. q = p
      BY <2>h, <2>5 DEF CreateOps
    <3> QED
      BY <2>1, <2>5, <3>1 DEF StageKept
  <2>6. ASSUME NEW q \in Procs, IsCreate(running'[q].ops), 4 <= Len(running'[q].ops), Len(running'[q].ops) <= 6
        PROVE  Live' = {}
    <3>1. q = p
      BY <2>2, <2>6
    <3> QED
      BY <2>1, <2>6, <3>1 DEF StageKept
  <2>7. ASSUME NEW q \in Procs, running'[q].ops # <<>>, Head(running'[q].ops).op = "add"
        PROVE  Live' \subseteq {running'[q].sid}
    <3>1. q = p
      BY <2>h, <2>7 DEF CreateOps
    <3> QED
      BY <2>1, <2>7, <3>1 DEF StageKept
  <2>8. ASSUME \A q \in Procs : ~(running'[q].ops # <<>> /\ Head(running'[q].ops).op = "add")
        PROVE  Live' \subseteq members'
    <3>2. Live' \subseteq Live
      BY <2>1, <2>8 DEF StageKept
    <3>3. \A q \in Procs : ~At(q, "add")
      BY <2>2, <2>8 DEF At
    <3> QED
      BY <1>0, <2>1, <3>2, <3>3 DEF Alone
  <2>9. \A i, j \in Live' : i = j
    BY <2>1 DEF StageKept
  <2> QED
    BY <2>3, <2>4, <2>5, <2>6, <2>7, <2>8, <2>9 DEF Alone, At, IsCreate
<1> QED
  BY <1>0, <1>1, <1>2, <1>3, <1>4 DEF VsInv

\* Nothing changes but the program, which creates nothing from now on.
LEMMA VsQuietProgram ==
    ASSUME VsInv, NEW p \in Procs, Turn(p), UNCHANGED <<redis, active, used, ghosts>>,
           p \in active => p \in failed, ~At(p, "add"), KnownFrame(running'[p]),
           WellFormed(running'[p].ops), ~IsCreate(running'[p].ops),
           running'[p].ops # <<>> => Head(running'[p].ops).op # "remove"
    PROVE  VsInv'
<1>1. /\ sessions' = sessions /\ members' = members /\ pointer' = pointer /\ used' = used
      /\ active' = active /\ stopped' = stopped /\ failed' = failed /\ excused' = excused
  BY DEF redis, ghosts
<1>2. VsTyped /\ Known /\ Streaming
  BY DEF VsInv
<1>3. VsTyped'
  BY <1>1, <1>2, VsTypes DEF VsTyped
<1>4. StreamsKept(p)
  BY <1>1, <1>2 DEF StreamsKept, Streaming
<1>5. /\ Live' = Live /\ Live' \subseteq Given /\ members' \subseteq Given /\ pointer' \in Given \cup {None}
      /\ used'.sessions = used.sessions
  BY <1>1, <1>2 DEF Known, Live
<1>6. excused' \/ Keeps(p)
  BY <1>1, <1>5 DEF Keeps
<1> QED
  BY <1>3, <1>4, <1>5, <1>6, VsQuiet

\* The programs that are nothing but an end or the use of a session.
LEMMA VsShort ==
    /\ <<>> \in Seq(Operation) /\ WellFormed(<<>>) /\ ~IsCreate(<<>>)
    /\ UseSession \in Seq(Operation) /\ WellFormed(UseSession) /\ ~IsCreate(UseSession)
    /\ UseSession # <<>> /\ Head(UseSession).op = "update"
<1>1. Len(<<>>) = 0 /\ DOMAIN <<>> = {} /\ <<>> \in Seq(Operation)
  OBVIOUS
<1>2. ~IsCreate(<<>>)
  BY <1>1 DEF IsCreate
<1>3. WellFormed(<<>>)
  BY <1>1, <1>2 DEF WellFormed
<1>4. /\ Update("touch") \in Operation /\ Op("point") \in Operation
      /\ Update("touch").op = "update" /\ Op("point").op = "point"
  BY VsOps DEF Targets, PlainNames
<1> DEFINE a == Update("touch")
<1> DEFINE b == Op("point")
<1> HIDE DEF a, b
<1>5. UseSession = <<a, b>>
  BY DEF UseSession, a, b
<1>6. /\ UseSession \in Seq(Operation) /\ Len(UseSession) = 2 /\ DOMAIN UseSession = {1, 2}
      /\ UseSession[1] = a /\ UseSession[2] = b /\ UseSession # <<>> /\ Head(UseSession) = a
  BY <1>4, <1>5 DEF a, b
<1>7. ~IsCreate(UseSession)
  BY <1>4, <1>6 DEF IsCreate, CreateOps, a, b
<1>8. ASSUME NEW k \in 2..Len(UseSession) PROVE UseSession[k].op # "remove"
  <2>1. k = 2
    BY <1>6
  <2> QED
    BY <1>4, <1>6, <2>1 DEF b
<1>9. WellFormed(UseSession)
  BY <1>7, <1>8 DEF WellFormed
<1> QED
  BY <1>1, <1>2, <1>3, <1>4, <1>6, <1>7, <1>9 DEF a

\* A creation that drops an operation and writes nothing.
LEMMA VsCreateDrop ==
    ASSUME VsInv, NEW p \in Procs, NEW name \in {"list", "limit"}, At(p, name), Do(p, Rest(p)),
           UNCHANGED <<redis, active, used, stopped, failed>>, excused' \in BOOLEAN,
           ~excused' => ~excused /\ Live = {}
    PROVE  VsInv'
<1> DEFINE ops == running[p].ops
<1>1. /\ ops \in Seq(Operation) /\ ops # <<>> /\ Head(ops).op = name
      /\ Rest(p) = Tail(ops) /\ Rest(p) \in Seq(Operation)
      /\ IsCreate(ops) /\ WellFormed(ops)
      /\ p \in active => p \in failed
      /\ Len(ops) \in Nat /\ (Len(ops) = 7 \/ Len(ops) = 5)
      /\ DOMAIN ops = 1..Len(ops)
  BY VsStage, VsTail DEF CreateOps
<1> HIDE DEF ops
<1>2. /\ Rest(p) # <<>> /\ Head(Rest(p)).op = CreateNames[10 - Len(ops)] /\ IsCreate(Rest(p))
      /\ WellFormed(Rest(p)) /\ Len(Rest(p)) = Len(ops) - 1
      /\ Head(Rest(p)).op \in {"members", "new"} /\ Head(Rest(p)).op \in CreateOps
  <2>1. 4 <= Len(ops)
    BY <1>1
  <2>2. /\ Rest(p) # <<>> /\ Head(Rest(p)).op = CreateNames[10 - Len(ops)] /\ IsCreate(Rest(p))
        /\ WellFormed(Rest(p)) /\ Len(Rest(p)) = Len(ops) - 1 /\ Head(Rest(p)).op \in CreateOps
    BY <1>1, <2>1, VsNextStage
  <2>3. CreateNames[3] = "members" /\ CreateNames[5] = "new"
    BY DEF CreateNames
  <2>4. 10 - Len(ops) = 3 \/ 10 - Len(ops) = 5
    <3>1. \A n \in Nat : n = 7 \/ n = 5 => 10 - n = 3 \/ 10 - n = 5
      OBVIOUS
    <3> QED
      BY <1>1, <3>1, Zenon
  <2> QED
    BY <2>2, <2>3, <2>4
<1>3. VsTyped /\ Known
  BY DEF VsInv
<1>4. Turn(p) /\ running'[p].ops = Rest(p) /\ running'[p].sid = running[p].sid
  BY <1>1, <1>2, <1>3, VsDo
<1>5. /\ sessions' = sessions /\ members' = members /\ pointer' = pointer /\ used' = used
      /\ active' = active /\ stopped' = stopped /\ failed' = failed
  BY DEF redis
<1>6. VsTyped'
  BY <1>3, <1>4, <1>5, VsTypes DEF VsTyped
<1>7. Given' = Given /\ Live' = Live /\ Live \subseteq Given
  BY <1>3, <1>5 DEF Given, Live, Known
<1>8. running'[p].sid \in Given' \cup {None}
  BY <1>3, <1>4, <1>7 DEF Known
<1>9. ASSUME NEW k \in DOMAIN Rest(p), Rest(p)[k].op \in {"list", "limit"}
      PROVE  Rest(p)[k].ids \subseteq Given
  <2>1. k + 1 \in DOMAIN ops /\ Rest(p)[k] = ops[k + 1]
    BY <1>1, VsTail
  <2> QED
    BY <1>3, <1>9, <2>1 DEF Known, ops
<1>10. ~excused' => ~excused /\ StageKept(p)
  <2> SUFFICES ASSUME ~excused' PROVE ~excused /\ StageKept(p)
    OBVIOUS
  <2>1. Live' = {}
    BY <1>7
  <2>2. /\ Head(running'[p].ops).op # "remove" /\ Head(running'[p].ops).op # "list"
        /\ Head(running'[p].ops).op # "add"
    BY <1>2, <1>4
  <2> QED
    BY <1>5, <1>7, <2>1, <2>2 DEF StageKept
<1>11. ~At(p, "add") /\ IsCreate(running[p].ops)
  BY <1>1 DEF At, ops
<1>12. UNCHANGED <<members, pointer, active, stopped, failed>>
  BY DEF redis
<1>13. /\ Given \subseteq Given' /\ Live' \subseteq Given'
       /\ \A k \in DOMAIN running'[p].ops :
             running'[p].ops[k].op \in {"list", "limit"} => running'[p].ops[k].ids \subseteq Given'
       /\ running'[p].ops # <<>> /\ Head(running'[p].ops).op \in CreateOps
       /\ running'[p].sid = None => Head(running'[p].ops).op # "add"
       /\ WellFormed(running'[p].ops)
  BY <1>2, <1>4, <1>7, <1>9
<1> QED
  BY <1>1, <1>4, <1>6, <1>8, <1>10, <1>11, <1>12, <1>13, VsCreates

\* A creation reuses a session it found, or goes on because there is none.
LEMMA VsChooseSession ==
    ASSUME VsInv, NEW p \in Procs, ChooseSession(p)
    PROVE  VsInv'
<1>1. At(p, "list") /\ UNCHANGED <<redis, active, used, stopped, failed>>
  BY DEF ChooseSession
<1>2. /\ running[p].ops \in Seq(Operation) /\ running[p].ops # <<>>
      /\ Head(running[p].ops).op = "list" /\ Head(running[p].ops) \in Operation
      /\ p \in active => p \in failed
  BY <1>1, VsStage DEF CreateOps
<1>3. Existing(p) = {i \in Head(running[p].ops).ids : sessions[i] # None}
  BY DEF Existing
<1>4. Head(running[p].ops).ids \subseteq Given /\ Given \subseteq SessionIds
  <2>1. /\ Head(running[p].ops) = running[p].ops[1] /\ Len(running[p].ops) \in Nat \ {0}
        /\ DOMAIN running[p].ops = 1..Len(running[p].ops)
    BY <1>2, VsTail
  <2>2. 1 \in DOMAIN running[p].ops
    BY <2>1
  <2> QED
    BY <1>2, <2>1, <2>2, VsGiven DEF VsInv, Known
<1>5. CASE Do(p, Rest(p)) /\ excused' = (excused \/ Existing(p) # {})
  <2>1. excused' \in BOOLEAN
    BY <1>5
  <2>2. ~excused' => ~excused /\ Live = {}
    <3> SUFFICES ASSUME ~excused' PROVE ~excused /\ Live = {}
      OBVIOUS
    <3>0. ~excused /\ Existing(p) = {}
      BY <1>5
    <3>1. Live \subseteq Head(running[p].ops).ids
      BY <1>1, <3>0 DEF VsInv, Alone
    <3> QED
      BY <1>3, <3>0, <3>1 DEF Live
  <2> QED
    BY <1>1, <1>5, <2>1, <2>2, VsCreateDrop
<1>6. CASE /\ \E i \in Existing(p) : running' = [running EXCEPT ![p] = [ops |-> UseSession, sid |-> i]]
           /\ UNCHANGED excused
  <2>1. PICK i \in Existing(p) : running' = [running EXCEPT ![p] = [ops |-> UseSession, sid |-> i]]
    BY <1>6
  <2>0. UNCHANGED <<redis, active, used, ghosts>>
    BY <1>1, <1>6 DEF ghosts
  <2>2. i \in Given /\ i \in SessionIds /\ i # None
    BY <1>3, <1>4, <2>1, ProcessesAssumption DEF SessionIds
  <2>3. Turn(p) /\ running'[p].ops = UseSession /\ running'[p].sid = i
    BY <2>1, <2>2, VsShort, VsBecome DEF VsInv
  <2>4. KnownFrame(running'[p])
    BY <2>2, <2>3 DEF KnownFrame
  <2>5. ~At(p, "add")
    BY <1>1 DEF At
  <2>6. WellFormed(running'[p].ops) /\ ~IsCreate(running'[p].ops) /\ Head(running'[p].ops).op # "remove"
    BY <2>3, VsShort
  <2> QED
    BY <1>2, <2>0, <2>3, <2>4, <2>5, <2>6, VsQuietProgram
<1> QED
  BY <1>5, <1>6 DEF ChooseSession

\* A creation is refused at the limit, or goes on.
LEMMA VsCheckLimit ==
    ASSUME VsInv, NEW p \in Procs, CheckLimit(p)
    PROVE  VsInv'
<1>1. At(p, "limit") /\ UNCHANGED <<redis, active, used, ghosts>> /\ (Do(p, <<>>) \/ Do(p, Rest(p)))
  BY DEF CheckLimit
<1>2. /\ IsCreate(running[p].ops) /\ Len(running[p].ops) = 5
      /\ p \in active => p \in failed
  BY <1>1, VsStage DEF CreateOps
<1>3. CASE Do(p, Rest(p))
  <2>1. UNCHANGED <<redis, active, used, stopped, failed>> /\ excused' = excused /\ excused \in BOOLEAN
    BY <1>1 DEF ghosts, VsInv, VsTyped
  <2>2. ~excused => Live = {}
    <3>1. 4 <= Len(running[p].ops) /\ Len(running[p].ops) <= 6
      BY <1>2
    <3> QED
      BY <1>2, <3>1 DEF VsInv, Alone
  <2> QED
    BY <1>1, <1>3, <2>1, <2>2, VsCreateDrop
<1>4. CASE Do(p, <<>>)
  <2>1. Turn(p) /\ running'[p].ops = <<>> /\ running'[p].sid = None
    BY <1>4, VsShort, VsDo DEF VsInv
  <2>2. KnownFrame(running'[p])
    BY <2>1 DEF KnownFrame
  <2>3. ~At(p, "add")
    BY <1>1 DEF At
  <2>4. WellFormed(running'[p].ops) /\ ~IsCreate(running'[p].ops)
    BY <2>1, VsShort
  <2> QED
    BY <1>1, <1>2, <2>1, <2>2, <2>3, <2>4, VsQuietProgram
<1> QED
  BY <1>1, <1>3, <1>4

\* The session is added, and the creation is over.
LEMMA VsAddSession ==
    ASSUME VsInv, NEW p \in Procs, addUserSession(p)
    PROVE  VsInv'
<1> DEFINE ops == running[p].ops
<1>1. /\ At(p, "add") /\ Do(p, Rest(p)) /\ members' = members \cup {running[p].sid}
      /\ sessions' = sessions /\ pointer' = pointer /\ active' = active /\ used' = used
      /\ stopped' = stopped /\ failed' = failed /\ excused' = excused
  BY DEF addUserSession, ghosts
<1>2. /\ ops \in Seq(Operation) /\ ops # <<>> /\ Head(ops).op = "add"
      /\ Rest(p) = Tail(ops) /\ Rest(p) \in Seq(Operation)
      /\ IsCreate(ops) /\ WellFormed(ops)
      /\ p \in active => p \in failed
      /\ Len(ops) = 3
  BY <1>1, VsStage DEF CreateOps
<1>3. running[p].sid \in SessionIds /\ running[p].sid \in Given /\ running[p].sid # None
  BY <1>1, VsOwn
<1> HIDE DEF ops
<1>4. /\ WellFormed(Rest(p)) /\ ~IsCreate(Rest(p))
      /\ Rest(p) # <<>> => Head(Rest(p)).op # "remove"
  <2>1. ~(4 <= Len(ops))
    BY <1>2
  <2> QED
    BY <1>2, <2>1, VsDrop
<1>5. VsTyped /\ Known /\ Streaming
  BY DEF VsInv
<1>6. Turn(p) /\ running'[p].ops = Rest(p) /\ running'[p].sid = IF Rest(p) = <<>> THEN None ELSE running[p].sid
  BY <1>1, <1>2, <1>5, VsDo
<1>7. VsTyped'
  BY <1>1, <1>3, <1>5, <1>6, VsTypes DEF VsTyped
<1>8. StreamsKept(p)
  BY <1>1, <1>2, <1>5 DEF StreamsKept, Streaming
<1>9. /\ Live' = Live /\ Live' \subseteq Given /\ members' \subseteq Given /\ pointer' \in Given \cup {None}
      /\ used'.sessions = used.sessions
  BY <1>1, <1>3, <1>5 DEF Known, Live
<1>10. KnownFrame(running'[p])
  BY <1>3, <1>6 DEF KnownFrame
<1>11. excused' \/ Keeps(p)
  <2> SUFFICES ASSUME ~excused PROVE Keeps(p)
    BY <1>1
  <2>1. Live \subseteq {running[p].sid}
    BY <1>1 DEF VsInv, Alone
  <2>2. running'[p].ops # <<>> => Head(running'[p].ops).op # "remove"
    BY <1>4, <1>6
  <2> QED
    BY <1>1, <1>9, <2>1, <2>2 DEF Keeps
<1>12. WellFormed(running'[p].ops) /\ ~IsCreate(running'[p].ops)
  BY <1>4, <1>6
<1> QED
  BY <1>6, <1>7, <1>8, <1>9, <1>10, <1>11, <1>12, VsQuiet

\* The list of ids that a creation reads holds every live session.
LEMMA VsReadMembers ==
    ASSUME VsInv, NEW p \in Procs, ReadMembers(p)
    PROVE  VsInv'
<1> DEFINE ops == running[p].ops
<1>0. PICK ids \in {members, {}} : /\ Do(p, <<[Head(Rest(p)) EXCEPT !.ids = ids]>> \o Tail(Rest(p)))
                                    /\ excused' = (excused \/ ids # members)
  BY DEF ReadMembers
<1> DEFINE y == [Head(Rest(p)) EXCEPT !.ids = ids]
<1> DEFINE X == <<y>> \o Tail(Rest(p))
<1>1. /\ At(p, "members") /\ Do(p, X) /\ UNCHANGED <<redis, active, used, stopped, failed>>
      /\ excused' = (excused \/ ids # members) /\ (ids = members \/ ids = {})
  BY <1>0 DEF ReadMembers
<1>2. /\ ops \in Seq(Operation) /\ ops # <<>> /\ Head(ops).op = "members"
      /\ Rest(p) = Tail(ops) /\ Rest(p) \in Seq(Operation)
      /\ IsCreate(ops) /\ WellFormed(ops)
      /\ p \in active => p \in failed
      /\ Len(ops) \in Nat /\ (Len(ops) = 8 \/ Len(ops) = 6)
      /\ DOMAIN ops = 1..Len(ops)
  BY <1>1, VsStage, VsTail DEF CreateOps
<1>3. VsTyped /\ Known /\ ids \subseteq SessionIds /\ ids \subseteq Given
  BY <1>1 DEF VsInv, VsTyped, Known
<1> HIDE DEF ops
<1>4. 4 <= Len(ops)
  BY <1>2
<1>5. /\ Rest(p) # <<>> /\ Head(Rest(p)).op = CreateNames[10 - Len(ops)] /\ IsCreate(Rest(p))
      /\ WellFormed(Rest(p)) /\ Len(Rest(p)) = Len(ops) - 1 /\ Head(Rest(p)).op \in CreateOps
  BY <1>2, <1>4, VsNextStage
<1>6. Head(Rest(p)).op \in {"list", "limit"}
  <2>1. CreateNames[2] = "list" /\ CreateNames[4] = "limit"
    BY DEF CreateNames
  <2>2. \A n \in Nat : n = 8 \/ n = 6 => 10 - n = 2 \/ 10 - n = 4
    OBVIOUS
  <2>3. 10 - Len(ops) = 2 \/ 10 - Len(ops) = 4
    BY <1>2, <2>2, Zenon
  <2> QED
    BY <1>5, <2>1, <2>3
<1>7. y \in Operation /\ y.op = Head(Rest(p)).op /\ y.ids = ids
  <2>1. Head(Rest(p)) \in Operation
    BY <1>2, <1>5, VsTail
  <2>2. Head(Rest(p)) \in [op : {"list", "limit"}, ids : SUBSET SessionIds]
    BY <1>6, <2>1 DEF Operation, PlainNames
  <2>3. /\ y \in [op : {"list", "limit"}, ids : SUBSET SessionIds]
        /\ y.op = Head(Rest(p)).op /\ y.ids = ids
    BY <1>3, <2>2
  <2> QED
    BY <2>3 DEF Operation
<1> HIDE DEF y
<1>8. /\ X \in Seq(Operation) /\ Len(X) = Len(Rest(p)) /\ X[1] = y /\ Head(X) = y /\ X # <<>>
      /\ \A k \in 2..Len(Rest(p)) : X[k] = Rest(p)[k]
      /\ DOMAIN X = 1..Len(Rest(p))
  BY <1>2, <1>5, <1>7, VsReplace
<1> HIDE DEF X
<1>9. \A k \in 1..Len(Rest(p)) : k = 1 \/ k \in 2..Len(Rest(p))
  BY <1>2, <1>5
<1>10. \A k \in 1..Len(Rest(p)) : X[k].op = Rest(p)[k].op
  <2>1. Head(Rest(p)) = Rest(p)[1]
    BY <1>2, <1>5, VsTail
  <2> QED
    BY <1>7, <1>8, <1>9, <2>1
<1>11. WellFormed(X) /\ IsCreate(X)
  BY <1>2, <1>5, <1>8, <1>10, VsSameNames
<1>12. Turn(p) /\ running'[p].ops = X /\ running'[p].sid = running[p].sid
  BY <1>1, <1>3, <1>8, VsDo
<1>13. /\ sessions' = sessions /\ members' = members /\ pointer' = pointer /\ used' = used
       /\ active' = active /\ stopped' = stopped /\ failed' = failed /\ excused' \in BOOLEAN
  BY <1>1 DEF redis
<1>14. VsTyped'
  BY <1>3, <1>12, <1>13, VsTypes DEF VsTyped
<1>15. Given' = Given /\ Live' = Live /\ Live \subseteq Given
  BY <1>3, <1>13 DEF Given, Live, Known
<1>16. running'[p].sid \in Given' \cup {None}
  BY <1>3, <1>12, <1>15 DEF Known
<1>17. ASSUME NEW k \in DOMAIN X, X[k].op \in {"list", "limit"}
       PROVE  X[k].ids \subseteq Given
  <2>1. CASE k = 1
    BY <1>3, <1>7, <1>8, <2>1
  <2>2. CASE k \in 2..Len(Rest(p))
    <3>1. X[k] = Rest(p)[k]
      BY <1>8, <2>2
    <3>2. k \in 1..(Len(ops) - 1) /\ k + 1 \in 1..Len(ops)
      BY <1>2, <1>5, <2>2
    <3>3. k + 1 \in DOMAIN ops /\ Rest(p)[k] = ops[k + 1]
      BY <1>2, <3>2, VsTail
    <3> QED
      BY <1>3, <1>17, <3>1, <3>3 DEF Known, ops
  <2> QED
    BY <1>8, <1>9, <1>17, <2>1, <2>2
<1>18. ~excused' => ~excused /\ StageKept(p)
  <2> SUFFICES ASSUME ~excused' PROVE ~excused /\ StageKept(p)
    OBVIOUS
  <2>0. ~excused /\ ids = members
    BY <1>1
  <2>1. Alone
    BY <2>0 DEF VsInv
  <2>2. Head(running'[p].ops) = y /\ y.op \in {"list", "limit"}
    BY <1>6, <1>7, <1>8, <1>12
  <2>3. Live \subseteq members
    <3>1. ASSUME NEW q \in Procs, At(q, "add") PROVE FALSE
      <4>1. IsCreate(running[q].ops) /\ Head(running[q].ops).op = "add"
        BY <3>1, VsStage DEF CreateOps
      <4>2. q = p
        BY <1>2, <2>1, <4>1 DEF Alone, ops
      <4> QED
        BY <1>2, <4>1, <4>2 DEF ops
    <3> QED
      BY <2>1, <3>1 DEF Alone
  <2>4. 4 <= Len(running'[p].ops) /\ Len(running'[p].ops) <= 6 => Live' = {}
    <3> SUFFICES ASSUME Len(X) <= 6 PROVE Live' = {}
      BY <1>12
    <3>0. \A n \in Nat : (n = 8 \/ n = 6) /\ n - 1 <= 6 => n = 6
      OBVIOUS
    <3>a. Len(ops) - 1 <= 6
      BY <1>5, <1>8
    <3>1. Len(ops) = 6
      BY <1>2, <3>0, <3>a, Zenon
    <3>2. 4 <= Len(ops) /\ Len(ops) <= 6
      BY <3>1
    <3> QED
      BY <1>2, <1>15, <2>1, <3>2 DEF Alone, ops
  <2>5. \A i, j \in Live' : i = j
    BY <1>15, <2>1 DEF Alone
  <2> QED
    BY <1>7, <1>13, <1>15, <2>0, <2>2, <2>3, <2>4, <2>5 DEF StageKept
<1>19. ~At(p, "add") /\ IsCreate(running[p].ops)
  BY <1>2 DEF At, ops
<1>20. UNCHANGED <<members, pointer, active, stopped, failed>>
  BY <1>1 DEF redis
<1>21. /\ Given \subseteq Given' /\ Live' \subseteq Given'
       /\ \A k \in DOMAIN running'[p].ops :
             running'[p].ops[k].op \in {"list", "limit"} => running'[p].ops[k].ids \subseteq Given'
       /\ running'[p].ops # <<>> /\ Head(running'[p].ops).op \in CreateOps
       /\ running'[p].sid = None => Head(running'[p].ops).op # "add"
       /\ WellFormed(running'[p].ops)
  BY <1>5, <1>6, <1>7, <1>8, <1>11, <1>12, <1>15, <1>17
<1> QED
  BY <1>2, <1>12, <1>14, <1>16, <1>18, <1>19, <1>20, <1>21, VsCreates

\* The new session is the only one, unless there is an excuse.
LEMMA VsNewSession ==
    ASSUME VsInv, NEW p \in Procs, NewSession(p)
    PROVE  VsInv'
<1> DEFINE ops == running[p].ops
<1> DEFINE i == used.sessions + 1
<1>1. /\ At(p, "new") /\ used.sessions < MaxSessions
      /\ sessions' = [sessions EXCEPT ![i] = [st |-> "IDLE", fresh |-> TRUE]]
      /\ used' = [used EXCEPT !.sessions = i]
      /\ running' = [running EXCEPT ![p] = [ops |-> Rest(p), sid |-> i]]
      /\ UNCHANGED <<members, pointer, active, ghosts>>
  BY DEF NewSession
<1>2. /\ ops \in Seq(Operation) /\ ops # <<>> /\ Head(ops).op = "new"
      /\ Rest(p) = Tail(ops) /\ Rest(p) \in Seq(Operation)
      /\ IsCreate(ops) /\ WellFormed(ops)
      /\ p \in active => p \in failed
      /\ Len(ops) \in Nat /\ Len(ops) = 4
      /\ DOMAIN ops = 1..Len(ops)
  BY <1>1, VsStage, VsTail DEF CreateOps
<1>3. VsTyped /\ Known
  BY DEF VsInv
<1> HIDE DEF ops
<1>4. 4 <= Len(ops) /\ Len(ops) <= 6 /\ 10 - Len(ops) = 6
  BY <1>2
<1>5. /\ Rest(p) # <<>> /\ Head(Rest(p)).op = CreateNames[6] /\ IsCreate(Rest(p))
      /\ WellFormed(Rest(p)) /\ Len(Rest(p)) = Len(ops) - 1 /\ Head(Rest(p)).op \in CreateOps
  BY <1>2, <1>4, VsNextStage
<1>6. Head(Rest(p)).op = "add" /\ Len(Rest(p)) = 3
  BY <1>2, <1>5 DEF CreateNames
<1>7. used.sessions \in Nat /\ MaxSessions \in Nat /\ i \in SessionIds /\ i \in 0..MaxSessions /\ i # None
  <2>1. used.sessions \in 0..MaxSessions /\ MaxSessions \in Nat
    BY <1>3, ProcessesAssumption DEF VsTyped
  <2>2. used.sessions \in Nat /\ MaxSessions \in Nat /\ i \in 1..MaxSessions /\ i \in 0..MaxSessions
    BY <1>1, <2>1
  <2> QED
    BY <2>2, ProcessesAssumption DEF SessionIds
<1>8. used'.sessions = i /\ used' \in [events : Nat, sessions : 0..MaxSessions, streams : SUBSET Streams]
      /\ used'.streams = used.streams
  BY <1>1, <1>3, <1>7 DEF VsTyped
<1>9. Given \subseteq Given' /\ i \in Given' /\ i \notin Given
  BY <1>7, <1>8 DEF Given
<1>9a. running' = [running EXCEPT ![p] = [ops |-> Rest(p), sid |-> i]]
  BY <1>1
<1>9b. i \in SessionIds \cup {None} /\ Rest(p) \in Seq(Operation) /\ VsTyped
  BY <1>2, <1>3, <1>7
<1> HIDE DEF i
<1>10. Turn(p) /\ running'[p].ops = Rest(p) /\ running'[p].sid = i
  BY <1>9a, <1>9b, VsBecome
<1>11. sessions' \in [SessionIds -> Session \cup {None}]
       /\ \A j \in SessionIds : j # i => sessions'[j] = sessions[j]
  <2>1. [st |-> "IDLE", fresh |-> TRUE] \in Session
    BY DEF Session
  <2> QED
    BY <1>1, <1>3, <1>7, <2>1 DEF VsTyped
<1>12. VsTyped'
  BY <1>1, <1>3, <1>8, <1>10, <1>11 DEF VsTyped, Turn, ghosts
<1>13. Live' \subseteq Live \cup {i}
  BY <1>11 DEF Live
<1>14. Live' \subseteq Given'
  BY <1>3, <1>9, <1>13 DEF Known
<1>15. ASSUME NEW k \in DOMAIN Rest(p), Rest(p)[k].op \in {"list", "limit"}
       PROVE  Rest(p)[k].ids \subseteq Given'
  <2>1. k + 1 \in DOMAIN ops /\ Rest(p)[k] = ops[k + 1]
    BY <1>2, VsTail
  <2> QED
    BY <1>3, <1>9, <1>15, <2>1 DEF Known, ops
<1>16. ~excused => StageKept(p)
  <2> SUFFICES ASSUME ~excused PROVE StageKept(p)
    OBVIOUS
  <2>1. Live = {}
    BY <1>2, <1>4 DEF VsInv, Alone, ops
  <2>2. Live' \subseteq {i}
    BY <1>13, <2>1
  <2>3. \A j \in Given : sessions[j] = None => sessions'[j] = None
    BY <1>3, <1>9, <1>11, VsGiven
  <2>a. Len(running'[p].ops) = 3
    BY <1>6, <1>10
  <2>b. \A n \in Nat : n = 3 => ~(4 <= n)
    OBVIOUS
  <2>4. ~(4 <= Len(running'[p].ops))
    BY <2>a, <2>b, 3 \in Nat
  <2> QED
    BY <1>6, <1>10, <2>2, <2>3, <2>4 DEF StageKept
<1>17. ~At(p, "add") /\ IsCreate(running[p].ops)
  BY <1>2 DEF At, ops
<1>18. /\ \A k \in DOMAIN running'[p].ops :
             running'[p].ops[k].op \in {"list", "limit"} => running'[p].ops[k].ids \subseteq Given'
       /\ running'[p].ops # <<>> /\ Head(running'[p].ops).op \in CreateOps
       /\ running'[p].sid = None => Head(running'[p].ops).op # "add"
       /\ WellFormed(running'[p].ops)
       /\ running'[p].sid \in Given' \cup {None}
  BY <1>5, <1>7, <1>9, <1>10, <1>15
<1>19. UNCHANGED <<members, pointer, active, stopped, failed>> /\ excused' = excused
  BY <1>1 DEF ghosts
<1> QED
  BY <1>2, <1>19, <1>9, <1>10, <1>12, <1>14, <1>16, <1>17, <1>18, VsCreates

-----------------------------------------------------------------------------
(* Programs that begin *)

\* One program after the other.
LEMMA VsConcat ==
    ASSUME NEW s \in Seq(Operation), NEW t \in Seq(Operation)
    PROVE  /\ s \o t \in Seq(Operation) /\ Len(s \o t) = Len(s) + Len(t)
           /\ Len(s) \in Nat /\ Len(t) \in Nat
           /\ \A k \in 1..Len(s) : (s \o t)[k] = s[k]
           /\ \A k \in 1..Len(t) : (s \o t)[Len(s) + k] = t[k]
           /\ DOMAIN (s \o t) = 1..(Len(s) + Len(t))
  BY ConcatProperties

\* A program that creates nothing, and removes no session that it has not
\* just deleted.
Harmless(ops) ==
    /\ ops \in Seq(Operation)
    /\ \A k \in 1..Len(ops) : ops[k].op \notin CreateOps
    /\ \A k \in 1..Len(ops) : ops[k].op = "remove" => k # 1 /\ ops[k-1].op = "delete"

\* It is well formed and no creation.
LEMMA VsHarmless ==
    ASSUME NEW ops, Harmless(ops), ops # <<>>
    PROVE  WellFormed(ops) /\ ~IsCreate(ops) /\ Head(ops).op # "remove" /\ ops \in Seq(Operation)
<1>1. ops \in Seq(Operation) /\ Len(ops) \in Nat \ {0} /\ DOMAIN ops = 1..Len(ops) /\ Head(ops) = ops[1]
  BY VsTail DEF Harmless
<1>2. ~IsCreate(ops)
  BY <1>1 DEF Harmless, IsCreate
<1>3. \A k \in 2..Len(ops) : k \in 1..Len(ops)
  BY <1>1
<1>4. WellFormed(ops)
  BY <1>2, <1>3 DEF Harmless, WellFormed
<1>5. 1 \in 1..Len(ops)
  BY <1>1
<1> QED
  BY <1>1, <1>2, <1>4, <1>5 DEF Harmless

\* One harmless program after the other is harmless.
LEMMA VsThen ==
    ASSUME NEW s, NEW t, Harmless(s), Harmless(t), s # <<>>
    PROVE  Harmless(s \o t) /\ s \o t # <<>> /\ Head(s \o t) = Head(s)
<1> DEFINE u == s \o t
<1>1. s \in Seq(Operation) /\ t \in Seq(Operation) /\ Len(s) \in Nat \ {0} /\ Len(t) \in Nat /\ Head(s) = s[1]
  BY VsTail DEF Harmless
<1>2. /\ u \in Seq(Operation) /\ Len(u) = Len(s) + Len(t)
      /\ \A k \in 1..Len(s) : u[k] = s[k]
      /\ \A k \in 1..Len(t) : u[Len(s) + k] = t[k]
  BY <1>1, VsConcat
<1> HIDE DEF u
<1>3. ASSUME NEW k \in 1..Len(u)
      PROVE  /\ u[k].op \notin CreateOps
             /\ u[k].op = "remove" => k # 1 /\ u[k-1].op = "delete"
  <2>1. CASE k <= Len(s)
    <3>1. k \in 1..Len(s) /\ (k # 1 => k - 1 \in 1..Len(s))
      BY <1>1, <1>2, <2>1
    <3> QED
      BY <1>2, <3>1 DEF Harmless
  <2>2. CASE k > Len(s)
    <3> DEFINE j == k - Len(s)
    <3>1. j \in 1..Len(t) /\ Len(s) + j = k /\ k # 1
      BY <1>1, <1>2, <2>2
    <3>2. j # 1 => j - 1 \in 1..Len(t) /\ Len(s) + (j - 1) = k - 1
      BY <1>1, <3>1
    <3>3. u[k] = t[j] /\ (j # 1 => u[k-1] = t[j-1])
      BY <1>2, <3>1, <3>2
    <3> HIDE DEF j
    <3> QED
      BY <3>1, <3>3 DEF Harmless
  <2>3. k <= Len(s) \/ k > Len(s)
    BY <1>1, <1>2
  <2> QED
    BY <2>1, <2>2, <2>3
<1>4. Harmless(u)
  BY <1>2, <1>3 DEF Harmless
<1>5. Len(u) # 0 /\ 1 \in 1..Len(s)
  BY <1>1, <1>2
<1>6. u # <<>>
  BY <1>5
<1>7. Head(u) = u[1] /\ u[1] = s[1]
  BY <1>2, <1>5, <1>6, VsTail
<1> QED
  BY <1>1, <1>4, <1>6, <1>7 DEF u

\* One operation alone is harmless, and so are none and a termination.
LEMMA VsSingles ==
    /\ Harmless(<<>>)
    /\ \A x \in Operation : x.op \notin CreateOps \cup {"remove"}
           => Harmless(<<x>>) /\ <<x>> # <<>> /\ Head(<<x>>) = x
    /\ \A x \in Operation, y \in Operation :
          x.op \notin CreateOps \cup {"remove"} /\ y.op \notin CreateOps /\ (y.op = "remove" => x.op = "delete")
           => Harmless(<<x, y>>) /\ <<x, y>> # <<>> /\ Head(<<x, y>>) = x
<1>1. Harmless(<<>>)
  BY DEF Harmless
<1>2. ASSUME NEW x \in Operation, x.op \notin CreateOps \cup {"remove"}
      PROVE  Harmless(<<x>>) /\ <<x>> # <<>> /\ Head(<<x>>) = x
  <2>1. <<x>> \in Seq(Operation) /\ Len(<<x>>) = 1 /\ <<x>>[1] = x /\ <<x>> # <<>> /\ Head(<<x>>) = x
    OBVIOUS
  <2> QED
    BY <1>2, <2>1 DEF Harmless
<1>3. ASSUME NEW x \in Operation, NEW y \in Operation,
             x.op \notin CreateOps \cup {"remove"}, y.op \notin CreateOps, y.op = "remove" => x.op = "delete"
      PROVE  Harmless(<<x, y>>) /\ <<x, y>> # <<>> /\ Head(<<x, y>>) = x
  <2> DEFINE u == <<x, y>>
  <2>1. /\ u \in Seq(Operation) /\ Len(u) = 2 /\ u[1] = x /\ u[2] = y
        /\ u # <<>> /\ Head(u) = x
    OBVIOUS
  <2> HIDE DEF u
  <2>2. \A k \in 1..Len(u) : k = 1 \/ (k = 2 /\ k - 1 = 1)
    BY <2>1
  <2>3. Harmless(u)
    BY <1>3, <2>1, <2>2 DEF Harmless
  <2> QED
    BY <2>1, <2>3 DEF u
<1> QED
  BY <1>1, <1>2, <1>3

\* A program a handler may begin, the creation apart.
Starts(prog) == Harmless(prog) /\ prog # <<>>

\* The programs of the gateway's handlers are such programs.
LEMMA VsPrograms ==
    /\ Starts(Programs.message) /\ Head(Programs.message).op = "pointer"
    /\ Starts(Programs.interrupt) /\ Head(Programs.interrupt).op = "pointer"
    /\ Starts(Programs.terminate) /\ Head(Programs.terminate).op = "pointer"
    /\ Starts(Programs.ping) /\ Head(Programs.ping).op = "pointer"
    /\ Starts(Terminate)
<1>1. /\ \A name \in PlainNames : Op(name) \in Operation /\ Op(name).op = name
      /\ \A to \in Targets : Update(to) \in Operation /\ Update(to).op = "update"
  BY VsOps
<1> DEFINE po == Op("pointer")
<1> DEFINE re == Op("require")
<1> DEFINE st == Op("stop")
<1> DEFINE op == Op("open")
<1> DEFINE dl == Op("delete")
<1> DEFINE rm == Op("remove")
<1> DEFINE un == Op("unpoint")
<1> DEFINE um == Op("unpoint if mine")
<1> DEFINE to == Update("touch")
<1> DEFINE th == Update("THINKING")
<1> DEFINE pi == Update("ping")
<1>2. /\ po \in Operation /\ po.op = "pointer" /\ re \in Operation /\ re.op = "require"
      /\ st \in Operation /\ st.op = "stop" /\ op \in Operation /\ op.op = "open"
      /\ dl \in Operation /\ dl.op = "delete" /\ rm \in Operation /\ rm.op = "remove"
      /\ un \in Operation /\ un.op = "unpoint" /\ um \in Operation /\ um.op = "unpoint if mine"
      /\ to \in Operation /\ to.op = "update" /\ th \in Operation /\ th.op = "update"
      /\ pi \in Operation /\ pi.op = "update"
  BY <1>1 DEF PlainNames, Targets
<1>3. /\ Programs.message = <<po, re, to, th, op>> /\ Programs.interrupt = <<po, st>>
      /\ Programs.terminate = <<po, st>> \o Terminate \o <<un>>
      /\ Programs.ping = <<po, to, pi>> /\ Terminate = <<re, dl, rm, um>>
  BY DEF Programs, Terminate
<1>m. /\ po \in Operation /\ re \in Operation /\ st \in Operation /\ op \in Operation /\ dl \in Operation
      /\ rm \in Operation /\ um \in Operation /\ to \in Operation /\ th \in Operation /\ pi \in Operation
  BY <1>2
<1> HIDE DEF po, re, st, op, dl, rm, un, um, to, th, pi
<1>4. Starts(Programs.message) /\ Head(Programs.message).op = "pointer"
  <2> DEFINE u == <<po, re, to, th, op>>
  <2>1. /\ u \in Seq(Operation) /\ Len(u) = 5 /\ u # <<>> /\ Head(u) = po
        /\ u[1] = po /\ u[2] = re /\ u[3] = to /\ u[4] = th /\ u[5] = op
    BY <1>m
  <2> HIDE DEF u
  <2>2. \A k \in 1..Len(u) : k = 1 \/ k = 2 \/ k = 3 \/ k = 4 \/ k = 5
    BY <2>1
  <2>3. \A k \in 1..Len(u) : u[k].op \in {"pointer", "require", "update", "open"}
    BY <1>2, <2>1, <2>2
  <2>4. Harmless(u)
    BY <2>1, <2>3 DEF Harmless, CreateOps
  <2> QED
    BY <1>2, <1>3, <2>1, <2>4 DEF Starts, u
<1>5. Starts(Programs.ping) /\ Head(Programs.ping).op = "pointer"
  <2> DEFINE u == <<po, to, pi>>
  <2>1. /\ u \in Seq(Operation) /\ Len(u) = 3 /\ u # <<>> /\ Head(u) = po
        /\ u[1] = po /\ u[2] = to /\ u[3] = pi
    BY <1>m
  <2> HIDE DEF u
  <2>2. \A k \in 1..Len(u) : k = 1 \/ k = 2 \/ k = 3
    BY <2>1
  <2>3. \A k \in 1..Len(u) : u[k].op \in {"pointer", "update"}
    BY <1>2, <2>1, <2>2
  <2>4. Harmless(u)
    BY <2>1, <2>3 DEF Harmless, CreateOps
  <2> QED
    BY <1>2, <1>3, <2>1, <2>4 DEF Starts, u
<1>6. Starts(Terminate)
  <2> DEFINE u == <<re, dl, rm, um>>
  <2>1. /\ u \in Seq(Operation) /\ Len(u) = 4 /\ u # <<>>
        /\ u[1] = re /\ u[2] = dl /\ u[3] = rm /\ u[4] = um
    BY <1>m
  <2> HIDE DEF u
  <2>2. \A k \in 1..Len(u) : k = 1 \/ k = 2 \/ (k = 3 /\ k - 1 = 2) \/ k = 4
    BY <2>1
  <2>3. \A k \in 1..Len(u) : /\ u[k].op \in {"require", "delete", "remove", "unpoint if mine"}
                             /\ u[k].op = "remove" => k = 3 /\ k - 1 = 2
    BY <1>2, <2>1, <2>2
  <2>4. Harmless(u)
    BY <1>2, <2>1, <2>3 DEF Harmless, CreateOps
  <2> QED
    BY <1>3, <2>1, <2>4 DEF Starts, u
<1>7. Harmless(<<po, st>>) /\ <<po, st>> # <<>> /\ Head(<<po, st>>) = po
  BY <1>2, VsSingles DEF CreateOps
<1>8. Harmless(<<un>>)
  BY <1>2, VsSingles DEF CreateOps
<1>9. /\ Harmless(<<po, st>> \o Terminate) /\ <<po, st>> \o Terminate # <<>>
      /\ Head(<<po, st>> \o Terminate) = po
  BY <1>6, <1>7, VsThen DEF Starts
<1>10. Starts(Programs.terminate) /\ Head(Programs.terminate) = po
  BY <1>3, <1>8, <1>9, VsThen DEF Starts
<1> QED
  BY <1>2, <1>3, <1>4, <1>5, <1>6, <1>7, <1>10 DEF Starts

\* The programs of the events that name their session or their target.
LEMMA VsOtherPrograms ==
    /\ LET prog == <<Op("require"), Update("touch"), Op("resume"), Op("point")>> IN Starts(prog)
    /\ LET prog == <<Update("IDLE"), Op("unpoint")>> IN Starts(prog)
    /\ \A interrupt \in BOOLEAN, to \in ConversationState \cup {None} :
          Starts(ActionProgram(interrupt, to)) /\ Head(ActionProgram(interrupt, to)).op = "pointer"
<1>1. /\ \A name \in PlainNames : Op(name) \in Operation /\ Op(name).op = name
      /\ \A to \in Targets : Update(to) \in Operation /\ Update(to).op = "update"
  BY VsOps
<1> DEFINE po == Op("pointer")
<1> DEFINE re == Op("require")
<1> DEFINE st == Op("stop")
<1> DEFINE rs == Op("resume")
<1> DEFINE pt == Op("point")
<1> DEFINE un == Op("unpoint")
<1> DEFINE tt == Update("touch")
<1> DEFINE ti == Update("IDLE")
<1>2. /\ po \in Operation /\ po.op = "pointer" /\ re \in Operation /\ re.op = "require"
      /\ st \in Operation /\ st.op = "stop" /\ rs \in Operation /\ rs.op = "resume"
      /\ pt \in Operation /\ pt.op = "point" /\ un \in Operation /\ un.op = "unpoint"
      /\ tt \in Operation /\ tt.op = "update" /\ ti \in Operation /\ ti.op = "update"
  BY <1>1 DEF PlainNames, Targets
<1> HIDE DEF po, re, st, rs, pt, un, tt, ti
<1>3. Starts(<<re, tt, rs, pt>>)
  <2> DEFINE u == <<re, tt, rs, pt>>
  <2>1. /\ u \in Seq(Operation) /\ Len(u) = 4 /\ u # <<>>
        /\ u[1] = re /\ u[2] = tt /\ u[3] = rs /\ u[4] = pt
    BY <1>2
  <2> HIDE DEF u
  <2>2. \A k \in 1..Len(u) : k = 1 \/ k = 2 \/ k = 3 \/ k = 4
    BY <2>1
  <2>3. \A k \in 1..Len(u) : u[k].op \in {"require", "update", "resume", "point"}
    BY <1>2, <2>1, <2>2
  <2>4. Harmless(u)
    BY <2>1, <2>3 DEF Harmless, CreateOps
  <2> QED
    BY <2>1, <2>4 DEF Starts, u
<1>4. Starts(<<ti, un>>)
  BY <1>2, VsSingles DEF Starts, CreateOps
<1>5. ASSUME NEW interrupt \in BOOLEAN, NEW to \in ConversationState \cup {None}
      PROVE  Starts(ActionProgram(interrupt, to)) /\ Head(ActionProgram(interrupt, to)).op = "pointer"
  <2> DEFINE mid == IF interrupt THEN <<st>> ELSE <<>>
  <2> DEFINE last == IF to = None THEN <<>> ELSE <<Update(to)>>
  <2>1. to # None => Update(to) \in Operation /\ Update(to).op = "update"
    BY <1>1 DEF Targets, ConversationState
  <2>2. Harmless(last)
    BY <2>1, VsSingles DEF CreateOps
  <2>3. Harmless(mid)
    BY <1>2, VsSingles DEF CreateOps
  <2>4. Harmless(<<po>>) /\ <<po>> # <<>> /\ Head(<<po>>) = po
    BY <1>2, VsSingles DEF CreateOps
  <2> HIDE DEF mid, last
  <2>5. Harmless(<<po>> \o mid) /\ <<po>> \o mid # <<>> /\ Head(<<po>> \o mid) = po
    BY <2>3, <2>4, VsThen
  <2>6. Starts(<<po>> \o mid \o last) /\ Head(<<po>> \o mid \o last) = po
    BY <2>2, <2>5, VsThen DEF Starts
  <2>7. ActionProgram(interrupt, to) = <<po>> \o mid \o last
    BY DEF ActionProgram, mid, last, po, st
  <2> QED
    BY <1>2, <2>6, <2>7
<1> QED
  BY <1>3, <1>4, <1>5 DEF po, re, st, rs, pt, un, tt, ti

\* A handler begins a program that creates nothing.
LEMMA VsBegin ==
    ASSUME VsInv, NEW h \in Procs, NEW prog, Starts(prog), NEW i \in Given \cup {None},
           i = None => Head(prog).op = "pointer", Begin(h, prog, i), UNCHANGED excused,
           used' \in [events : Nat, sessions : 0..MaxSessions, streams : SUBSET Streams],
           used'.sessions = used.sessions, used'.streams = used.streams
    PROVE  VsInv'
<1>1. VsTyped /\ Known /\ Formed /\ Streaming
  BY DEF VsInv
<1>2. /\ WellFormed(prog) /\ ~IsCreate(prog) /\ Head(prog).op # "remove" /\ prog \in Seq(Operation)
      /\ prog # <<>>
  BY VsHarmless DEF Starts
<1>3. /\ running[h].ops = <<>> /\ running' = [running EXCEPT ![h] = [ops |-> prog, sid |-> i]]
      /\ sessions' = sessions /\ members' = members /\ pointer' = pointer
      /\ active' = active /\ stopped' = stopped /\ failed' = failed /\ excused' = excused
  BY DEF Begin, AtRest, redis
<1>4. i \in SessionIds \cup {None}
  BY <1>1, VsGiven
<1>5. Turn(h) /\ running'[h].ops = prog /\ running'[h].sid = i
  BY <1>1, <1>2, <1>3, <1>4, VsBecome
<1>6. VsTyped'
  BY <1>1, <1>3, <1>5 DEF VsTyped, Turn
<1>7. StreamsKept(h)
  <2>1. h \in active => h \in failed
    BY <1>1, <1>3 DEF Streaming, Speaking
  <2> QED
    BY <1>1, <1>3, <2>1 DEF Streaming, StreamsKept
<1>8. Live' = Live /\ Live \subseteq Given /\ members' \subseteq Given /\ pointer' \in Given \cup {None}
  BY <1>1, <1>3 DEF Live, Known
<1>9. KnownFrame(running'[h])
  BY <1>2, <1>5 DEF KnownFrame
<1>10. excused \/ Keeps(h)
  BY <1>2, <1>3, <1>5, <1>8 DEF Keeps, At
<1> QED
  BY <1>2, <1>3, <1>5, <1>6, <1>7, <1>8, <1>9, <1>10, VsQuiet

\* An event is counted.
LEMMA VsCounted ==
    ASSUME VsTyped, Counted
    PROVE  /\ used' \in [events : Nat, sessions : 0..MaxSessions, streams : SUBSET Streams]
           /\ used'.sessions = used.sessions /\ used'.streams = used.streams
  BY DEF VsTyped, Counted

\* A session that was given out by its number.
LEMMA VsEarlier ==
    ASSUME VsTyped, NEW i \in SessionIds, i <= used.sessions
    PROVE  i \in Given /\ i # None
<1>1. used.sessions \in 0..MaxSessions /\ MaxSessions \in Nat /\ None \notin 1..MaxSessions
  BY ProcessesAssumption DEF VsTyped
<1>2. i \in 1..MaxSessions
  BY DEF SessionIds
<1>3. i \in 1..used.sessions
  BY <1>1, <1>2
<1> QED
  BY <1>1, <1>2, <1>3 DEF Given

\* The events of the client, the creation of a session apart, and the cleanup.
LEMMA VsEvents ==
    ASSUME VsInv, NEW h \in Handlers,
           \/ handleMessage(h) \/ handleInterrupt(h) \/ handleTerminate(h) \/ handlePing(h)
           \/ \E interrupt \in BOOLEAN, to \in ConversationState \cup {None} :
                 handleSessionAction(h, interrupt, to)
           \/ \E i \in SessionIds : handleConnection(h, i) \/ handleDisconnect(h, i)
           \/ \E i \in SessionIds : cleanupStaleSessions(h, i)
    PROVE  VsInv'
<1>1. VsTyped /\ Known /\ h \in Procs /\ None \in Given \cup {None}
  BY DEF VsInv, Procs
<1>2. ASSUME NEW prog, Starts(prog), Head(prog).op = "pointer", OnEvent(h, prog, None), UNCHANGED excused
      PROVE  VsInv'
  <2>1. Begin(h, prog, None) /\ Counted
    BY <1>2 DEF OnEvent
  <2> QED
    BY <1>1, <1>2, <2>1, VsCounted, VsBegin
<1>3. ASSUME NEW prog, Starts(prog), NEW i \in SessionIds, i <= used.sessions, OnEvent(h, prog, i), UNCHANGED excused
      PROVE  VsInv'
  <2>1. Begin(h, prog, i) /\ Counted
    BY <1>3 DEF OnEvent
  <2>2. i \in Given /\ i # None
    BY <1>1, <1>3, VsEarlier
  <2> QED
    BY <1>1, <1>3, <2>1, <2>2, VsCounted, VsBegin
<1>4. CASE handleMessage(h) \/ handleInterrupt(h) \/ handleTerminate(h) \/ handlePing(h)
  BY <1>2, <1>4, VsPrograms DEF handleMessage, handleInterrupt, handleTerminate, handlePing
<1>5. ASSUME NEW interrupt \in BOOLEAN, NEW to \in ConversationState \cup {None},
             handleSessionAction(h, interrupt, to)
      PROVE  VsInv'
  <2>1. OnEvent(h, ActionProgram(interrupt, to), None) /\ UNCHANGED excused
    BY <1>5 DEF handleSessionAction
  <2>2. Starts(ActionProgram(interrupt, to)) /\ Head(ActionProgram(interrupt, to)).op = "pointer"
    BY VsOtherPrograms
  <2> QED
    BY <1>2, <2>1, <2>2
<1>6. ASSUME NEW i \in SessionIds, handleConnection(h, i) \/ handleDisconnect(h, i)
      PROVE  VsInv'
  BY <1>3, <1>6, VsOtherPrograms DEF handleConnection, handleDisconnect
<1>7. ASSUME NEW i \in SessionIds, cleanupStaleSessions(h, i)
      PROVE  VsInv'
  <2>1. /\ sessions[i] # None /\ Begin(h, Terminate, i) /\ used' = used /\ UNCHANGED excused
    BY <1>7 DEF cleanupStaleSessions, IsStale
  <2>2. i \in Given /\ i \in SessionIds
    BY <1>1, <2>1 DEF Known, Live
  <2>3. i # None
    BY <2>2, ProcessesAssumption DEF SessionIds
  <2>4. used' \in [events : Nat, sessions : 0..MaxSessions, streams : SUBSET Streams]
    BY <1>1, <2>1 DEF VsTyped
  <2> QED
    BY <1>1, <2>1, <2>2, <2>3, <2>4, VsPrograms, VsBegin
<1> QED
  BY <1>4, <1>5, <1>6, <1>7

TwoMore(s, x, y) == s \o <<x, y>>

\* What two operations after a program do to it.
LEMMA VsTwoMore ==
    ASSUME NEW s \in Seq(Operation), NEW x \in Operation, NEW y \in Operation
    PROVE  /\ TwoMore(s, x, y) \in Seq(Operation) /\ Len(TwoMore(s, x, y)) = Len(s) + 2
           /\ TwoMore(s, x, y) # <<>>
           /\ \A k \in 1..Len(s) : TwoMore(s, x, y)[k] = s[k]
           /\ TwoMore(s, x, y)[Len(s) + 1] = x /\ TwoMore(s, x, y)[Len(s) + 2] = y
<1> DEFINE v == <<x, y>>
<1> DEFINE u == s \o v
<1>1. v \in Seq(Operation) /\ Len(v) = 2 /\ v[1] = x /\ v[2] = y
  OBVIOUS
<1> HIDE DEF v
<1>2. /\ u \in Seq(Operation) /\ Len(u) = Len(s) + Len(v)
      /\ \A k \in 1..Len(s) : u[k] = s[k]
      /\ \A k \in 1..Len(v) : u[Len(s) + k] = v[k]
  BY <1>1, VsConcat
<1> HIDE DEF u
<1>3. 1 \in 1..Len(v) /\ 2 \in 1..Len(v)
  BY <1>1
<1>4. u[Len(s) + 1] = x /\ u[Len(s) + 2] = y
  BY <1>1, <1>2, <1>3
<1>5. Len(u) = Len(s) + 2 /\ Len(s) \in Nat
  BY <1>1, <1>2
<1>6. u # <<>>
  BY <1>5
<1>7. TwoMore(s, x, y) = u
  BY DEF u, v, TwoMore
<1> QED
  BY <1>2, <1>4, <1>5, <1>6, <1>7

\* The whole creation.
LEMMA VsCreation ==
    LET prog == Programs.create IN
    /\ prog \in Seq(Operation) /\ prog # <<>> /\ Len(prog) = 8 /\ Head(prog).op = "members"
    /\ IsCreate(prog) /\ WellFormed(prog)
    /\ \A k \in DOMAIN prog : prog[k].op \in {"list", "limit"} => prog[k].ids = {}
<1> DEFINE a == Op("members")
<1> DEFINE b == [op |-> "list", ids |-> {}]
<1> DEFINE c == [op |-> "limit", ids |-> {}]
<1> DEFINE d == Op("new")
<1> DEFINE e == Op("add")
<1> DEFINE f == Update("touch")
<1> DEFINE g == Op("point")
<1> DEFINE prog == <<a, b>> \o <<a, c>> \o <<d, e>> \o <<f, g>>
<1>1. Programs.create = prog
  BY DEF Programs, List, UseSession
<1>2. /\ a \in Operation /\ a.op = "members" /\ b.op = "list" /\ b.ids = {} /\ c.op = "limit" /\ c.ids = {}
      /\ d \in Operation /\ d.op = "new" /\ e \in Operation /\ e.op = "add"
      /\ f \in Operation /\ f.op = "update" /\ g \in Operation /\ g.op = "point"
  BY VsOps DEF PlainNames, Targets
<1>3. b \in Operation /\ c \in Operation
  BY DEF Operation
<1>4. /\ a \in Operation /\ b \in Operation /\ c \in Operation /\ d \in Operation
      /\ e \in Operation /\ f \in Operation /\ g \in Operation
  BY <1>2, <1>3
<1> HIDE DEF a, b, c, d, e, f, g
<1> DEFINE two == <<a, b>>
<1> DEFINE four == TwoMore(two, a, c)
<1> DEFINE six == TwoMore(four, d, e)
<1>5. two \in Seq(Operation) /\ Len(two) = 2 /\ two[1] = a /\ two[2] = b
  BY <1>4
<1> HIDE DEF two
<1>6. /\ four \in Seq(Operation) /\ Len(four) = 4 /\ four[1] = a /\ four[2] = b /\ four[3] = a /\ four[4] = c
  <2>p. two \in Seq(Operation) /\ a \in Operation /\ c \in Operation
    BY <1>4, <1>5
  <2>l. Len(two) = 2
    BY <1>4, <1>5
  <2>q1. TwoMore(two, a, c) \in Seq(Operation) /\ TwoMore(two, a, c) # <<>>
    BY <2>p, VsTwoMore
  <2>q2. Len(TwoMore(two, a, c)) = Len(two) + 2
    BY <2>p, VsTwoMore
  <2>q3. \A k \in 1..Len(two) : TwoMore(two, a, c)[k] = two[k]
    BY <2>p, VsTwoMore
  <2>q4. TwoMore(two, a, c)[Len(two) + 1] = a /\ TwoMore(two, a, c)[Len(two) + 2] = c
    BY <2>p, VsTwoMore
  <2>q. four = TwoMore(two, a, c)
    OBVIOUS
  <2> HIDE DEF four
  <2>1. /\ four \in Seq(Operation) /\ Len(four) = 2 + 2 /\ \A k \in 1..2 : four[k] = two[k]
        /\ four[2 + 1] = a /\ four[2 + 2] = c
    BY <2>l, <2>q, <2>q1, <2>q2, <2>q3, <2>q4
  <2>2. 1 \in 1..2 /\ 2 \in 1..2 /\ 2 + 1 = 3 /\ 2 + 2 = 4
    OBVIOUS
  <2> QED
    BY <1>5, <2>1, <2>2
<1> HIDE DEF four
<1>7. /\ six \in Seq(Operation) /\ Len(six) = 6 /\ six[1] = a /\ six[2] = b /\ six[3] = a /\ six[4] = c
      /\ six[5] = d /\ six[6] = e
  <2>p. four \in Seq(Operation) /\ d \in Operation /\ e \in Operation
    BY <1>4, <1>6
  <2>l. Len(four) = 4
    BY <1>4, <1>6
  <2>q1. TwoMore(four, d, e) \in Seq(Operation) /\ TwoMore(four, d, e) # <<>>
    BY <2>p, VsTwoMore
  <2>q2. Len(TwoMore(four, d, e)) = Len(four) + 2
    BY <2>p, VsTwoMore
  <2>q3. \A k \in 1..Len(four) : TwoMore(four, d, e)[k] = four[k]
    BY <2>p, VsTwoMore
  <2>q4. TwoMore(four, d, e)[Len(four) + 1] = d /\ TwoMore(four, d, e)[Len(four) + 2] = e
    BY <2>p, VsTwoMore
  <2>q. six = TwoMore(four, d, e)
    OBVIOUS
  <2> HIDE DEF six
  <2>1. /\ six \in Seq(Operation) /\ Len(six) = 4 + 2 /\ \A k \in 1..4 : six[k] = four[k]
        /\ six[4 + 1] = d /\ six[4 + 2] = e
    BY <2>l, <2>q, <2>q1, <2>q2, <2>q3, <2>q4
  <2>2. /\ 1 \in 1..4 /\ 2 \in 1..4 /\ 3 \in 1..4 /\ 4 \in 1..4 /\ 4 + 1 = 5 /\ 4 + 2 = 6
    OBVIOUS
  <2> QED
    BY <1>6, <2>1, <2>2
<1> HIDE DEF six
<1>8. /\ prog \in Seq(Operation) /\ Len(prog) = 8 /\ prog # <<>>
      /\ prog[1] = a /\ prog[2] = b /\ prog[3] = a /\ prog[4] = c
      /\ prog[5] = d /\ prog[6] = e /\ prog[7] = f /\ prog[8] = g
  <2>e. prog = TwoMore(six, f, g)
    BY DEF six, four, two, TwoMore
  <2> HIDE DEF prog
  <2>p. six \in Seq(Operation) /\ f \in Operation /\ g \in Operation
    BY <1>4, <1>7
  <2>l. Len(six) = 6
    BY <1>4, <1>7
  <2>q1. TwoMore(six, f, g) \in Seq(Operation) /\ TwoMore(six, f, g) # <<>>
    BY <2>p, VsTwoMore
  <2>q2. Len(TwoMore(six, f, g)) = Len(six) + 2
    BY <2>p, VsTwoMore
  <2>q3. \A k \in 1..Len(six) : TwoMore(six, f, g)[k] = six[k]
    BY <2>p, VsTwoMore
  <2>q4. TwoMore(six, f, g)[Len(six) + 1] = f /\ TwoMore(six, f, g)[Len(six) + 2] = g
    BY <2>p, VsTwoMore
  <2>q. prog = TwoMore(six, f, g)
    BY <2>e
  <2>1. /\ prog \in Seq(Operation) /\ Len(prog) = 6 + 2 /\ \A k \in 1..6 : prog[k] = six[k]
        /\ prog[6 + 1] = f /\ prog[6 + 2] = g /\ prog # <<>>
    BY <2>l, <2>q, <2>q1, <2>q2, <2>q3, <2>q4
  <2>2. /\ 1 \in 1..6 /\ 2 \in 1..6 /\ 3 \in 1..6 /\ 4 \in 1..6 /\ 5 \in 1..6 /\ 6 \in 1..6
        /\ 6 + 1 = 7 /\ 6 + 2 = 8
    OBVIOUS
  <2> QED
    BY <1>7, <2>1, <2>2
<1> HIDE DEF prog
<1>9. DOMAIN prog = 1..8 /\ Head(prog) = prog[1]
  BY <1>8, VsTail
<1>10. \A k \in 1..8 : k = 1 \/ k = 2 \/ k = 3 \/ k = 4 \/ k = 5 \/ k = 6 \/ k = 7 \/ k = 8
  OBVIOUS
<1>11. \A k \in 1..8 : prog[k].op = CreateNames[k]
  <2>1. /\ CreateNames[1] = "members" /\ CreateNames[2] = "list" /\ CreateNames[3] = "members"
        /\ CreateNames[4] = "limit" /\ CreateNames[5] = "new" /\ CreateNames[6] = "add"
        /\ CreateNames[7] = "update" /\ CreateNames[8] = "point"
    BY DEF CreateNames
  <2> QED
    BY <1>2, <1>8, <1>10, <2>1
<1>12. \A k \in 1..8 : prog[k].op # "remove" /\ (prog[k].op \in {"list", "limit"} => prog[k].ids = {})
  BY <1>2, <1>8, <1>10
<1>13. IsCreate(prog)
  <2>1. 1 \in 1..8
    OBVIOUS
  <2> QED
    BY <1>2, <1>8, <1>9, <2>1 DEF IsCreate, CreateOps
<1>14. WellFormed(prog)
  <2>1. \A k \in 1..8 : 8 - 8 + k = k
    OBVIOUS
  <2>2. \A k \in 2..8 : k \in 1..8
    OBVIOUS
  <2> QED
    BY <1>8, <1>11, <1>12, <2>1, <2>2 DEF WellFormed
<1> QED
  BY <1>1, <1>2, <1>8, <1>9, <1>12, <1>13, <1>14

\* A creation begins alone, or there is an excuse.
LEMMA VsCreateSession ==
    ASSUME VsInv, NEW h \in Handlers, createSession(h)
    PROVE  VsInv'
<1> DEFINE prog == Programs.create
<1>1. VsTyped /\ Known /\ Formed /\ Streaming /\ h \in Procs /\ Procs = Handlers \cup Streams
  BY DEF VsInv, Procs
<1>2. Counted /\ Begin(h, prog, None)
      /\ excused' = (excused \/ \E g \in Handlers : running[g] # AtRest /\ Creating(g))
  BY DEF createSession, OnEvent
<1>3. /\ prog \in Seq(Operation) /\ prog # <<>> /\ Len(prog) = 8 /\ Head(prog).op = "members"
      /\ IsCreate(prog) /\ WellFormed(prog)
      /\ \A k \in DOMAIN prog : prog[k].op \in {"list", "limit"} => prog[k].ids = {}
  BY VsCreation
<1> HIDE DEF prog
<1>4. /\ running[h].ops = <<>> /\ running' = [running EXCEPT ![h] = [ops |-> prog, sid |-> None]]
      /\ sessions' = sessions /\ members' = members /\ pointer' = pointer
      /\ active' = active /\ stopped' = stopped /\ failed' = failed
  BY <1>2 DEF Begin, AtRest, redis
<1>5. Turn(h) /\ running'[h].ops = prog /\ running'[h].sid = None
  <2>1. prog \in Seq(Operation) /\ None \in SessionIds \cup {None} /\ VsTyped /\ h \in Procs
    BY <1>1, <1>3
  <2>2. running' = [running EXCEPT ![h] = [ops |-> prog, sid |-> None]]
    BY <1>4
  <2> QED
    BY <2>1, <2>2, VsBecome
<1>6. /\ used' \in [events : Nat, sessions : 0..MaxSessions, streams : SUBSET Streams]
      /\ used'.sessions = used.sessions /\ used'.streams = used.streams
  BY <1>1, <1>2, VsCounted
<1>7. excused' \in BOOLEAN
  BY <1>1, <1>2 DEF VsTyped
<1>8. VsTyped'
  BY <1>1, <1>4, <1>5, <1>6, <1>7 DEF VsTyped, Turn
<1>9. Given' = Given /\ Live' = Live
  BY <1>4, <1>6 DEF Given, Live
<1>10. \A q \in Procs \ {h} : running'[q] = running[q]
  BY <1>5 DEF Turn
<1>11. Known'
  <2>1. ASSUME NEW q \in Procs
        PROVE  /\ running'[q].sid \in Given \cup {None}
               /\ \A k \in DOMAIN running'[q].ops :
                     running'[q].ops[k].op \in {"list", "limit"} => running'[q].ops[k].ids \subseteq Given
               /\ running'[q].sid = None /\ running'[q].ops # <<>>
                     => Head(running'[q].ops).op \in {"pointer", "members", "list", "limit", "new"}
    <3>1. CASE q = h
      BY <1>3, <1>5, <3>1
    <3>2. CASE q # h
      BY <1>1, <1>10, <3>2 DEF Known
    <3> QED
      BY <3>1, <3>2
  <2>2. Live' \subseteq Given' /\ members' \subseteq Given' /\ pointer' \in Given' \cup {None}
    BY <1>1, <1>4, <1>9 DEF Known
  <2> QED
    BY <1>9, <2>1, <2>2 DEF Known
<1>12. Formed'
  <2>1. h \notin Streams
    BY ProcessesAssumption
  <2> QED
    BY <1>1, <1>3, <1>5, <1>10, <2>1 DEF Formed
<1>13. Streaming'
  <2>1. h \in active => h \in failed
    BY <1>1, <1>4 DEF Streaming, Speaking
  <2>2. active \subseteq Procs
    BY <1>1 DEF VsTyped
  <2> QED
    BY <1>1, <1>4, <1>10, <2>1, <2>2 DEF Streaming
<1>14. ~excused' => Alone'
  <2> SUFFICES ASSUME ~excused' PROVE Alone'
    OBVIOUS
  <2>1. ~excused /\ \A g \in Handlers : running[g] = AtRest \/ ~Creating(g)
    BY <1>1, <1>2 DEF VsTyped
  <2>2. Alone
    BY <2>1 DEF VsInv
  <2>3. ASSUME NEW q \in Procs PROVE ~IsCreate(running[q].ops)
    <3>1. CASE q \in Streams
      BY <1>1, <3>1 DEF Formed
    <3>2. CASE q \in Handlers /\ running[q] = AtRest
      BY <3>2, VsShort DEF AtRest
    <3>3. CASE q \in Handlers /\ ~Creating(q)
      BY <3>3 DEF Creating, IsCreate, CreateOps
    <3> QED
      BY <1>1, <2>1, <3>1, <3>2, <3>3
  <2>4. ASSUME NEW q \in Procs, NEW name \in CreateOps, At(q, name) PROVE FALSE
    BY <2>3, <2>4, VsStage
  <2>5. \A q \in Procs : IsCreate(running'[q].ops) => q = h
    BY <1>10, <2>3
  <2>6. \A q \in Procs : At(q, "list")' \/ At(q, "add")' => FALSE
    <3>1. ASSUME NEW q \in Procs, At(q, "list")' \/ At(q, "add")' PROVE FALSE
      <4>1. q # h
        BY <1>3, <1>5, <3>1 DEF At
      <4>2. At(q, "list") \/ At(q, "add")
        BY <1>10, <3>1, <4>1 DEF At
      <4> QED
        BY <2>4, <4>2 DEF CreateOps
    <3> QED
      BY <3>1
  <2>7. \A q \in Procs : At(q, "remove")' => q # h /\ At(q, "remove")
    BY <1>3, <1>5, <1>10 DEF At
  <2>8. Live \subseteq members
    BY <2>2, <2>4 DEF Alone, CreateOps
  <2>9. \A q \in Procs : At(q, "remove")' /\ running'[q].sid # None => sessions'[running'[q].sid] = None
    BY <1>4, <1>10, <2>2, <2>7 DEF Alone
  <2>10. \A q \in Procs : IsCreate(running'[q].ops) => ~(Len(running'[q].ops) <= 6)
    <3>1. ~(8 <= 6)
      OBVIOUS
    <3> QED
      BY <1>3, <1>5, <2>5, <3>1
  <2>11. \A i, j \in Live' : i = j
    BY <1>9, <2>2 DEF Alone
  <2> QED
    BY <1>4, <1>9, <2>5, <2>6, <2>8, <2>9, <2>10, <2>11 DEF Alone
<1> QED
  BY <1>8, <1>11, <1>12, <1>13, <1>14 DEF VsInv

\* Time passes: sessions go stale, and what Redis keeps expires.
LEMMA VsTime ==
    ASSUME VsInv, (\E i \in SessionIds : HeartbeatMissed(i)) \/ Expires
    PROVE  VsInv'
<1>1. VsTyped /\ Known /\ Formed /\ Streaming
  BY DEF VsInv
<1>2. /\ running' = running /\ active' = active /\ stopped' = stopped /\ failed' = failed
      /\ used' \in [events : Nat, sessions : 0..MaxSessions, streams : SUBSET Streams]
      /\ used'.sessions = used.sessions /\ used'.streams = used.streams
  <2>1. CASE Expires
    BY <1>1, <2>1, VsCounted DEF Expires
  <2>2. ASSUME NEW i \in SessionIds, HeartbeatMissed(i)
        PROVE  /\ running' = running /\ active' = active /\ stopped' = stopped /\ failed' = failed
               /\ Counted
    BY <2>2 DEF HeartbeatMissed, ghosts
  <2> QED
    BY <1>1, <2>1, <2>2, VsCounted
<1>3. /\ sessions' \in [SessionIds -> Session \cup {None}]
      /\ \A i \in SessionIds : sessions[i] = None => sessions'[i] = None
      /\ members' \subseteq members /\ pointer' \in {pointer, None} /\ excused' \in BOOLEAN
      /\ excused' \/ (~excused /\ members' = members)
  <2>1. ASSUME NEW i \in SessionIds, HeartbeatMissed(i)
        PROVE  /\ sessions' \in [SessionIds -> Session \cup {None}]
               /\ \A j \in SessionIds : sessions[j] = None => sessions'[j] = None
               /\ members' = members /\ pointer' = pointer /\ excused' = excused
    <3>1. /\ sessions[i] # None /\ sessions' = [sessions EXCEPT ![i].fresh = FALSE]
          /\ members' = members /\ pointer' = pointer /\ excused' = excused
      BY <2>1 DEF HeartbeatMissed, ghosts
    <3>2. sessions \in [SessionIds -> Session \cup {None}] /\ sessions[i] \in Session
      BY <1>1, <3>1 DEF VsTyped
    <3>3. [sessions[i] EXCEPT !.fresh = FALSE] \in Session
      BY <3>2 DEF Session
    <3> QED
      BY <3>1, <3>2, <3>3
  <2>2. CASE Expires
    <3>1. sessions \in [SessionIds -> Session \cup {None}] /\ excused \in BOOLEAN
      BY <1>1 DEF VsTyped
    <3>2. CASE \E i \in SessionIds : /\ sessions' = [sessions EXCEPT ![i] = None]
                                     /\ UNCHANGED <<members, pointer, excused>>
      BY <3>1, <3>2
    <3>3. CASE members' = {} /\ excused' = TRUE /\ UNCHANGED <<sessions, pointer>>
      BY <3>1, <3>3
    <3>4. CASE pointer' = None /\ UNCHANGED <<sessions, members, excused>>
      BY <3>1, <3>4
    <3> QED
      BY <2>2, <3>2, <3>3, <3>4 DEF Expires
  <2> QED
    BY <1>1, <2>1, <2>2 DEF VsTyped
<1>4. Given' = Given /\ Live' \subseteq Live
  BY <1>2, <1>3 DEF Given, Live
<1>5. VsTyped'
  BY <1>1, <1>2, <1>3 DEF VsTyped
<1>6. Known'
  BY <1>1, <1>2, <1>3, <1>4 DEF Known
<1>7. Formed' /\ Streaming'
  BY <1>1, <1>2 DEF Formed, Streaming
<1>8. ~excused' => Alone'
  <2> SUFFICES ASSUME ~excused' PROVE Alone'
    OBVIOUS
  <2>1. Alone /\ members' = members
    BY <1>3 DEF VsInv
  <2>2. \A q \in Procs : running[q].sid \in SessionIds \cup {None}
    BY <1>1 DEF VsTyped, Frame
  <2>3. \A q \in Procs, name \in {"add", "list", "remove"} : At(q, name)' <=> At(q, name)
    BY <1>2 DEF At
  <2> QED
    BY <1>2, <1>3, <1>4, <2>1, <2>2, <2>3 DEF Alone
<1> QED
  BY <1>5, <1>6, <1>7, <1>8 DEF VsInv

\* A command of a handler throws, and the handler ends.
LEMMA VsThrows ==
    ASSUME VsInv, NEW p \in Handlers, Throws(p)
    PROVE  VsInv'
<1>1. /\ Do(p, <<>>) /\ sessions' = sessions /\ members' = members /\ pointer' = pointer
      /\ active' = active /\ used' = used /\ stopped' = stopped /\ failed' = failed
      /\ excused' = (excused \/ At(p, "add"))
  BY DEF Throws, redis
<1>2. VsTyped /\ Known /\ Streaming /\ p \in Procs
  BY DEF VsInv, Procs
<1>3. Turn(p) /\ running'[p].ops = <<>> /\ running'[p].sid = None
  BY <1>1, <1>2, VsShort, VsDo
<1>4. VsTyped'
  BY <1>1, <1>2, <1>3, VsTypes DEF VsTyped
<1>5. p \notin active
  BY <1>2, ProcessesAssumption DEF VsTyped
<1>6. StreamsKept(p)
  BY <1>1, <1>2, <1>5 DEF StreamsKept, Streaming
<1>7. /\ Live' = Live /\ Live' \subseteq Given /\ members' \subseteq Given /\ pointer' \in Given \cup {None}
      /\ used'.sessions = used.sessions
  BY <1>1, <1>2 DEF Known, Live
<1>8. KnownFrame(running'[p])
  BY <1>3 DEF KnownFrame
<1>9. excused' \/ Keeps(p)
  BY <1>1, <1>3, <1>7 DEF Keeps
<1>10. WellFormed(running'[p].ops) /\ ~IsCreate(running'[p].ops)
  BY <1>3, VsShort
<1> QED
  BY <1>2, <1>3, <1>4, <1>6, <1>7, <1>8, <1>9, <1>10, VsQuiet

\* The process ends: no program is left, and only a creation that was about to
\* add its session leaves one that the set does not know.
LEMMA VsRestart ==
    ASSUME VsInv, ServerRestarts
    PROVE  VsInv'
<1>1. /\ running' = [p \in Procs |-> AtRest] /\ active' = {}
      /\ sessions' = sessions /\ members' = members /\ pointer' = pointer
      /\ used' = used /\ stopped' = stopped /\ failed' = failed
      /\ excused' = (excused \/ \E p \in Procs : At(p, "add"))
  BY DEF ServerRestarts, redis
<1>2. VsTyped /\ Known
  BY DEF VsInv
<1>3. AtRest.ops = <<>> /\ AtRest.sid = None /\ AtRest \in Frame
  BY VsShort DEF AtRest, Frame
<1>4. \A p \in Procs : running'[p].ops = <<>> /\ running'[p].sid = None
  BY <1>1, <1>3
<1>5. VsTyped'
  <2>1. running' \in [Procs -> Frame]
    BY <1>1, <1>3
  <2> QED
    BY <1>1, <1>2, <2>1 DEF VsTyped
<1>6. DOMAIN <<>> = {} /\ WellFormed(<<>>) /\ ~IsCreate(<<>>)
  BY VsShort
<1>7. Live' = Live /\ Given' = Given
  BY <1>1 DEF Live, Given
<1>8. Known'
  BY <1>1, <1>2, <1>4, <1>6, <1>7 DEF Known
<1>9. Formed' /\ Streaming'
  BY <1>1, <1>4, <1>6 DEF Formed, Streaming, Procs
<1>10. ASSUME ~excused' PROVE Alone'
  <2>1. ~excused /\ \A p \in Procs : ~At(p, "add")
    BY <1>1, <1>10
  <2>2. Live \subseteq members /\ \A i, j \in Live : i = j
    BY <2>1 DEF VsInv, Alone
  <2> QED
    BY <1>1, <1>4, <1>6, <1>7, <2>2 DEF Alone, At
<1> QED
  BY <1>5, <1>8, <1>9, <1>10 DEF VsInv

\* The program of an answer.
LEMMA VsSpeak ==
    Harmless(Speak) /\ Speak # <<>> /\ Speaking(Speak) /\ Head(Speak).op = "speaking"
<1> DEFINE sp == Op("speaking")
<1> DEFINE a == Update("RESPONDING")
<1> DEFINE k1 == Op("ask")
<1> DEFINE ch == Op("chunk")
<1> DEFINE b == Update("touch")
<1> DEFINE c == Update("LISTENING")
<1> DEFINE cl == Op("close")
<1>1. /\ sp \in Operation /\ sp.op = "speaking" /\ a \in Operation /\ a.op = "update"
      /\ k1 \in Operation /\ k1.op = "ask" /\ ch \in Operation /\ ch.op = "chunk"
      /\ b \in Operation /\ b.op = "update" /\ c \in Operation /\ c.op = "update"
      /\ cl \in Operation /\ cl.op = "close"
  BY VsOps DEF PlainNames, Targets
<1>2. Speak = <<sp, a, k1, ch, ch, sp, b, c, cl>>
  BY DEF Speak
<1>3. /\ sp \in Operation /\ a \in Operation /\ k1 \in Operation /\ ch \in Operation
      /\ b \in Operation /\ c \in Operation /\ cl \in Operation
  BY <1>1
<1> HIDE DEF sp, a, k1, ch, b, c, cl
<1>4. /\ Speak \in Seq(Operation) /\ Len(Speak) = 9 /\ Speak # <<>> /\ Head(Speak) = sp
      /\ Speak[1] = sp /\ Speak[2] = a /\ Speak[3] = k1 /\ Speak[4] = ch /\ Speak[5] = ch
      /\ Speak[6] = sp /\ Speak[7] = b /\ Speak[8] = c /\ Speak[9] = cl
  BY <1>2, <1>3
<1>5. \A k \in 1..9 : k = 1 \/ k = 2 \/ k = 3 \/ k = 4 \/ k = 5 \/ k = 6 \/ k = 7 \/ k = 8 \/ k = 9
  OBVIOUS
<1>6. \A k \in 1..9 : Speak[k].op \in StreamOps
  BY <1>1, <1>4, <1>5 DEF StreamOps
<1>7. \A k \in 1..Len(Speak) : Speak[k].op \notin CreateOps /\ Speak[k].op # "remove"
  BY <1>4, <1>6 DEF StreamOps, CreateOps
<1>8. Harmless(Speak)
  BY <1>4, <1>7 DEF Harmless
<1>9. Speaking(Speak)
  BY <1>1, <1>4, <1>6 DEF Speaking
<1> QED
  BY <1>1, <1>4, <1>8, <1>9

\* A handler opens a stream for its answer, and is done.
LEMMA VsOpenStream ==
    ASSUME VsInv, NEW p \in Procs, OpenStream(p)
    PROVE  VsInv'
<1>1. VsTyped /\ Known /\ Formed /\ Streaming /\ Procs = Handlers \cup Streams
  BY DEF VsInv, Procs
<1>2. At(p, "open") /\ UNCHANGED <<redis, ghosts>>
  BY DEF OpenStream
<1>3. PICK s \in Streams \ used.streams :
          /\ active' = active \cup {s}
          /\ used' = [used EXCEPT !.streams = @ \cup {s}]
          /\ running' = [running EXCEPT ![p] = AtRest, ![s] = [ops |-> Speak, sid |-> running[p].sid]]
  BY DEF OpenStream
<1>4. /\ sessions' = sessions /\ members' = members /\ pointer' = pointer
      /\ stopped' = stopped /\ failed' = failed /\ excused' = excused
  BY <1>2 DEF redis, ghosts
<1> DEFINE i == running[p].sid
<1>5. i \in SessionIds /\ i \in Given /\ i # None
  BY <1>2, VsOwn
<1>6. /\ Speak \in Seq(Operation) /\ Speak # <<>> /\ WellFormed(Speak) /\ ~IsCreate(Speak)
      /\ Head(Speak).op = "speaking" /\ Speaking(Speak)
  BY VsSpeak, VsHarmless
<1>7. s \in Procs /\ s \in Streams /\ s \notin used.streams /\ s \notin stopped
  BY <1>1, <1>3 DEF VsTyped
<1>8. AtRest.ops = <<>> /\ AtRest.sid = None /\ AtRest \in Frame
  BY VsShort DEF AtRest, Frame
<1>9. [ops |-> Speak, sid |-> i] \in Frame
  BY <1>5, <1>6 DEF Frame
<1>10. /\ running' \in [Procs -> Frame]
       /\ running'[s].ops = Speak /\ running'[s].sid = i
       /\ p # s => running'[p] = AtRest
       /\ \A q \in Procs \ {p, s} : running'[q] = running[q]
  <2>1. running \in [Procs -> Frame]
    BY <1>1 DEF VsTyped
  <2> QED
    BY <1>3, <1>7, <1>8, <1>9, <2>1
<1>11. /\ used' \in [events : Nat, sessions : 0..MaxSessions, streams : SUBSET Streams]
       /\ used'.sessions = used.sessions /\ used'.streams = used.streams \cup {s}
  BY <1>1, <1>3, <1>7 DEF VsTyped
<1>12. VsTyped'
  BY <1>1, <1>3, <1>4, <1>10, <1>11 DEF VsTyped
<1>13. Given' = Given /\ Live' = Live
  BY <1>4, <1>11 DEF Given, Live
<1>14. ~IsCreate(<<>>) /\ WellFormed(<<>>) /\ DOMAIN <<>> = {}
  BY VsShort
<1>15. ASSUME NEW q \in Procs
       PROVE  \/ q = s /\ running'[q].ops = Speak /\ running'[q].sid = i
              \/ running'[q].ops = <<>> /\ running'[q].sid = None
              \/ running'[q] = running[q]
  BY <1>8, <1>10
<1>16. Known'
  <2>1. \A k \in DOMAIN Speak : Speak[k].op \notin {"list", "limit"}
    BY <1>6 DEF IsCreate, CreateOps
  <2>2. ASSUME NEW q \in Procs
        PROVE  /\ running'[q].sid \in Given \cup {None}
               /\ \A k \in DOMAIN running'[q].ops :
                     running'[q].ops[k].op \in {"list", "limit"} => running'[q].ops[k].ids \subseteq Given
               /\ running'[q].sid = None /\ running'[q].ops # <<>>
                     => Head(running'[q].ops).op \in {"pointer", "members", "list", "limit", "new"}
    <3>1. CASE running'[q].ops = Speak /\ running'[q].sid = i
      BY <1>5, <2>1, <3>1
    <3>2. CASE running'[q].ops = <<>> /\ running'[q].sid = None
      BY <1>14, <3>2
    <3>3. CASE running'[q] = running[q]
      BY <1>1, <3>3 DEF Known
    <3> QED
      BY <1>15, <3>1, <3>2, <3>3
  <2>3. Live' \subseteq Given' /\ members' \subseteq Given' /\ pointer' \in Given' \cup {None}
    BY <1>1, <1>4, <1>13 DEF Known
  <2> QED
    BY <1>13, <2>2, <2>3 DEF Known
<1>17. Formed'
  <2>1. \A q \in Procs : WellFormed(running'[q].ops)
    BY <1>1, <1>6, <1>14, <1>15 DEF Formed
  <2>2. \A q \in Streams : ~IsCreate(running'[q].ops)
    BY <1>1, <1>6, <1>14, <1>15 DEF Formed
  <2> QED
    BY <2>1, <2>2 DEF Formed
<1>18. Streaming'
  <2>1. p \in active => p \in failed
    BY <1>1, <1>2 DEF Streaming, Speaking, VsTyped, At, StreamOps
  <2>2. active \subseteq Procs
    BY <1>1 DEF VsTyped
  <2>3. ASSUME NEW q \in active' PROVE q \in failed' \/ Speaking(running'[q].ops)
    <3>1. CASE q = s
      BY <1>6, <1>10, <3>1
    <3>2. CASE q # s /\ q = p
      BY <1>3, <1>4, <2>1, <2>3, <3>2
    <3>3. CASE q # s /\ q # p
      BY <1>1, <1>3, <1>4, <1>10, <2>2, <2>3, <3>3 DEF Streaming
    <3> QED
      BY <3>1, <3>2, <3>3
  <2>4. active' \cap stopped' = {}
    BY <1>1, <1>3, <1>4, <1>7 DEF Streaming
  <2> QED
    BY <2>3, <2>4 DEF Streaming
<1>19. ~excused => Alone'
  <2> SUFFICES ASSUME ~excused PROVE Alone'
    OBVIOUS
  <2>1. Alone
    BY DEF VsInv
  <2>2. ASSUME NEW q \in Procs, IsCreate(running'[q].ops) PROVE running'[q] = running[q]
    BY <1>6, <1>14, <1>15, <2>2
  <2>3. ASSUME NEW q \in Procs, NEW name \in {"list", "add", "remove"}, At(q, name)'
        PROVE  running'[q] = running[q] /\ At(q, name)
    <3>1. running'[q].ops # <<>> /\ Head(running'[q].ops).op = name
      BY <2>3 DEF At
    <3>2. running'[q] = running[q]
      BY <1>6, <1>15, <3>1
    <3> QED
      BY <3>1, <3>2 DEF At
  <2>4. ASSUME NEW q \in Procs, At(q, "add") PROVE At(q, "add")'
    <3>1. q \notin Streams
      BY <2>4, VsStage DEF CreateOps
    <3>2. q # p
      BY <1>2, <2>4 DEF At
    <3>3. running'[q] = running[q]
      BY <1>7, <1>10, <3>1, <3>2
    <3> QED
      BY <2>4, <3>3 DEF At
  <2>5. \A x, y \in Procs : IsCreate(running'[x].ops) /\ IsCreate(running'[y].ops) => x = y
    BY <2>1, <2>2 DEF Alone
  <2>6. \A q \in Procs : At(q, "remove")' /\ running'[q].sid # None => sessions'[running'[q].sid] = None
    BY <1>4, <2>1, <2>3 DEF Alone
  <2>7. \A q \in Procs : At(q, "list")' => Live' \subseteq Head(running'[q].ops).ids
    BY <1>13, <2>1, <2>3 DEF Alone
  <2>8. \A q \in Procs : IsCreate(running'[q].ops) /\ 4 <= Len(running'[q].ops) /\ Len(running'[q].ops) <= 6
                              => Live' = {}
    BY <1>13, <2>1, <2>2 DEF Alone
  <2>9. \A q \in Procs : At(q, "add")' => Live' \subseteq {running'[q].sid}
    BY <1>13, <2>1, <2>3 DEF Alone
  <2>10. (\A q \in Procs : ~At(q, "add")') => Live' \subseteq members'
    BY <1>4, <1>13, <2>1, <2>4 DEF Alone
  <2>11. \A x, y \in Live' : x = y
    BY <1>13, <2>1 DEF Alone
  <2> QED
    BY <2>5, <2>6, <2>7, <2>8, <2>9, <2>10, <2>11 DEF Alone
<1> QED
  BY <1>4, <1>12, <1>16, <1>17, <1>18, <1>19 DEF VsInv

-----------------------------------------------------------------------------
(* The voice sessions' theorems *)

\* The invariant holds at first: no session, or one that its set and its
\* pointer know of, and nothing running.
LEMMA VsInitially == VsInit => VsInv
<1> SUFFICES ASSUME VsInit PROVE VsInv
  OBVIOUS
<1>1. MaxSessions \in Nat \ {0} /\ None \notin 1..MaxSessions /\ 1 \in SessionIds /\ SessionIds = 1..MaxSessions
  BY ProcessesAssumption DEF SessionIds
<1>2. PICK first \in {None} \cup [st : {"IDLE", "LISTENING"}, fresh : {TRUE}] :
          sessions = [i \in SessionIds |-> IF i = 1 THEN first ELSE None]
  BY DEF VsInit
<1>3. /\ pointer = (IF sessions[1] = None THEN None ELSE 1)
      /\ members = {1} \ {i \in SessionIds : sessions[i] = None}
      /\ active = {} /\ running = [p \in Procs |-> AtRest]
      /\ used = [events |-> 0, sessions |-> Cardinality(members), streams |-> {}]
      /\ stopped = {} /\ failed = {} /\ excused = FALSE
  BY DEF VsInit
<1>4. first \in Session \cup {None}
  BY DEF Session
<1>5. /\ sessions \in [SessionIds -> Session \cup {None}] /\ sessions[1] = first
      /\ \A i \in SessionIds : i # 1 => sessions[i] = None
  BY <1>1, <1>2, <1>4
<1>6. Live = members
  BY <1>1, <1>3, <1>5 DEF Live
<1>7. /\ members = {} \/ members = {1}
      /\ members = {} => pointer = None /\ used.sessions = 0
      /\ members = {1} => pointer = 1 /\ used.sessions = 1
  <2>1. Cardinality({}) = 0 /\ Cardinality({1}) = 1
    BY FS_EmptySet, FS_Singleton
  <2>2. used.sessions = Cardinality(members)
    BY <1>3
  <2>3. CASE sessions[1] = None
    <3>1. members = {} /\ pointer = None
      BY <1>1, <1>3, <2>3
    <3> QED
      BY <2>1, <2>2, <3>1
  <2>4. CASE sessions[1] # None
    <3>1. members = {1} /\ pointer = 1
      BY <1>1, <1>3, <2>4
    <3> QED
      BY <2>1, <2>2, <3>1
  <2> QED
    BY <2>3, <2>4
<1>8. /\ used.sessions \in 0..MaxSessions /\ members \subseteq Given /\ pointer \in Given \cup {None}
      /\ members \subseteq SessionIds /\ pointer \in SessionIds \cup {None}
  BY <1>1, <1>7 DEF Given
<1>9. AtRest.ops = <<>> /\ AtRest.sid = None /\ AtRest \in Frame
  BY VsShort DEF AtRest, Frame
<1>10. \A p \in Procs : running[p].ops = <<>> /\ running[p].sid = None
  BY <1>3, <1>9
<1>11. running \in [Procs -> Frame]
  BY <1>3, <1>9
<1>12. used \in [events : Nat, sessions : 0..MaxSessions, streams : SUBSET Streams]
  BY <1>3, <1>8
<1>13. VsTyped
  BY <1>3, <1>5, <1>8, <1>11, <1>12 DEF VsTyped
<1>14. DOMAIN <<>> = {} /\ WellFormed(<<>>) /\ ~IsCreate(<<>>)
  BY VsShort
<1>15. Known
  BY <1>6, <1>8, <1>10, <1>14 DEF Known
<1>16. Formed /\ Streaming
  BY <1>3, <1>10, <1>14 DEF Formed, Streaming, Procs
<1>17. Alone
  BY <1>6, <1>7, <1>10, <1>14 DEF Alone, At
<1> QED
  BY <1>13, <1>15, <1>16, <1>17 DEF VsInv

\* Every step keeps it.
LEMMA VsStep == VsInv /\ [VsNext]_vsVars => VsInv'
<1> SUFFICES ASSUME VsInv, [VsNext]_vsVars PROVE VsInv'
  OBVIOUS
<1>1. ASSUME NEW p \in Procs, StepOf(p) PROVE VsInv'
  BY <1>1, VsLoad, VsHandlerSteps, VsWrites, VsReadPointer, VsReadMembers, VsChooseSession, VsCheckLimit,
     VsNewSession, VsAddSession, VsOpenStream, VsStreamSteps, VsRestart DEF StepOf
<1>2. ASSUME NEW h \in Handlers,
             \/ createSession(h) \/ handleMessage(h) \/ handleInterrupt(h) \/ handleTerminate(h)
             \/ handlePing(h)
             \/ \E interrupt \in BOOLEAN, to \in ConversationState \cup {None} :
                   handleSessionAction(h, interrupt, to)
             \/ \E i \in SessionIds : handleConnection(h, i) \/ handleDisconnect(h, i)
             \/ \E i \in SessionIds : cleanupStaleSessions(h, i)
             \/ Throws(h)
      PROVE  VsInv'
  BY <1>2, VsCreateSession, VsEvents, VsThrows
<1>3. CASE (\E i \in SessionIds : HeartbeatMissed(i)) \/ Expires \/ ServerRestarts
  BY <1>3, VsTime, VsRestart
<1>4. CASE UNCHANGED vsVars
  <2>1. /\ sessions' = sessions /\ members' = members /\ pointer' = pointer /\ active' = active
        /\ running' = running /\ used' = used /\ stopped' = stopped /\ failed' = failed /\ excused' = excused
    BY <1>4 DEF vsVars
  <2> QED
    BY <2>1 DEF VsInv, VsTyped, Known, Formed, Streaming, Alone, Given, Live, At
<1> QED
  BY <1>1, <1>2, <1>3, <1>4 DEF VsNext

\* The inductive invariant of the voice sessions: programs are well formed and
\* name sessions that were given out, an answer that may still speak ends by
\* being forgotten, and without an excuse creations are alone.
THEOREM VsInvariance == VsSpec => []VsInv
  BY VsInitially, VsStep, PTL DEF VsSpec

\* Every answer that was begun is finished or interrupted, and then forgotten,
\* unless its session was gone, or could not be read, when it looked for it.
THEOREM AnswersAlwaysEnd == VsSpec => []AnswersEnd
<1>1. VsInv => AnswersEnd
  <2> SUFFICES ASSUME VsInv, NEW s \in used.streams, running[s] = AtRest PROVE s \notin active \/ s \in failed
    BY DEF AnswersEnd
  <2>1. running[s].ops = <<>>
    BY DEF AtRest
  <2> QED
    BY <2>1 DEF VsInv, Streaming, Speaking
<1> QED
  BY <1>1, VsInvariance, PTL

\* At most one live session for the user, over restarts, failed commands and
\* lost reads, unless one of the five events that SessionReused names occurred.
THEOREM SessionsAreReused == VsSpec => []SessionReused
<1>1. VsInv => SessionReused
  <2> SUFFICES ASSUME VsInv, ~excused PROVE Cardinality(Live) <= 1
    BY DEF SessionReused
  <2>1. \A i, j \in Live : i = j
    BY DEF VsInv, Alone
  <2>2. CASE Live = {}
    BY <2>2, FS_EmptySet
  <2>3. CASE Live # {}
    <3>1. PICK i \in Live : TRUE
      BY <2>3
    <3>2. Live = {i}
      BY <2>1, <3>1
    <3>3. Cardinality(Live) = 1
      BY <3>2, FS_Singleton
    <3> QED
      BY <3>3
  <2> QED
    BY <2>2, <2>3
<1> QED
  BY <1>1, VsInvariance, PTL

\* A step of one process leaves the programs of the others alone.
LEMMA VsOthers ==
    ASSUME VsTyped, NEW p \in Procs, NEW q \in Procs, q # p, StepOf(p), ~OpenStream(p), ~ServerRestarts
    PROVE  running'[q] = running[q]
<1>1. running \in [Procs -> Frame]
  BY DEF VsTyped
<1>2. ASSUME NEW ops, Do(p, ops) PROVE running'[q] = running[q]
  BY <1>1, <1>2 DEF Do
<1>3. CASE ReadPointer(p)
  BY <1>1, <1>3 DEF ReadPointer
<1>4. CASE ChooseSession(p)
  <2>1. CASE Do(p, Rest(p))
    BY <1>2, <2>1
  <2>2. CASE \E i \in Existing(p) : running' = [running EXCEPT ![p] = [ops |-> UseSession, sid |-> i]]
    BY <1>1, <2>2
  <2> QED
    BY <1>4, <2>1, <2>2 DEF ChooseSession
<1>5. CASE NewSession(p)
  BY <1>1, <1>5 DEF NewSession
<1>6. CASE StopStreams(p)
  <2>1. \E ops : Do(p, ops)
    BY <1>6 DEF StopStreams
  <2> QED
    BY <1>2, <2>1
<1>7. CASE \/ Load(p) \/ saveSession(p) \/ interruptSession(p) \/ resumeSession(p) \/ RequireSession(p)
           \/ setUserActiveSession(p) \/ deleteUserActiveSession(p) \/ clearUserActiveSessionIfMatches(p)
           \/ DeleteSession(p) \/ removeUserSession(p) \/ ReadMembers(p) \/ CheckLimit(p) \/ addUserSession(p)
  BY <1>2, <1>7 DEF Load, saveSession, interruptSession, resumeSession, RequireSession,
     setUserActiveSession, deleteUserActiveSession, clearUserActiveSessionIfMatches,
     DeleteSession, removeUserSession, ReadMembers, CheckLimit, addUserSession
<1>8. CASE CheckSpeaking(p) \/ AskLlm(p) \/ SendChunk(p) \/ CloseStream(p)
  BY <1>2, <1>8 DEF CheckSpeaking, AskLlm, SendChunk, CloseStream
<1> QED
  BY <1>3, <1>4, <1>5, <1>6, <1>7, <1>8 DEF StepOf

\* No chunk of an interrupted answer is sent, whoever moves.
LEMMA VsSilent ==
    ASSUME VsInv, [VsNext]_vsVars, NEW s \in stopped, At(s, "chunk")
    PROVE  running'[s] \in {running[s], AtRest}
<1>1. VsTyped /\ Streaming
  BY DEF VsInv
<1>2. s \in used.streams /\ s \in Procs /\ s \notin active /\ running \in [Procs -> Frame]
  BY <1>1 DEF VsTyped, Streaming, Procs
<1>3. running[s].ops # <<>> /\ Head(running[s].ops).op = "chunk" /\ running[s] # AtRest
  BY DEF At, AtRest
<1>4. ASSUME NEW p \in Procs, StepOf(p) PROVE running'[s] \in {running[s], AtRest}
  <2>1. CASE OpenStream(p)
    <3>1. PICK r \in Streams \ used.streams :
              running' = [running EXCEPT ![p] = AtRest, ![r] = [ops |-> Speak, sid |-> running[p].sid]]
      BY <2>1 DEF OpenStream
    <3>2. s # r
      BY <1>2, <3>1
    <3> QED
      BY <1>2, <3>1, <3>2
  <2>r. CASE ServerRestarts
    BY <1>2, <2>r DEF ServerRestarts
  <2>2. CASE ~OpenStream(p) /\ ~ServerRestarts /\ p # s
    BY <1>1, <1>2, <1>4, <2>2, VsOthers
  <2>3. CASE p = s /\ ~ServerRestarts
    <3>1. SendChunk(s)
      BY <1>3, <1>4, <2>3 DEF StepOf, At, Load, saveSession, interruptSession, resumeSession, RequireSession,
         ReadPointer, setUserActiveSession, deleteUserActiveSession, clearUserActiveSessionIfMatches,
         DeleteSession, removeUserSession, ReadMembers, ChooseSession, CheckLimit, NewSession, addUserSession,
         OpenStream, CheckSpeaking, AskLlm, CloseStream, StopStreams
    <3>2. Do(s, <<>>)
      BY <1>2, <3>1 DEF SendChunk, MaySpeak
    <3> QED
      BY <1>2, <3>2 DEF Do
  <2> QED
    BY <2>1, <2>r, <2>2, <2>3
<1>5. ASSUME NEW h \in Handlers, NEW prog, NEW i, Begin(h, prog, i) PROVE running'[s] = running[s]
  BY <1>2, <1>3, <1>5 DEF Begin
<1>6. ASSUME NEW h \in Handlers,
             \/ createSession(h) \/ handleMessage(h) \/ handleInterrupt(h) \/ handleTerminate(h)
             \/ handlePing(h)
             \/ \E interrupt \in BOOLEAN, to \in ConversationState \cup {None} :
                   handleSessionAction(h, interrupt, to)
             \/ \E i \in SessionIds : handleConnection(h, i) \/ handleDisconnect(h, i)
             \/ \E i \in SessionIds : cleanupStaleSessions(h, i)
      PROVE  running'[s] = running[s]
  BY <1>5, <1>6 DEF createSession, handleMessage, handleInterrupt, handleTerminate, handlePing,
     handleSessionAction, handleConnection, handleDisconnect, cleanupStaleSessions, OnEvent
<1>7. CASE (\E i \in SessionIds : HeartbeatMissed(i)) \/ Expires \/ UNCHANGED vsVars
  BY <1>7 DEF HeartbeatMissed, Expires, vsVars
<1>8. CASE \E h \in Handlers : Throws(h)
  <2>1. PICK h \in Handlers : (\E name \in Commands : At(h, name)) /\ Do(h, <<>>)
    BY <1>8 DEF Throws
  <2>2. s # h
    BY <1>1, <1>2, ProcessesAssumption DEF VsTyped
  <2> QED
    BY <1>2, <2>1, <2>2 DEF Do
<1>9. CASE ServerRestarts
  BY <1>2, <1>9 DEF ServerRestarts
<1> QED
  BY <1>4, <1>6, <1>7, <1>8, <1>9 DEF VsNext

\* Once the client has been told that a stream is interrupted, no further chunk
\* of it is sent, however the interruption falls between the stream's steps.
THEOREM InterruptedIsSilent == VsSpec => SilentAfterInterrupt
<1>1. VsInv /\ [VsNext]_vsVars
          => [\A s \in stopped : At(s, "chunk") => running'[s] \in {running[s], AtRest}]_vsVars
  BY VsSilent
<1> QED
  BY <1>1, VsInvariance, PTL DEF VsSpec, SilentAfterInterrupt
=============================================================================
