----------------------------- MODULE AuditChain -----------------------------
(***************************************************************************)
(* The audit log (Backend/src/audit): rows chained by hash and signed,     *)
(* moved to an archive after 90 days, and the migration that chained the   *)
(* rows that were there before.  A logAction call is a process; its two    *)
(* look-ups of the latest row and its insert are separate queries, and so  *)
(* are the archiver's copy and delete.  A hash is the tuple of what it is  *)
(* computed from.                                                          *)
(***************************************************************************)
EXTENDS Integers, SequencesExt, Absent

CONSTANTS
    Loggers,     \* logAction calls
    Ids,         \* row ids, numbers: uuids, so no order of time is in them
    Legacy,      \* tables older than the chain, of rows [id, ts, us (microseconds), body]
    Retention,   \* 90 days
    MaxTime,     \* bound on the clock
    MaxCrashes,  \* bound on crashes of the archiver
    Unread

\* The id is the primary key.
ASSUME LegacyAssumption == \A rows \in Legacy : \A a, b \in rows : a.id = b.id => a = b

VARIABLES
    clock,
    logs, archive,   \* audit_logs and audit_log_archives
    logger,          \* the calls' local state
    arch,            \* the archiver: idle, or the rows it selected and copied
    crashed,
    saved,           \* ids of all rows ever stored
    forked           \* what the chain does not survive has happened

auVars == <<clock, logs, archive, logger, arch, crashed, saved, forked>>

NewCall == [pc |-> "idle", ts |-> 0, log |-> Unread, old |-> Unread]
Idle == [pc |-> "idle", rows |-> {}]

-----------------------------------------------------------------------------
compareEntries(a, b) == a.ts < b.ts \/ (a.ts = b.ts /\ a.id <= b.id)

Latest(rows) == IF rows = {} THEN None
                ELSE CHOOSE a \in rows : \A b \in rows : compareEntries(b, a)

\* entity_id and metadata (extra) are in the signature, not in the hash.
computeHash(e) == <<e.prev, e.body, e.ts>>
computeSignature(e) == <<e.body, e.extra, e.ts, e.prev, e.hash>>

Hashed(e) == [e EXCEPT !.hash = computeHash(e)]
Signed(e) == [e EXCEPT !.sig = computeSignature(e)]

Row(id, ts, body, prev) ==
    Signed(Hashed([id |-> id, ts |-> ts, body |-> body, extra |-> "extra",
                   prev |-> prev, hash |-> <<>>, sig |-> <<>>]))

\* The archive first: Array.sort is stable, so a copy precedes its original.
getOrderedEntries(new, old) ==
    SetToSortSeq({<<"a", e>> : e \in old} \cup {<<"l", e>> : e \in new},
                 LAMBDA x, y : IF x[2].ts = y[2].ts /\ x[2].id = y[2].id
                               THEN x[1] = "a" /\ y[1] = "l"
                               ELSE compareEntries(x[2], y[2]))

verifyAuditChain(new, old) ==
    LET s == getOrderedEntries(new, old) IN
    \A i \in DOMAIN s :
        LET e == s[i][2]
            prev == IF i = 1 THEN <<>> ELSE s[i - 1][2].hash
            expected == Hashed([e EXCEPT !.prev = prev]) IN
        /\ e.prev = prev
        /\ e.hash = expected.hash
        /\ e.sig = Signed(expected).sig

\* The migration's up: each row takes over the hash of the one before it in
\* the database's order, which knows microseconds.
Up(rows) ==
    LET Before(a, b) == \/ a.ts < b.ts
                        \/ a.ts = b.ts /\ (a.us < b.us \/ (a.us = b.us /\ a.id < b.id))
        Earlier(r) == {a \in rows : Before(a, r)}
        Previous(r) == CHOOSE a \in Earlier(r) : \A b \in Earlier(r) : b = a \/ Before(b, a)
        prev[r \in rows] == IF Earlier(r) = {} THEN <<>>
                            ELSE LET p == Previous(r) IN Row(p.id, p.ts, p.body, prev[p]).hash
    IN {Row(r.id, r.ts, r.body, prev[r]) : r \in rows}

AuInit ==
    /\ clock = 1
    /\ \E rows \in Legacy :
         /\ logs = Up(rows)
         /\ saved = {r.id : r \in rows}
         /\ forked = \E a, b \in rows : a # b /\ a.ts = b.ts
    /\ archive = {} /\ arch = Idle /\ crashed = 0
    /\ logger = [c \in Loggers |-> NewCall]

-----------------------------------------------------------------------------
\* logAction: the timestamp is taken before anything is read.
Calling == {c \in Loggers : logger[c].pc = "read"}

logAction(c) ==
    /\ logger[c].pc = "idle"
    /\ logger' = [logger EXCEPT ![c].pc = "read", ![c].ts = clock]
    /\ forked' = (forked \/ Calling # {} \/ \E e \in logs \cup archive : e.ts = clock)
    /\ UNCHANGED <<clock, logs, archive, arch, crashed, saved>>

LatestLog(c) ==
    /\ logger[c].pc = "read" /\ logger[c].log = Unread
    /\ logger' = [logger EXCEPT ![c].log = Latest(logs)]
    /\ UNCHANGED <<clock, logs, archive, arch, crashed, saved, forked>>

LatestArchive(c) ==
    /\ logger[c].pc = "read" /\ logger[c].old = Unread
    /\ logger' = [logger EXCEPT ![c].old = Latest(archive)]
    /\ UNCHANGED <<clock, logs, archive, arch, crashed, saved, forked>>

\* Faulty: the archive is not looked at.
getLatestEntryLogs(log, old) == log

getLatestEntry(log, old) == Latest({log, old} \ {None})

SaveEntry(c) ==
    /\ logger[c].pc = "read" /\ Unread \notin {logger[c].log, logger[c].old}
    /\ LET last == getLatestEntry(logger[c].log, logger[c].old)
           prev == IF last = None THEN <<>> ELSE last.hash IN
       \E id \in Ids \ saved :
         /\ logs' = logs \cup {Row(id, logger[c].ts, c, prev)}
         /\ saved' = saved \cup {id}
    /\ logger' = [logger EXCEPT ![c] = [NewCall EXCEPT !.pc = "done"]]
    /\ UNCHANGED <<clock, archive, arch, crashed, forked>>

-----------------------------------------------------------------------------
\* archiveOldLogs, the midnight job: select, copy (save replaces a row that
\* is already there), delete by id.
SelectOld ==
    /\ arch.pc = "idle"
    /\ LET old == {e \in logs : e.ts < clock - Retention} IN
       old # {} /\ arch' = [pc |-> "copy", rows |-> old]
    /\ UNCHANGED <<clock, logs, archive, logger, crashed, saved, forked>>

IdsOf(rows) == {e.id : e \in rows}
Without(rows, ids) == {e \in rows : e.id \notin ids}

\* Faulty: an insert, which the primary key refuses for a row already copied.
CopyOldInsert ==
    /\ arch.pc = "copy"
    /\ IF IdsOf(arch.rows) \cap IdsOf(archive) # {}
       THEN arch' = Idle /\ UNCHANGED archive
       ELSE archive' = archive \cup arch.rows /\ arch' = [arch EXCEPT !.pc = "delete"]
    /\ UNCHANGED <<clock, logs, logger, crashed, saved, forked>>

CopyOld ==
    /\ arch.pc = "copy"
    /\ archive' = Without(archive, IdsOf(arch.rows)) \cup arch.rows
    /\ arch' = [arch EXCEPT !.pc = "delete"]
    /\ UNCHANGED <<clock, logs, logger, crashed, saved, forked>>

\* Faulty: deletes by age, so also rows that have grown old since.
DeleteOldByAge ==
    /\ arch.pc = "delete"
    /\ logs' = {e \in logs : e.ts >= clock - Retention}
    /\ arch' = Idle
    /\ UNCHANGED <<clock, archive, logger, crashed, saved, forked>>

\* A call that looked at the archive before the copy and looks at the log
\* after the delete misses the rows that moved.
DeleteOld ==
    /\ arch.pc = "delete"
    /\ logs' = Without(logs, IdsOf(arch.rows))
    /\ arch' = Idle
    /\ forked' = (forked \/ \E c \in Calling : logger[c].old # Unread /\ logger[c].log = Unread)
    /\ UNCHANGED <<clock, archive, logger, crashed, saved>>

ArchiverDies ==
    /\ arch.pc # "idle" /\ crashed < MaxCrashes
    /\ arch' = Idle /\ crashed' = crashed + 1
    /\ UNCHANGED <<clock, logs, archive, logger, saved, forked>>

AuTick ==
    /\ clock < MaxTime
    /\ clock' = clock + 1
    /\ UNCHANGED <<logs, archive, logger, arch, crashed, saved, forked>>

Archiver == SelectOld \/ CopyOld \/ DeleteOld

AuNext ==
    \/ \E c \in Loggers : logAction(c) \/ LatestLog(c) \/ LatestArchive(c) \/ SaveEntry(c)
    \/ Archiver \/ ArchiverDies \/ AuTick

\* The clock runs and the archiver runs every midnight.
AuFairness == WF_auVars(AuTick) /\ WF_auVars(Archiver)

AuSpec == AuInit /\ [][AuNext]_auVars /\ AuFairness

-----------------------------------------------------------------------------
Twice == IdsOf(logs) \cap IdsOf(archive)

\* A stored row changed by something that does not have the key.
Changed(e) ==
    {[e EXCEPT !.body = "other"], [e EXCEPT !.extra = "other"], [e EXCEPT !.ts = @ - 1],
     [e EXCEPT !.prev = <<"other">>], [e EXCEPT !.hash = <<"other">>],
     Hashed([e EXCEPT !.body = "other"])}

(***************************************************************************)
(* The chain verifies, and stops verifying when any field of any row is    *)
(* changed: rows logged one after the other, migrated rows and archived    *)
(* rows form one chain, across any number of archivings.  Not claimed:     *)
(* calls that overlap, two rows of one millisecond, a move under a call's  *)
(* two look-ups (forked), and the moment when a row is in both tables.     *)
(***************************************************************************)
ChainVerifies ==
    ~forked /\ Twice = {} =>
        /\ verifyAuditChain(logs, archive)
        /\ \A e \in logs : \A d \in Changed(e) :
              ~verifyAuditChain((logs \ {e}) \cup {d}, archive)
        /\ \A e \in archive : \A d \in Changed(e) :
              ~verifyAuditChain(logs, (archive \ {e}) \cup {d})

(***************************************************************************)
(* No audit row is ever lost: whatever is stored stays in the log or in    *)
(* the archive, once in each at most, whatever overlaps the archiver and   *)
(* wherever it dies.                                                       *)
(***************************************************************************)
NothingLost ==
    /\ saved = IdsOf(logs) \cup IdsOf(archive)
    /\ \A rows \in {logs, archive} : \A a, b \in rows : a.id = b.id => a = b

(***************************************************************************)
(* An archiver that dies between its copy and its delete leaves rows in    *)
(* both tables; a later run clears them up.                                *)
(***************************************************************************)
MoveCompleted == (Twice # {}) ~> (Twice = {})
=============================================================================
