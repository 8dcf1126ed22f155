---------------------------- MODULE VoiceSession ----------------------------
(***************************************************************************)
(* Voice conversations of one user (Backend/src/voice: VoiceGateway,       *)
(* VoiceSessionService, StreamingResponseService, the state machine and    *)
(* the cleanup job).  A session is one JSON value in Redis: every update   *)
(* reads it, changes the copy and writes the whole copy back.  Handlers    *)
(* and answer streams are asynchronous functions, here programs: sequences *)
(* of the operations between two awaits, run by processes that interleave. *)
(***************************************************************************)
EXTENDS Absent, Naturals, Sequences, FiniteSets

CONSTANTS
    Handlers,     \* gateway handlers and cleanups that may overlap, numbered
    Streams,      \* answer streams, as many as a run may open
    MaxEvents,    \* bound on the client's events, missed heartbeats and expiries
    MaxSessions,  \* bound on the sessions of a run
    MaxPerUser    \* MAX_SESSIONS_PER_USER (3)

ASSUME ProcessesAssumption ==
    /\ Handlers \cap Streams = {}
    /\ MaxSessions \in Nat \ {0} /\ MaxEvents \in Nat
    /\ None \notin 1..MaxSessions

VARIABLES
    sessions,   \* Redis: the sessions by id
    members,    \* Redis: the user's set of session ids
    pointer,    \* Redis: the user's active session
    active,     \* activeStreams: the streams that may still speak
    running,    \* programs in progress: what is left to do, and on which session
    used,       \* events handled and ids given out so far
    stopped,    \* streams whose client was told they are interrupted
    failed,     \* streams whose session was gone or could not be read
    excused     \* a second session has an explanation (see SessionReused)

vsVars == <<sessions, members, pointer, active, running, used, stopped, failed, excused>>

SessionIds == 1..MaxSessions
Procs == Handlers \cup Streams
Op(name) == [op |-> name]
Update(to) == [op |-> "update", to |-> to]
Save(s) == [op |-> "save", s |-> s]
AtRest == [ops |-> <<>>, sid |-> None]

VsInit ==
    /\ \E first \in {None} \cup [st : {"IDLE", "LISTENING"}, fresh : {TRUE}] :
          sessions = [i \in SessionIds |-> IF i = 1 THEN first ELSE None]
    /\ pointer = (IF sessions[1] = None THEN None ELSE 1)
    /\ members = {1} \ {i \in SessionIds : sessions[i] = None}
    /\ active = {} /\ running = [p \in Procs |-> AtRest]
    /\ used = [events |-> 0, sessions |-> Cardinality(members), streams |-> {}]
    /\ stopped = {} /\ failed = {} /\ excused = FALSE

\* The next operation of process p, and what p has left after it.
At(p, name) == running[p].ops # <<>> /\ Head(running[p].ops).op = name
Rest(p) == Tail(running[p].ops)
Do(p, ops) == running' = [running EXCEPT ![p] = IF ops = <<>> THEN AtRest ELSE [@ EXCEPT !.ops = ops]]
Own(p) == sessions[running[p].sid]

\* What getSession may answer: a read that fails is caught and answers null.
getSession(p) == {Own(p), None}

redis == <<sessions, members, pointer>>
ghosts == <<stopped, failed, excused>>

-----------------------------------------------------------------------------
\* ConversationStateMachineService.
validTransitions ==
    {<<"IDLE", "LISTENING">>, <<"LISTENING", "THINKING">>, <<"LISTENING", "INTERRUPTED">>,
     <<"THINKING", "RESPONDING">>, <<"THINKING", "INTERRUPTED">>, <<"RESPONDING", "LISTENING">>,
     <<"RESPONDING", "INTERRUPTED">>, <<"RESPONDING", "IDLE">>, <<"INTERRUPTED", "LISTENING">>,
     <<"INTERRUPTED", "IDLE">>}

\* The changes of updateSessionState, addMessage and updateSessionSocket
\* ("touch"), and updateLastPingAt.
Refused(s, to) == to \notin {"touch", "ping"} /\ <<s.st, to>> \notin validTransitions
Updated(s, to) ==
    CASE to = "touch" -> s
      [] to = "ping"  -> [s EXCEPT !.fresh = TRUE]
      [] OTHER        -> [s EXCEPT !.st = to]

\* Faulty: a refused transition ends the program.
AfterLoadStrict(p, own, to) ==
    IF own = None THEN Rest(p)
    ELSE IF Refused(own, to) THEN <<>>
    ELSE <<Save(Updated(own, to))>> \o Rest(p)

AfterLoad(p, own, to) ==
    IF own = None THEN Rest(p)
    ELSE IF Refused(own, to) THEN Rest(p)
    ELSE <<Save(Updated(own, to))>> \o Rest(p)

\* The read half of an update: nothing to do if there is no session or the
\* transition is refused; the caller goes on in any case.
Load(p) ==
    /\ At(p, "update")
    /\ \E own \in getSession(p) : Do(p, AfterLoad(p, own, Head(running[p].ops).to))
    /\ UNCHANGED <<redis, active, used, ghosts>>

\* saveSession writes the whole copy, also over a session terminated since.
saveSession(p) ==
    /\ At(p, "save")
    /\ sessions' = [sessions EXCEPT ![running[p].sid] = Head(running[p].ops).s]
    /\ Do(p, Rest(p))
    /\ excused' = (excused \/ Own(p) = None)
    /\ UNCHANGED <<members, pointer, active, used, stopped, failed>>

\* interruptSession and resumeSession look at the state before the update.
interruptSession(p) ==
    /\ At(p, "interrupt")
    /\ \E own \in getSession(p) :
          Do(p, IF own # None /\ own.st \in {"THINKING", "RESPONDING"}
                THEN <<Update("INTERRUPTED")>> \o Rest(p) ELSE Rest(p))
    /\ UNCHANGED <<redis, active, used, ghosts>>

resumeSession(p) ==
    /\ At(p, "resume")
    /\ \E own \in getSession(p) :
          Do(p, IF own = None THEN Rest(p)
                ELSE <<Update(IF own.st = "INTERRUPTED" THEN "LISTENING" ELSE "IDLE")>> \o Rest(p))
    /\ UNCHANGED <<redis, active, used, ghosts>>

\* The program ends if there is no session.
RequireSession(p) ==
    /\ At(p, "require")
    /\ \E own \in getSession(p) : Do(p, IF own = None THEN <<>> ELSE Rest(p))
    /\ UNCHANGED <<redis, active, used, ghosts>>

\* getUserActiveSession: the program ends if there is none.
ReadPointer(p) ==
    /\ At(p, "pointer")
    /\ running' = [running EXCEPT ![p] = IF pointer = None THEN AtRest
                                         ELSE [ops |-> Rest(p), sid |-> pointer]]
    /\ UNCHANGED <<redis, active, used, ghosts>>

setUserActiveSession(p) ==
    /\ At(p, "point")
    /\ pointer' = running[p].sid
    /\ Do(p, Rest(p))
    /\ UNCHANGED <<sessions, members, active, used, ghosts>>

deleteUserActiveSession(p) ==
    /\ At(p, "unpoint")
    /\ pointer' = None
    /\ Do(p, Rest(p))
    /\ UNCHANGED <<sessions, members, active, used, ghosts>>

clearUserActiveSessionIfMatches(p) ==
    /\ At(p, "unpoint if mine")
    /\ Do(p, IF pointer = running[p].sid THEN <<Op("unpoint")>> \o Rest(p) ELSE Rest(p))
    /\ UNCHANGED <<redis, active, used, ghosts>>

-----------------------------------------------------------------------------
\* terminateSession: getSession, DEL, SREM, and the pointer.
Terminate == <<Op("require"), Op("delete"), Op("remove"), Op("unpoint if mine")>>

DeleteSession(p) ==
    /\ At(p, "delete")
    /\ sessions' = [sessions EXCEPT ![running[p].sid] = None]
    /\ Do(p, Rest(p))
    /\ UNCHANGED <<members, pointer, active, used, ghosts>>

removeUserSession(p) ==
    /\ At(p, "remove")
    /\ members' = members \ {running[p].sid}
    /\ Do(p, Rest(p))
    /\ UNCHANGED <<sessions, pointer, active, used, ghosts>>

\* getUserActiveSessions: the ids, then the sessions that still exist.  The
\* read of the ids answers with an empty list if it fails, a session whose
\* read fails is left out: a session hidden so is an excuse for another one.
Creating(p) == \E k \in DOMAIN running[p].ops :
                  running[p].ops[k].op \in {"members", "list", "limit", "new", "add"}
UseSession == <<Update("touch"), Op("point")>>

ReadMembers(p) ==
    /\ At(p, "members")
    /\ \E ids \in {members, {}} :
          /\ Do(p, <<[Head(Rest(p)) EXCEPT !.ids = ids]>> \o Tail(Rest(p)))
          /\ excused' = (excused \/ ids # members)
    /\ UNCHANGED <<redis, active, used, stopped, failed>>

Existing(p) == {i \in Head(running[p].ops).ids : sessions[i] # None}

\* Faulty: always a new session.
ChooseSessionNew(p) ==
    /\ At(p, "list") /\ Do(p, Rest(p))
    /\ UNCHANGED <<redis, active, used, ghosts>>

\* The gateway's createSession reuses a session if it has read one.
ChooseSession(p) ==
    /\ At(p, "list")
    /\ \/ Do(p, Rest(p)) /\ excused' = (excused \/ Existing(p) # {})
       \/ /\ \E i \in Existing(p) : running' = [running EXCEPT ![p] = [ops |-> UseSession, sid |-> i]]
          /\ UNCHANGED excused
    /\ UNCHANGED <<redis, active, used, stopped, failed>>

\* The service's createSession checks the limit on a list of its own.
CheckLimit(p) ==
    /\ At(p, "limit")
    /\ \E read \in SUBSET Existing(p) :
          Do(p, IF Cardinality(read) >= MaxPerUser THEN <<>> ELSE Rest(p))
    /\ UNCHANGED <<redis, active, used, ghosts>>

NewSession(p) ==
    /\ At(p, "new") /\ used.sessions < MaxSessions
    /\ LET i == used.sessions + 1 IN
       /\ sessions' = [sessions EXCEPT ![i] = [st |-> "IDLE", fresh |-> TRUE]]
       /\ used' = [used EXCEPT !.sessions = i]
       /\ running' = [running EXCEPT ![p] = [ops |-> Rest(p), sid |-> i]]
    /\ UNCHANGED <<members, pointer, active, ghosts>>

addUserSession(p) ==
    /\ At(p, "add")
    /\ members' = members \cup {running[p].sid}
    /\ Do(p, Rest(p))
    /\ UNCHANGED <<sessions, pointer, active, used, ghosts>>

\* A handler ends when a Redis command of it throws.  Created and not in the
\* set, a session is out of reach of the next creation.
Commands == {"save", "pointer", "point", "unpoint", "unpoint if mine", "delete", "remove", "new", "add"}

Throws(h) ==
    /\ \E name \in Commands : At(h, name)
    /\ Do(h, <<>>)
    /\ excused' = (excused \/ At(h, "add"))
    /\ UNCHANGED <<redis, active, used, stopped, failed>>

\* The process ends, whatever was running, and starts again: a deployment or
\* a crash, or a rejection that nobody handles, as when a stream, a connection
\* or a disconnection throws.  The client's streams and handlers are gone,
\* what Redis holds is kept.
ServerRestarts ==
    /\ running' = [p \in Procs |-> AtRest] /\ active' = {}
    /\ excused' = (excused \/ \E p \in Procs : At(p, "add"))
    /\ UNCHANGED <<redis, used, stopped, failed>>

-----------------------------------------------------------------------------
\* StreamingResponseService.  An answer is streamed in two chunks.
Speak == <<Op("speaking"), Update("RESPONDING"), Op("ask"), Op("chunk"), Op("chunk"),
           Op("speaking"), Update("touch"), Update("LISTENING"), Op("close")>>

\* startStreamingResponse, after the message is added and the state set.
OpenStream(p) ==
    /\ At(p, "open")
    /\ \E s \in Streams \ used.streams :
          /\ active' = active \cup {s}
          /\ used' = [used EXCEPT !.streams = @ \cup {s}]
          /\ running' = [running EXCEPT ![p] = AtRest,
                                        ![s] = [ops |-> Speak, sid |-> running[p].sid]]
    /\ UNCHANGED <<redis, ghosts>>

CheckSpeaking(s) ==
    /\ At(s, "speaking")
    /\ \E own \in getSession(s) :
          /\ Do(s, IF s \in active /\ own # None THEN Rest(s) ELSE <<>>)
          /\ failed' = IF own = None THEN failed \cup {s} ELSE failed
    /\ UNCHANGED <<redis, active, used, stopped, excused>>

\* llmService.generateResponse: an exhausted quota throws, and nobody
\* catches it in the timer that called generateStreamingResponse.
AskLlm(s) ==
    /\ At(s, "ask")
    /\ \/ Do(s, Rest(s)) /\ UNCHANGED <<redis, active, used, ghosts>>
       \/ ServerRestarts

\* Faulty: the interruption is not looked at between chunks.
MaySpeakOn(s) == TRUE

MaySpeak(s) == s \in active

SendChunk(s) ==
    /\ At(s, "chunk")
    /\ Do(s, IF MaySpeak(s) THEN Rest(s) ELSE <<>>)
    /\ UNCHANGED <<redis, active, used, ghosts>>

CloseStream(s) ==
    /\ At(s, "close")
    /\ active' = active \ {s}
    /\ Do(s, <<>>)
    /\ UNCHANGED <<redis, used, ghosts>>

\* interruptStream, of one stream or of all of the session, in one go after
\* getSession; false, and on with the handler, if there is no session.
StopStreams(p) ==
    /\ At(p, "stop")
    /\ \E own \in getSession(p) :
          IF own = None THEN Do(p, Rest(p)) /\ UNCHANGED <<active, stopped>>
          ELSE \E which \in {{s \in active : running[s].sid = running[p].sid}}
                            \cup (IF Rest(p) = <<>> THEN {{s} \cap active : s \in Streams} ELSE {}) :
                  /\ active' = active \ which
                  /\ stopped' = stopped \cup which
                  /\ Do(p, <<Op("interrupt")>> \o Rest(p))
    /\ UNCHANGED <<redis, used, failed, excused>>

-----------------------------------------------------------------------------
List(name) == <<Op("members"), [op |-> name, ids |-> {}]>>

\* The gateway's handlers.  (The client creates for itself: the user id of
\* its request is that of its token.)
Programs ==
    [create    |-> List("list") \o List("limit") \o <<Op("new"), Op("add")>> \o UseSession,
     message   |-> <<Op("pointer"), Op("require"), Update("touch"), Update("THINKING"), Op("open")>>,
     interrupt |-> <<Op("pointer"), Op("stop")>>,
     terminate |-> <<Op("pointer"), Op("stop")>> \o Terminate \o <<Op("unpoint")>>,
     ping      |-> <<Op("pointer"), Update("touch"), Update("ping")>>]

Begin(h, prog, sid) ==
    /\ running[h] = AtRest /\ \A g \in Handlers : g < h => running[g] # AtRest
    /\ running' = [running EXCEPT ![h] = [ops |-> prog, sid |-> sid]]
    /\ UNCHANGED <<redis, active, stopped, failed>>

\* Counted: the client's events, missed heartbeats and expiries.
Counted == used.events < MaxEvents /\ used' = [used EXCEPT !.events = @ + 1]
OnEvent(h, prog, sid) == Counted /\ Begin(h, prog, sid)

createSession(h) ==
    /\ used.sessions < MaxSessions
    /\ OnEvent(h, Programs.create, None)
    /\ excused' = (excused \/ \E g \in Handlers : running[g] # AtRest /\ Creating(g))

handleMessage(h) ==
    /\ LET opening == {g \in Handlers : \E k \in DOMAIN running[g].ops : running[g].ops[k].op = "open"} IN
       Cardinality(opening \cup used.streams) < Cardinality(Streams)
    /\ OnEvent(h, Programs.message, None) /\ UNCHANGED excused

handleInterrupt(h) == OnEvent(h, Programs.interrupt, None) /\ UNCHANGED excused
handleTerminate(h) == OnEvent(h, Programs.terminate, None) /\ UNCHANGED excused
handlePing(h) == OnEvent(h, Programs.ping, None) /\ UNCHANGED excused

\* The client may ask for an interruption, for a state, any there is, or both.
ConversationState ==
    {"LISTENING", "THINKING", "RESPONDING", "INTERRUPTED", "IDLE", "STALE", "TERMINATED"}
ActionProgram(interrupt, to) ==
    <<Op("pointer")>> \o (IF interrupt THEN <<Op("stop")>> ELSE <<>>)
                      \o (IF to = None THEN <<>> ELSE <<Update(to)>>)

handleSessionAction(h, interrupt, to) == OnEvent(h, ActionProgram(interrupt, to), None) /\ UNCHANGED excused

\* A client connects or disconnects with a session id of an earlier session.
handleConnection(h, i) ==
    /\ i <= used.sessions
    /\ OnEvent(h, <<Op("require"), Update("touch"), Op("resume"), Op("point")>>, i) /\ UNCHANGED excused

handleDisconnect(h, i) ==
    /\ i <= used.sessions
    /\ OnEvent(h, <<Update("IDLE"), Op("unpoint")>>, i) /\ UNCHANGED excused

IsStale(s) == s # None /\ ~s.fresh

\* cleanupStaleSessions, at one of the keys it has scanned.
cleanupStaleSessions(h, i) ==
    /\ IsStale(sessions[i])
    /\ Begin(h, Terminate, i) /\ UNCHANGED <<used, excused>>

-----------------------------------------------------------------------------
\* A minute passes without a ping; no update is on its way for so long.
HeartbeatMissed(i) ==
    /\ sessions[i] # None /\ sessions[i].fresh
    /\ \A p \in Procs : running[p].sid = i => ~At(p, "save")
    /\ sessions' = [sessions EXCEPT ![i].fresh = FALSE]
    /\ Counted /\ UNCHANGED <<members, pointer, active, running, ghosts>>

\* Redis expires the session (cleanupExpiredSessions finds nothing it has
\* not expired), the user's set, an hour after the last session was added
\* to it, and the pointer.
Expires ==
    /\ \/ \E i \in SessionIds : /\ IsStale(sessions[i])
                         /\ sessions' = [sessions EXCEPT ![i] = None]
                         /\ UNCHANGED <<members, pointer, excused>>
       \/ /\ members # {} /\ members' = {} /\ excused' = TRUE
          /\ UNCHANGED <<sessions, pointer>>
       \/ /\ pointer # None /\ pointer' = None
          /\ UNCHANGED <<sessions, members, excused>>
    /\ Counted
    /\ UNCHANGED <<active, running, stopped, failed>>

StepOf(p) ==
    \/ Load(p) \/ saveSession(p) \/ interruptSession(p) \/ resumeSession(p) \/ RequireSession(p)
    \/ ReadPointer(p) \/ setUserActiveSession(p) \/ deleteUserActiveSession(p)
    \/ clearUserActiveSessionIfMatches(p) \/ DeleteSession(p) \/ removeUserSession(p)
    \/ ReadMembers(p) \/ ChooseSession(p) \/ CheckLimit(p) \/ NewSession(p) \/ addUserSession(p)
    \/ OpenStream(p) \/ CheckSpeaking(p) \/ AskLlm(p) \/ SendChunk(p) \/ CloseStream(p)
    \/ StopStreams(p)

VsNext ==
    \/ \E p \in Procs : StepOf(p)
    \/ \E h \in Handlers :
          \/ createSession(h) \/ handleMessage(h) \/ handleInterrupt(h) \/ handleTerminate(h)
          \/ handlePing(h)
          \/ \E interrupt \in BOOLEAN, to \in ConversationState \cup {None} :
                handleSessionAction(h, interrupt, to)
          \/ \E i \in SessionIds : handleConnection(h, i) \/ handleDisconnect(h, i)
          \/ Throws(h)
    \/ \E i \in SessionIds : HeartbeatMissed(i) \/ \E h \in Handlers : cleanupStaleSessions(h, i)
    \/ Expires
    \/ ServerRestarts

VsSpec == VsInit /\ [][VsNext]_vsVars

-----------------------------------------------------------------------------
(***************************************************************************)
(* Once a client has been told that a stream is interrupted, no further    *)
(* chunk of it is sent, however the interruption, by id, of the session or *)
(* before a termination, falls between the stream's own steps.  (Only the  *)
(* chunks are silent: voice:responding and voice:complete may follow.)     *)
(***************************************************************************)
SilentAfterInterrupt ==
    [][\A s \in stopped : At(s, "chunk") => running'[s] \in {running[s], AtRest}]_vsVars

Live == {i \in SessionIds : sessions[i] # None}

(***************************************************************************)
(* A user has at most one live session, because the gateway reuses the one *)
(* there is, over restarts, failed commands and terminations half done.  A *)
(* second one needs one of five things: creations that overlapped, a set   *)
(* of the user's sessions that expired before them, a failed read that hid *)
(* the session there was (getUserActiveSessions answers with an empty list *)
(* and getSession with null), a creation cut off, by an exception or the   *)
(* end of the process, between writing its session and adding it to the    *)
(* set, or an update that wrote back a session terminated in the meantime. *)
(***************************************************************************)
SessionReused == excused \/ Cardinality(Live) <= 1

(***************************************************************************)
(* Every answer that was begun is finished or interrupted, and is then     *)
(* forgotten by the server, whatever state transitions were refused on the *)
(* way (a new session is IDLE, so the first answer's all are): a stream    *)
(* stays in activeStreams after its function has ended only if the session *)
(* was gone, or could not be read, when the stream looked for it.  (An     *)
(* answer that throws ends the process, and the map with it.)              *)
(***************************************************************************)
AnswersEnd ==
    \A s \in used.streams : running[s] = AtRest => s \notin active \/ s \in failed
=============================================================================
