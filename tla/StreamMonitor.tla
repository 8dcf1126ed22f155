--------------------------- MODULE StreamMonitor ---------------------------
(***************************************************************************)
(* The ledger event monitor (Backend/src/stellar-monitor,                  *)
(* StellarEventMonitorService): the payment and the offer feed of Horizon, *)
(* their restart after an error, and start and stop calls, which may       *)
(* overlap a start that is still waiting for Horizon.  Horizon's streams   *)
(* are external: a stream that breaks reports an error, and one that       *)
(* reports an error may or may not be broken.                              *)
(***************************************************************************)
EXTENDS Naturals

CONSTANTS
    MaxStarts,    \* bound on the starts in progress at once
    MaxTimers,    \* bound on the pending restarts of a feed
    MaxLost       \* bound on the streams of a feed that run without a handle

VARIABLES
    isMonitoring,
    starting,    \* startMonitoring calls waiting for the latest ledger
    handle,      \* paymentStream, offerStream: "null", or a stream "live" or "dead"
    lost,        \* streams still running whose handle was overwritten
    timers       \* restarts scheduled by onerror

smVars == <<isMonitoring, starting, handle, lost, timers>>

Feeds == {"payment", "offer"}

SmInit ==
    /\ isMonitoring = FALSE /\ starting = 0
    /\ handle = [f \in Feeds |-> "null"]
    /\ lost = [f \in Feeds |-> 0] /\ timers = [f \in Feeds |-> 0]

\* startPaymentStream, startOfferStream: a stream from now on; the handle
\* of an earlier one is overwritten, not closed.
Opened(fs) ==
    /\ handle' = [f \in Feeds |-> IF f \in fs THEN "live" ELSE handle[f]]
    /\ lost' = [f \in Feeds |-> IF f \in fs /\ handle[f] = "live" THEN lost[f] + 1 ELSE lost[f]]

MayOpen(fs) == \A f \in fs : lost[f] < MaxLost

-----------------------------------------------------------------------------
\* startMonitoring, up to the request for the latest ledger.
startMonitoring ==
    /\ ~isMonitoring /\ starting < MaxStarts
    /\ isMonitoring' = TRUE /\ starting' = starting + 1
    /\ UNCHANGED <<handle, lost, timers>>

\* It goes on whether or not monitoring was stopped in the meantime.
StartGoesOn ==
    /\ starting > 0 /\ MayOpen(Feeds)
    /\ starting' = starting - 1
    /\ Opened(Feeds)
    /\ UNCHANGED <<isMonitoring, timers>>

\* Faulty: the flag is left on.
StartFailsOn ==
    /\ starting > 0
    /\ starting' = starting - 1
    /\ UNCHANGED <<isMonitoring, handle, lost, timers>>

StartFails ==
    /\ starting > 0
    /\ starting' = starting - 1 /\ isMonitoring' = FALSE
    /\ UNCHANGED <<handle, lost, timers>>

stopMonitoring ==
    /\ isMonitoring
    /\ handle' = [f \in Feeds |-> "null"] /\ isMonitoring' = FALSE
    /\ UNCHANGED <<starting, lost, timers>>

\* onerror of the stream in the handle, or of one whose handle is gone.
onerror(f) ==
    /\ timers[f] < MaxTimers
    /\ timers' = [timers EXCEPT ![f] = @ + 1]
    /\ \/ /\ handle[f] = "live"
          /\ handle' \in {handle, [handle EXCEPT ![f] = "dead"]}
          /\ UNCHANGED lost
       \/ /\ lost[f] > 0
          /\ lost' \in {lost, [lost EXCEPT ![f] = @ - 1]}
          /\ UNCHANGED handle
    /\ UNCHANGED <<isMonitoring, starting>>

\* Five seconds later.
RestartStream(f) ==
    /\ timers[f] > 0
    /\ timers' = [timers EXCEPT ![f] = @ - 1]
    /\ IF isMonitoring THEN MayOpen({f}) /\ Opened({f}) ELSE UNCHANGED <<handle, lost>>
    /\ UNCHANGED <<isMonitoring, starting>>

\* The process restarts, and onModuleInit begins a new start.
ProcessRestarts ==
    /\ isMonitoring' = TRUE /\ starting' = 1
    /\ handle' = [f \in Feeds |-> "null"]
    /\ lost' = [f \in Feeds |-> 0] /\ timers' = [f \in Feeds |-> 0]

SmNext ==
    \/ startMonitoring \/ StartGoesOn \/ StartFails \/ stopMonitoring \/ ProcessRestarts
    \/ \E f \in Feeds : onerror(f) \/ RestartStream(f)

\* Timers fire and Horizon answers or refuses; it need not break.
SmFairness ==
    /\ WF_smVars(StartGoesOn \/ StartFails)
    /\ \A f \in Feeds : WF_smVars(RestartStream(f))

SmSpec == SmInit /\ [][SmNext]_smVars /\ SmFairness

-----------------------------------------------------------------------------
Feeding(f) == handle[f] = "live" \/ lost[f] > 0

(***************************************************************************)
(* While monitoring is on, a feed that broke is live again after a while,  *)
(* or monitoring is switched off (by a stop, or by a start that failed),   *)
(* however starts, stops and errors overlap.                               *)
(***************************************************************************)
FeedReturns == \A f \in Feeds : isMonitoring /\ ~Feeding(f) ~> Feeding(f) \/ ~isMonitoring
=============================================================================
