----------------------------- MODULE HostClock -----------------------------
(* What every contract reads with env.ledger().timestamp(): the close time *)
(* of the ledger its invocation runs in.  A later ledger may close any     *)
(* amount of time after the one before it.                                 *)
EXTENDS Integers

VARIABLE now
CONSTANT MaxTime

\* Times are unsigned; MaxTime only keeps the clock of a TLC run finite.
ASSUME MaxTimeAssumption == MaxTime \in Nat

LedgerCloses == \E t \in 1..MaxTime : t > now /\ now' = t
=============================================================================
