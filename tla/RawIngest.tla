----------------------------- MODULE RawIngest -----------------------------
(***************************************************************************)
(* What market-data operations share: the raw_ingest_audit table, which    *)
(* records every payload a crawler fetched, and the daily_ohlcv table the  *)
(* payloads are loaded into.                                               *)
(*                                                                         *)
(* A scope is a symbol of the watchlist.  A raw record is reduced to the   *)
(* kind of its payload, the audit of a scope to the kinds recorded as      *)
(* fetched successfully with a body and to the latest of them (records     *)
(* marked failed, and empty bodies, are read by no operation), and the     *)
(* bars to the source of the scope's most recent one.                      *)
(***************************************************************************)
EXTENDS Naturals

CONSTANTS
    Scopes,    \* symbols on the watchlist
    MaxFaults  \* bound on storage failures and killed processes

ASSUME ScopeAssumption == Scopes # {}
ASSUME FaultAssumption == MaxFaults \in Nat

VARIABLES
    audit,  \* raw_ingest_audit, by scope
    bars,   \* source of the scope's latest daily bar
    faults

\* A TWSE answer is recorded as a success before it is parsed, so one that is
\* not OK, or does not parse, stays in the audit.
Kinds == {"yfinance", "twse", "twse_rejected", "minute"}

\* What replay_raw_ingest_record can parse back into daily bars.
Replayable == {"yfinance", "twse"}

Official == {"twse"}

RawInit ==
    /\ audit = [s \in Scopes |-> [seen |-> {}, latest |-> "none"]]
    /\ bars = [s \in Scopes |-> "none"]
    /\ faults = 0

RawTypeOK ==
    /\ audit \in [Scopes -> [seen : SUBSET Kinds, latest : Kinds \cup {"none"}]]
    /\ bars \in [Scopes -> Replayable \cup {"none"}]
    /\ faults \in 0..MaxFaults

\* persist_raw_ingest_record with fetch_status "success"
Recorded(s, kind) ==
    audit' = [audit EXCEPT ![s] = [seen |-> audit[s].seen \cup {kind},
                                   latest |-> kind]]

\* load_to_db: an official row replaces any other, a fallback row only a
\* fallback row.  The frame may hold no valid row for the latest date.
Loaded(s, kind) ==
    \/ UNCHANGED bars
    \/ /\ kind \in Official \/ bars[s] \notin Official
       /\ bars' = [bars EXCEPT ![s] = kind]

\* A storage operation fails, or a process dies.
Fault ==
    /\ faults < MaxFaults
    /\ faults' = faults + 1

=============================================================================
