-------------------------------- MODULE ClockSync --------------------------------
(***************************************************************************)
(* market-ingestor: the estimate of the offset between the host clock and  *)
(* the clock of the exchange (run_clock_sync in stream.rs) and the ingest  *)
(* times made with it, up to the rows market-persister stores.             *)
(*                                                                         *)
(* Only differences of times enter the code, so exchange time is counted   *)
(* from the sending of the request in flight and is not kept otherwise; a  *)
(* clock reading of the host is that time plus skew.  The error of an      *)
(* ingest time is what it says minus the exchange time of the arrival.     *)
(* NTP and drift may change skew at any time.  Times are in ms.  Both      *)
(* processes run on one host, so they share skew.  The pauses between      *)
(* requests (2 s, 30 s) are of any length.                                 *)
(***************************************************************************)
EXTENDS Integers

CONSTANTS
    Skews,          \* what the skew of the host clock may be
    InitialRetries, \* INITIAL_RETRIES
    MaxRtt,         \* bound of the model: round trip of a request
    MaxSlew,        \* bound of the model: change of skew that is still counted
    Normalised,     \* rows stamped by the futures manager: context, depth, liq
    Raw,            \* rows stamped by the persister: trade, bbo
    None            \* no value

ASSUME SkewsAssumption == Skews \subseteq Int /\ None \notin Int
ASSUME KindsAssumption == Normalised \intersect Raw = {}
ASSUME InitialRetriesAssumption == InitialRetries \in Nat \ {0}

VARIABLES
    skew,           \* host clock minus exchange clock
    offset,         \* clock_offset_ms
    attempt,        \* attempt of the initial loop, 0 in the periodic loop
    pc,             \* "idle" or "sent"
    before,         \* local_before
    elapsed,        \* exchange time since the request was sent
    server,         \* serverTime of the answer, None before the server read it
    slewing,        \* history: how far skew moved since the request was sent
    synced,         \* history: [rtt, slew] of the last sync, None before the first
    row             \* history: the last row stamped, [kind, error, bound]

request == <<attempt, pc, before, elapsed, server>>
vars == <<skew, offset, attempt, pc, before, elapsed, server, slewing, synced, row>>

Abs(x) == IF x >= 0 THEN x ELSE -x

(* x / 2 of Rust: toward zero.  A clock set back makes x negative. *)
Half(x) == IF x >= 0 THEN x \div 2 ELSE -((-x) \div 2)

(* Twice the error a sync leaves behind at most: its round trip, a rounded  *)
(* half, and all that the skew has moved since it was begun.                *)
Bound(s) == s.rtt + 1 + 2 * s.slew

Init ==
    /\ skew \in Skews
    /\ offset = 0
    /\ attempt = 1
    /\ pc = "idle"
    /\ before = 0
    /\ elapsed = 0
    /\ server = None
    /\ slewing = 0
    /\ synced = None
    /\ row = None

--------------------------------------------------------------------------------
(* The environment: time, the host clock, the server.                       *)

Tick ==
    /\ pc = "sent"
    /\ elapsed < MaxRtt
    /\ elapsed' = elapsed + 1
    /\ UNCHANGED <<skew, offset, attempt, pc, before, server, slewing, synced, row>>

Slew(s) ==
    LET d == Abs(s - skew) IN
    /\ s # skew
    /\ slewing + d <= MaxSlew
    /\ (synced # None) => synced.slew + d <= MaxSlew
    /\ skew' = s
    /\ slewing' = IF pc = "sent" THEN slewing + d ELSE 0
    /\ synced' = IF synced = None THEN None ELSE [synced EXCEPT !.slew = @ + d]
    /\ UNCHANGED <<offset, request, row>>

ServerReads ==
    /\ pc = "sent"
    /\ server = None
    /\ server' = elapsed
    /\ UNCHANGED <<skew, offset, attempt, pc, before, elapsed, slewing, synced, row>>

--------------------------------------------------------------------------------
(* run_clock_sync.                                                          *)

Send ==
    /\ pc = "idle"
    /\ pc' = "sent"
    /\ before' = skew
    /\ UNCHANGED <<skew, offset, attempt, elapsed, server, slewing, synced, row>>

(* The locals of the request are gone. *)
RequestEnds ==
    /\ pc' = "idle"
    /\ before' = 0
    /\ elapsed' = 0
    /\ server' = None
    /\ slewing' = 0

(* Mutant: only the first offset is stored. *)
AnswerOk_OnlyFirst ==
    /\ pc = "sent"
    /\ server # None
    /\ offset' = IF synced = None
                     THEN before + Half(elapsed + skew - before) - server
                     ELSE offset
    /\ synced' = [rtt |-> elapsed, slew |-> slewing]
    /\ attempt' = 0
    /\ RequestEnds
    /\ UNCHANGED <<skew, row>>

(* The answer is read: half of the round trip counts as the way there. *)
AnswerOk ==
    /\ pc = "sent"
    /\ server # None
    /\ offset' = before + Half(elapsed + skew - before) - server
    /\ synced' = [rtt |-> elapsed, slew |-> slewing]
    /\ attempt' = 0
    /\ RequestEnds
    /\ UNCHANGED <<skew, row>>

(* Mutant: the attempts are counted on after the last one. *)
AnswerErr_Counts ==
    /\ pc = "sent"
    /\ RequestEnds
    /\ attempt' = IF attempt > 0 THEN attempt + 1 ELSE 0
    /\ UNCHANGED <<skew, offset, synced, row>>

(* No connection, a status that is not success, or no JSON: the offset      *)
(* stays.  After the last initial attempt the periodic loop takes over.     *)
AnswerErr ==
    /\ pc = "sent"
    /\ RequestEnds
    /\ attempt' = IF attempt \in 1..(InitialRetries - 1) THEN attempt + 1 ELSE 0
    /\ UNCHANGED <<skew, offset, synced, row>>

--------------------------------------------------------------------------------
(* Rows.  The managers start with the process and do not wait for a sync.   *)

Stamp(k, error) ==
    /\ row' = [kind |-> k, error |-> error,
               bound |-> IF synced = None THEN None ELSE Bound(synced)]
    /\ UNCHANGED <<skew, offset, request, slewing, synced>>

(* Mutant: the offset is added. *)
HandleFuturesMessage_Adds(k) == Stamp(k, skew + offset)

(* ts_ingest = now_ms() - clock_offset_ms. *)
HandleFuturesMessage(k) == Stamp(k, skew - offset)

(* Trade and BBO rows: the persister's own clock when the message is parsed.*)
IngestRaw(k) == Stamp(k, skew)

Next ==
    \/ Tick
    \/ \E s \in Skews : Slew(s)
    \/ ServerReads
    \/ Send
    \/ AnswerOk
    \/ AnswerErr
    \/ \E k \in Normalised : HandleFuturesMessage(k)
    \/ \E k \in Raw : IngestRaw(k)

(* The task is run, every request ends, and requests that are made again    *)
(* and again are answered in the end.                                       *)
Fairness ==
    /\ WF_vars(Send)
    /\ WF_vars(AnswerOk \/ AnswerErr)
    /\ SF_vars(ServerReads)
    /\ SF_vars(AnswerOk)

Spec == Init /\ [][Next]_vars
LiveSpec == Spec /\ Fairness

--------------------------------------------------------------------------------
TypeOK ==
    /\ skew \in Skews
    /\ offset \in Int /\ before \in Int
    /\ attempt \in 0..InitialRetries
    /\ pc \in {"idle", "sent"}
    /\ elapsed \in Nat /\ slewing \in Nat
    /\ server \in (0..elapsed) \union {None}
    /\ synced \in [rtt : Nat, slew : Nat] \union {None}
    /\ row \in [kind : Normalised \union Raw, error : Int, bound : Nat \union {None}]
               \union {None}

(* After the first sync every ingest time of the futures manager is right   *)
(* up to half of a round trip and what the host clock has moved since the   *)
(* sync was begun, also when the clock is set back during a request, when   *)
(* later syncs fail, and when a sync falls between two messages             *)
(* (stream.rs:38-39, docs/LATENCY_CHECK.md:9).                              *)
StampError ==
    (row # None /\ row.kind \in Normalised /\ row.bound # None)
        => 2 * Abs(row.error) <= row.bound

HalfRtt == (MaxRtt + 1) \div 2

(* Once the host clock keeps its skew, the offset is within half of the     *)
(* longest round trip of it, for good: the loop never stops to sync.        *)
EventuallyAccurate ==
    \A s \in Skews :
        <>[](skew = s) => <>[](offset \in s - HalfRtt .. s + HalfRtt)
================================================================================
