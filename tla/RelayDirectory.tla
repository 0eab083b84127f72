--------------------------- MODULE RelayDirectory ---------------------------
(***************************************************************************)
(* apps/orchestrator/src/relays.ts over packages/identity/ens/src/         *)
(* client.ts: listOperators answers from a cache of capability records, or *)
(* reads every field of every known operator from the chain, each with an  *)
(* RPC of its own, and refills the cache.                                  *)
(*                                                                         *)
(* A capability record is a set of facts: "active" when its status is      *)
(* active, and the tiers it declares.  A record the schema rejects         *)
(* declares no tier.  Each call of listOperators is a caller (GET /tiers   *)
(* makes three at once).  Time passes in ticks; timers are kept relative   *)
(* to now, so the model needs no bound on the length of a run.             *)
(***************************************************************************)
EXTENDS Naturals, FiniteSets

CONSTANTS
  Relays,      \* KNOWN_OPERATORS
  Tiers,
  Callers,
  TTL,         \* CACHE_TTL_MS
  FetchTime,   \* the RPC client gives up on a fetch that takes longer
  MayFail,     \* whether RPCs may fail and the process may crash
  None         \* null, or not read yet

ASSUME TimesAssumption == TTL \in Nat \ {0} /\ FetchTime \in Nat
ASSUME TiersAssumption == "active" \notin Tiers
ASSUME MayFailAssumption == MayFail \in BOOLEAN

VARIABLES
  chain,       \* facts true of each relay
  cache,       \* null, or records and how long they are still good
  fetch,       \* what each caller has read
  since,       \* history: ticks since each fact was last true of each relay
  shown,       \* history: relays an answer reported as not active
  overlapped   \* history: two fetches were in progress at once

vars == <<chain, cache, fetch, since, shown, overlapped>>

Facts == {"active"} \cup Tiers

Fields == [status |-> {"active"}, tiers |-> Tiers]

Records == [Relays -> SUBSET Facts]

FetchState == [stage : {"idle", "reading"}, age : 0..FetchTime,
               got : [Relays -> [DOMAIN Fields -> (SUBSET Facts) \cup {None}]]]

\* Counting since stops here.
Horizon == TTL + FetchTime + 1

Idle == [stage |-> "idle", age |-> 0,
         got |-> [r \in Relays |-> [f \in DOMAIN Fields |-> None]]]

Init == /\ chain \in [Relays -> {{"active"} \cup T : T \in (SUBSET Tiers) \ {{}}}]
        /\ cache = None
        /\ fetch = [c \in Callers |-> Idle]
        /\ since = [r \in Relays |-> [x \in Facts |-> IF x \in chain[r] THEN 0 ELSE Horizon]]
        /\ shown = {}
        /\ overlapped = FALSE
-----------------------------------------------------------------------------
Fresh == cache # None /\ cache.left > 0

InProgress == {c \in Callers : fetch[c].stage = "reading"}

\* As Settle, but what the caller has read is there for its next call.
SettleKept(c) == fetch' = [fetch EXCEPT ![c].stage = "idle", ![c].age = 0]

\* The call returns or throws, and what it read is gone.
Settle(c) == fetch' = [fetch EXCEPT ![c] = Idle]

Return(c, records) ==
  /\ Settle(c)
  /\ shown' = shown \cup {r \in Relays : "active" \notin records[r]}

\* listOperators is called.
ListOperators(c) ==
  /\ fetch[c].stage = "idle"
  /\ IF Fresh
     THEN Return(c, cache.records) /\ UNCHANGED overlapped
     ELSE /\ fetch' = [fetch EXCEPT ![c].stage = "reading"]
          /\ overlapped' = (overlapped \/ InProgress # {})
          /\ UNCHANGED shown
  /\ UNCHANGED <<chain, cache, since>>

\* One readContract is answered, from the latest block.
ReadField(c, r, f) ==
  /\ fetch[c].stage = "reading"
  /\ fetch[c].got[r][f] = None
  /\ fetch' = [fetch EXCEPT ![c].got[r][f] = chain[r] \cap Fields[f]]
  /\ UNCHANGED <<chain, cache, since, shown, overlapped>>

Complete(c, r) == \A f \in DOMAIN Fields : fetch[c].got[r][f] # None

WellFormed(record) == record \cap Tiers # {}

Record(c, r) == fetch[c].got[r].status \cup fetch[c].got[r].tiers

\* Every record was read and parsed: the cache is replaced.
Store(c) ==
  /\ fetch[c].stage = "reading"
  /\ \A r \in Relays : Complete(c, r) /\ WellFormed(Record(c, r))
  /\ LET records == [r \in Relays |-> Record(c, r)]
     IN cache' = [records |-> records, left |-> TTL] /\ Return(c, records)
  /\ UNCHANGED <<chain, since, overlapped>>

\* One record does not parse: the whole call throws.
Throw(c) ==
  /\ fetch[c].stage = "reading"
  /\ \E r \in Relays : Complete(c, r) /\ ~WellFormed(Record(c, r))
  /\ Settle(c)
  /\ UNCHANGED <<chain, cache, since, shown, overlapped>>

\* As Reject, but the old records are used for another TTL.
RejectServesOld(c) ==
  /\ MayFail
  /\ fetch[c].stage = "reading"
  /\ Settle(c)
  /\ cache' = IF cache = None THEN None ELSE [cache EXCEPT !.left = TTL]
  /\ UNCHANGED <<chain, since, shown, overlapped>>

\* An RPC fails or times out: the whole call throws.
Reject(c) ==
  /\ MayFail
  /\ fetch[c].stage = "reading"
  /\ Settle(c)
  /\ UNCHANGED <<chain, cache, since, shown, overlapped>>

Restart ==
  /\ MayFail
  /\ cache' = None
  /\ fetch' = [c \in Callers |-> Idle]
  /\ UNCHANGED <<chain, since, shown, overlapped>>
-----------------------------------------------------------------------------
(* The chain and the clock.                                                *)

Revoke(r) ==
  /\ chain' = [chain EXCEPT ![r] = @ \ {"active"}]
  /\ UNCHANGED <<cache, fetch, since, shown, overlapped>>

\* The operational key writes tiers_supported, whatever the status.
SetTiers(r, declared) ==
  /\ chain' = [chain EXCEPT ![r] = (@ \ Tiers) \cup declared]
  /\ since' = [since EXCEPT ![r] = [x \in Facts |-> IF x \in chain'[r] THEN 0 ELSE @[x]]]
  /\ UNCHANGED <<cache, fetch, shown, overlapped>>

\* As InTime, but the RPC client waits for ever.
InTimeAlways == TRUE

\* No fetch has to be given up before the next tick.
InTime == \A c \in InProgress : fetch[c].age < FetchTime

Tick ==
  /\ InTime
  /\ fetch' = [c \in Callers |-> IF c \in InProgress
                                 THEN [fetch[c] EXCEPT !.age = @ + 1]
                                 ELSE fetch[c]]
  /\ cache' = IF Fresh THEN [cache EXCEPT !.left = @ - 1] ELSE cache
  /\ since' = [r \in Relays |-> [x \in Facts |->
                 IF x \in chain[r] THEN 0
                 ELSE IF since[r][x] < Horizon THEN since[r][x] + 1 ELSE Horizon]]
  /\ UNCHANGED <<chain, shown, overlapped>>
-----------------------------------------------------------------------------
Fetch(c) == \/ Store(c) \/ Throw(c)
            \/ \E r \in Relays, f \in DOMAIN Fields : ReadField(c, r, f)

Next == \/ \E c \in Callers : ListOperators(c) \/ Fetch(c) \/ Reject(c)
        \/ \E r \in Relays : Revoke(r) \/ \E declared \in SUBSET Tiers : SetTiers(r, declared)
        \/ Tick
        \/ Restart

Spec == Init /\ [][Next]_vars

-----------------------------------------------------------------------------
(* Properties.                                                             *)

TypeOK ==
  /\ chain \in Records
  /\ cache = None \/ cache \in [records : Records, left : 0..TTL]
  /\ fetch \in [Callers -> FetchState]
  /\ since \in [Relays -> [Facts -> 0..Horizon]]
  /\ shown \in SUBSET Relays
  /\ overlapped \in BOOLEAN

\* An answer given now may say x of relay r.
Says(r, x) == Fresh /\ x \in cache.records[r]

(* What an answer says of a relay was true on chain less than the cache    *)
(* time plus one fetch ago: the time to live runs from the end of a fetch, *)
(* its fields were read since the beginning, and neither failed fetches    *)
(* nor fetches finishing out of order add to it.                           *)
StaleIsBounded ==
  \A r \in Relays, x \in Facts : Says(r, x) => since[r][x] < TTL + FetchTime

(* A relay an answer has reported as revoked is not offered again.         *)
RevokedStaysRevoked == \A r \in shown : ~Says(r, "active")

(* Only a fetch that overlaps another can bring a revoked relay back: the  *)
(* slower one overwrites the cache with what it read first.                *)
RevokedStaysUnlessOverlapped == ~overlapped => RevokedStaysRevoked
=============================================================================
