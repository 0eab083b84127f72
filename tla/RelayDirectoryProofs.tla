------------------------ MODULE RelayDirectoryProofs ------------------------
(***************************************************************************)
(* How old the relay directory's answers can get, for any number of        *)
(* callers and relays and any times.                                       *)
(*                                                                         *)
(* A fact a caller has read was true when its fetch began or later; a fact *)
(* in the cache was true one fetch before the cache was filled or later.   *)
(***************************************************************************)
EXTENDS RelayDirectory, TLAPS

FetchIsRecent ==
  \A c \in Callers, r \in Relays, f \in DOMAIN Fields :
    fetch[c].got[r][f] # None =>
      \A x \in fetch[c].got[r][f] : since[r][x] <= fetch[c].age

CacheIsRecent ==
  Fresh => \A r \in Relays : \A x \in cache.records[r] :
             since[r][x] + cache.left <= TTL + FetchTime

NowIsRecent ==
  \A r \in Relays : \A x \in chain[r] : since[r][x] = 0

RestIsIdle == \A c \in Callers : fetch[c].stage = "idle" => fetch[c] = Idle

Recent == TypeOK /\ NowIsRecent /\ RestIsIdle /\ FetchIsRecent /\ CacheIsRecent
-----------------------------------------------------------------------------
LEMMA TheFields ==
  /\ DOMAIN Fields = {"status", "tiers"}
  /\ \A f \in DOMAIN Fields : Fields[f] \subseteq Facts
<1>1. DOMAIN Fields = {"status", "tiers"}
  BY DEF Fields
<1>2. Fields["status"] = {"active"} /\ Fields["tiers"] = Tiers
  BY DEF Fields
<1>. QED  BY <1>1, <1>2 DEF Facts

LEMMA IdleIsTyped == Idle \in FetchState
BY TimesAssumption DEF Idle, FetchState

LEMMA RecordIsTyped ==
  ASSUME TypeOK, NEW c \in Callers, NEW r \in Relays, Complete(c, r)
  PROVE  /\ Record(c, r) \in SUBSET Facts
         /\ \A x \in Record(c, r) : \E f \in DOMAIN Fields :
              fetch[c].got[r][f] # None /\ x \in fetch[c].got[r][f]
<1>1. /\ fetch[c].got[r] \in [DOMAIN Fields -> (SUBSET Facts) \cup {None}]
      /\ \A f \in DOMAIN Fields : fetch[c].got[r][f] # None
  BY DEF TypeOK, FetchState, Complete
<1>2. /\ "status" \in DOMAIN Fields /\ "tiers" \in DOMAIN Fields
      /\ fetch[c].got[r]["status"] \in SUBSET Facts
      /\ fetch[c].got[r]["tiers"] \in SUBSET Facts
  BY <1>1, TheFields
<1>3. Record(c, r) = fetch[c].got[r]["status"] \cup fetch[c].got[r]["tiers"]
  BY DEF Record
<1>. QED  BY <1>1, <1>2, <1>3

\* What a step does to one caller: it rests, begins, reads one field,
\* grows older or starts over.
LEMMA FetchMoves ==
  ASSUME TypeOK, [Next]_vars, NEW c \in Callers
  PROVE  \/ fetch'[c] = Idle
         \/ fetch'[c] = fetch[c] /\ (Tick => fetch[c].stage = "idle")
         \/ /\ fetch'[c].stage = "reading" /\ fetch'[c] \in FetchState
            /\ \/ /\ ~Tick
                  /\ fetch'[c].age = fetch[c].age /\ fetch'[c].got = fetch[c].got
               \/ /\ Tick
                  /\ fetch'[c].age = fetch[c].age + 1 /\ fetch'[c].got = fetch[c].got
               \/ \E r \in Relays, f \in DOMAIN Fields :
                    /\ fetch'[c].age = fetch[c].age
                    /\ fetch'[c].got[r][f] = chain[r] \cap Fields[f]
                    /\ \A s \in Relays, g \in DOMAIN Fields :
                         <<s, g>> # <<r, f>> => fetch'[c].got[s][g] = fetch[c].got[s][g]
                    /\ UNCHANGED <<chain, cache, since, shown, overlapped>>
<1>t. fetch \in [Callers -> FetchState] /\ chain \in [Relays -> SUBSET Facts]
  BY DEF TypeOK, Records
<1>0. fetch[c] \in FetchState
  BY <1>t
<1>n. ASSUME Tick PROVE /\ fetch'[c] = fetch[c] /\ fetch[c].stage = "idle"
                        \/ /\ fetch[c].stage = "reading"
                           /\ fetch'[c] = [fetch[c] EXCEPT !.age = @ + 1]
                           /\ fetch'[c] \in FetchState
  <2>1. CASE c \in InProgress
    <3>1. fetch'[c] = [fetch[c] EXCEPT !.age = @ + 1] /\ fetch[c].age < FetchTime
      BY <1>t, <1>n, <2>1 DEF Tick, InTime
    <3>2. fetch[c].age \in 0..FetchTime
      BY <1>0 DEF FetchState
    <3>3. fetch[c].age + 1 \in 0..FetchTime
      BY <3>1, <3>2, TimesAssumption
    <3>. QED  BY <1>0, <2>1, <3>1, <3>3 DEF FetchState, InProgress
  <2>2. CASE c \notin InProgress
    <3>1. fetch[c].stage = "idle"
      BY <1>0, <2>2 DEF InProgress, FetchState
    <3>. QED  BY <1>t, <1>n, <2>2, <3>1 DEF Tick
  <2>. QED  BY <2>1, <2>2
<1>1. ASSUME ~Tick, NEW d \in Callers, ListOperators(d)
      PROVE  \/ fetch'[c] = Idle \/ fetch'[c] = fetch[c]
             \/ /\ fetch'[c].stage = "reading" /\ fetch'[c] \in FetchState
                /\ fetch'[c].age = fetch[c].age /\ fetch'[c].got = fetch[c].got
  <2>1. CASE fetch' = [fetch EXCEPT ![d].stage = "reading"]
    <3>1. fetch'[c] = fetch[c] \/ fetch'[c] = [fetch[c] EXCEPT !.stage = "reading"]
      BY <1>t, <2>1
    <3>. QED  BY <1>0, <3>1 DEF FetchState
  <2>2. CASE Settle(d)
    BY <1>t, <2>2 DEF Settle
  <2>. QED  BY <1>1, <2>1, <2>2 DEF ListOperators, Return
<1>2. ASSUME NEW d \in Callers, Settle(d)
      PROVE  fetch'[c] = Idle \/ fetch'[c] = fetch[c]
  BY <1>t, <1>2 DEF Settle
<1>3. ASSUME NEW d \in Callers, NEW r \in Relays, NEW f \in DOMAIN Fields, ReadField(d, r, f)
      PROVE  \/ fetch'[c] = fetch[c]
             \/ /\ fetch'[c].stage = "reading" /\ fetch'[c] \in FetchState
                /\ fetch'[c].age = fetch[c].age
                /\ fetch'[c].got[r][f] = chain[r] \cap Fields[f]
                /\ \A s \in Relays, g \in DOMAIN Fields :
                     <<s, g>> # <<r, f>> => fetch'[c].got[s][g] = fetch[c].got[s][g]
                /\ UNCHANGED <<chain, cache, since, shown, overlapped>>
  <2>. DEFINE value == chain[r] \cap Fields[f]
              row == [fetch[c].got[r] EXCEPT ![f] = value]
              got == [fetch[c].got EXCEPT ![r] = row]
  <2>1. CASE d = c
    <3>1. fetch'[c] = [fetch[c] EXCEPT !.got = got] /\ UNCHANGED <<chain, cache, since, shown, overlapped>>
          /\ fetch[c].stage = "reading"
      BY <1>t, <1>3, <2>1 DEF ReadField
    <3>2. value \in SUBSET Facts
      BY <1>t
    <3>3. fetch[c].got \in [Relays -> [DOMAIN Fields -> (SUBSET Facts) \cup {None}]]
      BY <1>0 DEF FetchState
    <3>. HIDE DEF value
    <3>4. row \in [DOMAIN Fields -> (SUBSET Facts) \cup {None}]
          /\ row[f] = value /\ \A g \in DOMAIN Fields \ {f} : row[g] = fetch[c].got[r][g]
      BY <3>2, <3>3
    <3>. HIDE DEF row
    <3>5. got \in [Relays -> [DOMAIN Fields -> (SUBSET Facts) \cup {None}]]
          /\ got[r] = row /\ \A s \in Relays \ {r} : got[s] = fetch[c].got[s]
      BY <3>3, <3>4
    <3>. HIDE DEF got
    <3>6. /\ fetch'[c].got = got /\ fetch'[c].age = fetch[c].age
          /\ fetch'[c].stage = "reading" /\ fetch'[c] \in FetchState
      BY <1>0, <3>1, <3>5 DEF FetchState
    <3>7. \A s \in Relays, g \in DOMAIN Fields :
            <<s, g>> # <<r, f>> => got[s][g] = fetch[c].got[s][g]
      BY <3>4, <3>5
    <3>. QED  BY <3>1, <3>4, <3>5, <3>6, <3>7 DEF value
  <2>2. CASE d # c
    BY <1>t, <1>3, <2>2 DEF ReadField
  <2>. QED  BY <2>1, <2>2
<1>4. CASE Tick
  BY <1>0, <1>4, <1>n DEF FetchState
<1>5. CASE ~Tick
  <2>1. ASSUME NEW d \in Callers, Store(d) \/ Throw(d) \/ Reject(d) PROVE Settle(d)
    BY <2>1 DEF Store, Throw, Reject, Return
  <2>2. ASSUME NEW r \in Relays, Revoke(r) \/ \E declared \in SUBSET Tiers : SetTiers(r, declared)
        PROVE  fetch'[c] = fetch[c]
    BY <2>2 DEF Revoke, SetTiers
  <2>3. Restart => fetch'[c] = Idle
    BY DEF Restart
  <2>4. UNCHANGED vars => fetch'[c] = fetch[c]
    BY DEF vars
  <2>. QED
    BY <1>1, <1>2, <1>3, <1>5, <2>1, <2>2, <2>3, <2>4 DEF Next, Fetch
<1>. QED  BY <1>4, <1>5
-----------------------------------------------------------------------------
\* A step leaves the cache alone, empties it, ages it, or refills it with
\* what a caller read.
LEMMA CacheMoves ==
  ASSUME TypeOK, [Next]_vars
  PROVE  \/ cache' = cache /\ ~Tick
         \/ cache' = None
         \/ /\ Tick
            /\ cache' = IF Fresh THEN [cache EXCEPT !.left = @ - 1] ELSE cache
         \/ \E c \in Callers :
              /\ since' = since
              /\ \A r \in Relays : Complete(c, r)
              /\ cache' = [records |-> [r \in Relays |-> Record(c, r)], left |-> TTL]
<1>1. ASSUME NEW c \in Callers, Store(c)
      PROVE  /\ since' = since
             /\ \A r \in Relays : Complete(c, r)
             /\ cache' = [records |-> [r \in Relays |-> Record(c, r)], left |-> TTL]
  BY <1>1 DEF Store
<1>2. CASE Tick
  BY <1>2 DEF Tick
<1>3. CASE Restart
  BY <1>3 DEF Restart
<1>4. CASE /\ ~Tick
           /\ \/ \E c \in Callers : ListOperators(c) \/ Throw(c) \/ Reject(c)
              \/ \E c \in Callers, r \in Relays, f \in DOMAIN Fields : ReadField(c, r, f)
              \/ \E r \in Relays : Revoke(r)
              \/ \E r \in Relays, declared \in SUBSET Tiers : SetTiers(r, declared)
              \/ UNCHANGED vars
  BY <1>4 DEF ListOperators, Throw, Reject, ReadField, Revoke, SetTiers, vars
<1>. QED  BY <1>1, <1>2, <1>3, <1>4 DEF Next, Fetch

\* Facts stop being recent only as time passes; what is true is recent.
LEMMA SinceMoves ==
  ASSUME TypeOK, [Next]_vars
  PROVE  /\ since' \in [Relays -> [Facts -> 0..Horizon]]
         /\ \A r \in Relays, x \in Facts :
              /\ since'[r][x] <= since[r][x] + 1
              /\ ~Tick => since'[r][x] <= since[r][x]
<1>t. /\ since \in [Relays -> [Facts -> 0..Horizon]]
      /\ Horizon \in Nat
  BY TimesAssumption DEF TypeOK, Horizon
<1>u. \A r \in Relays, x \in Facts : since[r][x] \in 0..Horizon
  BY <1>t
<1>1. ASSUME NEW s \in Relays, NEW declared \in SUBSET Tiers, SetTiers(s, declared)
      PROVE  /\ since' \in [Relays -> [Facts -> 0..Horizon]]
             /\ \A r \in Relays, x \in Facts : since'[r][x] <= since[r][x]
  <2>. DEFINE row == [x \in Facts |-> IF x \in chain'[s] THEN 0 ELSE since[s][x]]
  <2>1. since' = [since EXCEPT ![s] = row]
    BY <1>1 DEF SetTiers
  <2>2. /\ row \in [Facts -> 0..Horizon]
        /\ \A x \in Facts : row[x] <= since[s][x]
    BY <1>t, <1>u
  <2>. HIDE DEF row
  <2>3. since' \in [Relays -> [Facts -> 0..Horizon]]
    BY <1>t, <2>1, <2>2
  <2>4. \A r \in Relays : since'[r] = IF r = s THEN row ELSE since[r]
    BY <1>t, <2>1
  <2>. QED  BY <1>u, <2>2, <2>3, <2>4
<1>2. CASE Tick
  <2>1. since' = [r \in Relays |-> [x \in Facts |->
                    IF x \in chain[r] THEN 0
                    ELSE IF since[r][x] < Horizon THEN since[r][x] + 1 ELSE Horizon]]
    BY <1>2 DEF Tick
  <2>2. \A r \in Relays, x \in Facts :
          since'[r][x] \in 0..Horizon /\ since'[r][x] <= since[r][x] + 1
    BY <1>t, <1>u, <2>1
  <2>3. since' \in [Relays -> [Facts -> 0..Horizon]]
    BY <1>t, <1>u, <2>1
  <2>. QED  BY <1>2, <2>2, <2>3
<1>3. CASE since' = since
  BY <1>t, <1>u, <1>3
<1>. QED
  <2>1. ASSUME NEW c \in Callers, ListOperators(c) \/ Fetch(c) \/ Reject(c)
        PROVE  since' = since
    BY <2>1 DEF ListOperators, Fetch, Store, Throw, ReadField, Reject
  <2>2. Restart \/ (\E r \in Relays : Revoke(r)) \/ UNCHANGED vars => since' = since
    BY DEF Restart, Revoke, vars
  <2>3. /\ since' \in [Relays -> [Facts -> 0..Horizon]]
        /\ \A r \in Relays, x \in Facts : since'[r][x] <= since[r][x]
        => \A r \in Relays, x \in Facts : since'[r][x] <= since[r][x] + 1
    BY <1>t, <1>u
  <2>. QED  BY <1>1, <1>2, <1>3, <2>1, <2>2, <2>3 DEF Next

LEMMA TypeKept == TypeOK /\ [Next]_vars => TypeOK'
<1>. SUFFICES ASSUME TypeOK, [Next]_vars PROVE TypeOK'
  OBVIOUS
<1>t. /\ chain \in [Relays -> SUBSET Facts] /\ fetch \in [Callers -> FetchState]
      /\ cache = None \/ cache \in [records : Records, left : 0..TTL]
      /\ shown \in SUBSET Relays /\ overlapped \in BOOLEAN
  BY DEF TypeOK, Records
<1>1. chain' \in [Relays -> SUBSET Facts]
  <2>1. ASSUME NEW r \in Relays, Revoke(r) PROVE chain' \in [Relays -> SUBSET Facts]
    BY <1>t, <2>1 DEF Revoke
  <2>2. ASSUME NEW r \in Relays, NEW declared \in SUBSET Tiers, SetTiers(r, declared)
        PROVE  chain' \in [Relays -> SUBSET Facts]
    BY <1>t, <2>2 DEF SetTiers, Facts
  <2>3. \/ Tick \/ Restart \/ UNCHANGED vars
        \/ \E c \in Callers : ListOperators(c) \/ Fetch(c) \/ Reject(c)
        => chain' = chain
    BY DEF Tick, Restart, vars, ListOperators, Fetch, Store, Throw, ReadField, Reject
  <2>. QED  BY <1>t, <2>1, <2>2, <2>3 DEF Next
<1>2. cache' = None \/ cache' \in [records : Records, left : 0..TTL]
  <2>1. CASE cache' = IF Fresh THEN [cache EXCEPT !.left = @ - 1] ELSE cache
    <3>1. CASE Fresh
      <4>1. cache \in [records : Records, left : 0..TTL] /\ cache.left - 1 \in 0..TTL
        BY <1>t, <3>1, TimesAssumption DEF Fresh
      <4>. QED  BY <2>1, <3>1, <4>1
    <3>. QED  BY <1>t, <2>1, <3>1
  <2>2. ASSUME NEW c \in Callers, \A r \in Relays : Complete(c, r),
               cache' = [records |-> [r \in Relays |-> Record(c, r)], left |-> TTL]
        PROVE  cache' \in [records : Records, left : 0..TTL]
    <3>1. [r \in Relays |-> Record(c, r)] \in Records
      BY <2>2, RecordIsTyped DEF Records
    <3>. QED  BY <2>2, <3>1, TimesAssumption
  <2>. QED  BY <1>t, <2>1, <2>2, CacheMoves
<1>3. fetch' \in [Callers -> FetchState]
  <2>1. fetch' = [c \in Callers |-> fetch'[c]]
    <3>1. ASSUME NEW c \in Callers, Settle(c) PROVE fetch' = [d \in Callers |-> fetch'[d]]
      BY <1>t, <3>1 DEF Settle
    <3>2. ASSUME NEW c \in Callers, ListOperators(c) PROVE fetch' = [d \in Callers |-> fetch'[d]]
      BY <1>t, <3>1, <3>2 DEF ListOperators, Return
    <3>3. ASSUME NEW c \in Callers, NEW r \in Relays, NEW f \in DOMAIN Fields, ReadField(c, r, f)
          PROVE  fetch' = [d \in Callers |-> fetch'[d]]
      BY <1>t, <3>3 DEF ReadField
    <3>4. Tick \/ Restart => fetch' = [d \in Callers |-> fetch'[d]]
      BY DEF Tick, Restart
    <3>5. ASSUME NEW c \in Callers, Store(c) \/ Throw(c) \/ Reject(c) PROVE Settle(c)
      BY <3>5 DEF Store, Throw, Reject, Return
    <3>6. \/ UNCHANGED vars \/ \E r \in Relays : Revoke(r)
          \/ \E r \in Relays, declared \in SUBSET Tiers : SetTiers(r, declared)
          => fetch' = [d \in Callers |-> fetch'[d]]
      BY <1>t DEF vars, Revoke, SetTiers
    <3>. QED  BY <3>1, <3>2, <3>3, <3>4, <3>5, <3>6 DEF Next, Fetch
  <2>2. \A c \in Callers : fetch'[c] \in FetchState
    BY <1>t, FetchMoves, IdleIsTyped
  <2>. QED  BY <2>1, <2>2
<1>4. shown' \in SUBSET Relays /\ overlapped' \in BOOLEAN
  <2>1. ASSUME NEW c \in Callers, NEW records, Return(c, records) PROVE shown' \in SUBSET Relays
    BY <1>t, <2>1 DEF Return
  <2>2. \/ UNCHANGED vars \/ Tick \/ Restart
        \/ \E r \in Relays : Revoke(r) \/ \E declared \in SUBSET Tiers : SetTiers(r, declared)
        \/ \E c \in Callers : Throw(c) \/ Reject(c)
                              \/ \E r \in Relays, f \in DOMAIN Fields : ReadField(c, r, f)
        => shown' = shown /\ overlapped' = overlapped
    BY DEF vars, Tick, Restart, Revoke, SetTiers, Throw, Reject, ReadField
  <2>3. ASSUME NEW c \in Callers, ListOperators(c)
        PROVE  shown' \in SUBSET Relays /\ overlapped' \in BOOLEAN
    BY <1>t, <2>1, <2>3 DEF ListOperators
  <2>4. ASSUME NEW c \in Callers, Store(c)
        PROVE  shown' \in SUBSET Relays /\ overlapped' \in BOOLEAN
    BY <1>t, <2>1, <2>4 DEF Store
  <2>. QED  BY <1>t, <2>2, <2>3, <2>4 DEF Next, Fetch
<1>. QED  BY <1>1, <1>2, <1>3, <1>4, SinceMoves DEF TypeOK, Records
-----------------------------------------------------------------------------
LEMMA InitIsRecent == Init => Recent
<1>. SUFFICES ASSUME Init PROVE Recent
  OBVIOUS
<1>t. Horizon \in Nat /\ TTL \in Nat /\ FetchTime \in Nat
  BY TimesAssumption DEF Horizon
<1>1. chain \in Records
  BY DEF Init, Records, Facts
<1>2. since \in [Relays -> [Facts -> 0..Horizon]]
  BY <1>t DEF Init
<1>3. fetch \in [Callers -> FetchState]
  BY IdleIsTyped DEF Init
<1>4. \A c \in Callers, r \in Relays, f \in DOMAIN Fields : fetch[c].got[r][f] = None
  BY DEF Init, Idle
<1>5. cache = None /\ shown = {} /\ overlapped = FALSE
  BY DEF Init
<1>6. NowIsRecent
  BY <1>1 DEF Init, NowIsRecent, Records
<1>7. RestIsIdle
  BY DEF Init, RestIsIdle
<1>. QED  BY <1>1, <1>2, <1>3, <1>4, <1>5, <1>6, <1>7
          DEF Recent, TypeOK, FetchIsRecent, CacheIsRecent, Fresh

LEMMA RestStaysIdle == Recent /\ [Next]_vars => RestIsIdle'
<1>. SUFFICES ASSUME Recent, [Next]_vars, NEW c \in Callers, fetch'[c].stage = "idle"
              PROVE  fetch'[c] = Idle
  BY DEF RestIsIdle
<1>1. TypeOK /\ (fetch[c].stage = "idle" => fetch[c] = Idle)
  BY DEF Recent, RestIsIdle
<1>2. \/ fetch'[c] = Idle \/ fetch'[c] = fetch[c] \/ fetch'[c].stage = "reading"
  BY <1>1, FetchMoves
<1>. QED  BY <1>1, <1>2

\* A fact that is true now was true a moment ago.
LEMMA NowStaysRecent == Recent /\ [Next]_vars => NowIsRecent'
<1>. SUFFICES ASSUME Recent, [Next]_vars, NEW r \in Relays, NEW x \in chain'[r]
              PROVE  since'[r][x] = 0
  BY DEF NowIsRecent
<1>t. /\ chain \in [Relays -> SUBSET Facts] /\ since \in [Relays -> [Facts -> 0..Horizon]]
      /\ \A s \in Relays : \A y \in chain[s] : since[s][y] = 0
  BY DEF Recent, NowIsRecent, TypeOK, Records
<1>1. ASSUME NEW s \in Relays, NEW declared \in SUBSET Tiers, SetTiers(s, declared)
      PROVE  since'[r][x] = 0
  <2>1. chain'[s] \subseteq Facts /\ \A u \in Relays \ {s} : chain'[u] = chain[u]
    BY <1>t, <1>1 DEF SetTiers, Facts
  <2>2. CASE r = s
    <3>1. since'[s] = [y \in Facts |-> IF y \in chain'[s] THEN 0 ELSE since[s][y]]
      BY <1>t, <1>1 DEF SetTiers
    <3>. QED  BY <2>1, <2>2, <3>1
  <2>3. CASE r # s
    <3>1. since'[r] = since[r]
      BY <1>t, <1>1, <2>3 DEF SetTiers
    <3>. QED  BY <1>t, <2>1, <2>3, <3>1
  <2>. QED  BY <2>2, <2>3
<1>2. ASSUME NEW s \in Relays, Revoke(s) PROVE since'[r][x] = 0
  <2>1. chain'[r] \subseteq chain[r] /\ since' = since
    BY <1>t, <1>2 DEF Revoke
  <2>. QED  BY <1>t, <2>1
<1>3. CASE Tick
  <2>1. chain' = chain /\ x \in Facts
    BY <1>t, <1>3 DEF Tick
  <2>2. since'[r] = [y \in Facts |->
                       IF y \in chain[r] THEN 0
                       ELSE IF since[r][y] < Horizon THEN since[r][y] + 1 ELSE Horizon]
    BY <1>3 DEF Tick
  <2>. QED  BY <2>1, <2>2
<1>4. CASE \/ Restart \/ UNCHANGED vars
           \/ \E c \in Callers : ListOperators(c) \/ Fetch(c) \/ Reject(c)
  <2>1. chain' = chain /\ since' = since
    BY <1>4 DEF Restart, vars, ListOperators, Fetch, Store, Throw, ReadField, Reject
  <2>. QED  BY <1>t, <2>1
<1>. QED  BY <1>1, <1>2, <1>3, <1>4 DEF Next

LEMMA FetchStaysRecent == Recent /\ [Next]_vars => FetchIsRecent'
<1>. SUFFICES ASSUME Recent, [Next]_vars,
                     NEW c \in Callers, NEW r \in Relays, NEW f \in DOMAIN Fields,
                     fetch'[c].got[r][f] # None, NEW x \in fetch'[c].got[r][f]
              PROVE  since'[r][x] <= fetch'[c].age
  BY DEF FetchIsRecent
<1>t. /\ TypeOK /\ fetch[c] \in FetchState
      /\ fetch[c].age \in Nat
      /\ fetch[c].got \in [Relays -> [DOMAIN Fields -> (SUBSET Facts) \cup {None}]]
  BY TimesAssumption DEF Recent, TypeOK, FetchState
<1>s. /\ \A y \in Facts : since[r][y] \in Nat /\ since'[r][y] \in Nat
      /\ \A y \in Facts : since'[r][y] <= since[r][y] + 1
      /\ \A y \in Facts : ~Tick => since'[r][y] <= since[r][y]
  BY <1>t, SinceMoves, TypeKept, TimesAssumption DEF TypeOK, Horizon
<1>i. fetch[c].got[r][f] # None => /\ fetch[c].got[r][f] \subseteq Facts
                                   /\ \A y \in fetch[c].got[r][f] : since[r][y] <= fetch[c].age
  BY <1>t DEF Recent, FetchIsRecent
<1>1. CASE fetch'[c] = Idle
  BY <1>1 DEF Idle
<1>r. ASSUME fetch'[c] = fetch[c], Tick => fetch[c].stage = "idle"
      PROVE  since'[r][x] <= fetch'[c].age
  <2>1. ~Tick
    <3>1. fetch[c].stage = "idle" => fetch[c] = Idle
      BY DEF Recent, RestIsIdle
    <3>. QED  BY <1>r, <3>1 DEF Idle
  <2>2. x \in Facts /\ since[r][x] <= fetch[c].age
    BY <1>r, <1>i
  <2>. QED  BY <1>r, <1>s, <1>t, <2>1, <2>2
<1>2. CASE Tick /\ fetch'[c].age = fetch[c].age + 1 /\ fetch'[c].got = fetch[c].got
  <2>1. x \in Facts /\ since[r][x] <= fetch[c].age
    BY <1>2, <1>i
  <2>. QED  BY <1>2, <1>s, <1>t, <2>1
<1>3. CASE ~Tick /\ fetch'[c].age = fetch[c].age /\ fetch'[c].got = fetch[c].got
  <2>1. x \in Facts /\ since[r][x] <= fetch[c].age
    BY <1>3, <1>i
  <2>. QED  BY <1>3, <1>s, <1>t, <2>1
<1>4. ASSUME NEW s \in Relays, NEW g \in DOMAIN Fields,
             fetch'[c].age = fetch[c].age, since' = since,
             fetch'[c].got[s][g] = chain[s] \cap Fields[g],
             \A u \in Relays, h \in DOMAIN Fields :
               <<u, h>> # <<s, g>> => fetch'[c].got[u][h] = fetch[c].got[u][h]
      PROVE  since'[r][x] <= fetch'[c].age
  <2>1. CASE <<r, f>> = <<s, g>>
    <3>1. x \in chain[r]
      BY <1>4, <2>1
    <3>2. since[r][x] = 0
      BY <3>1 DEF Recent, NowIsRecent
    <3>. QED  BY <1>4, <1>t, <3>2
  <2>2. CASE <<r, f>> # <<s, g>>
    BY <1>4, <1>i, <2>2
  <2>. QED  BY <2>1, <2>2
<1>. QED  BY <1>t, <1>r, <1>1, <1>2, <1>3, <1>4, FetchMoves

LEMMA CacheStaysRecent == Recent /\ [Next]_vars => CacheIsRecent'
<1>. SUFFICES ASSUME Recent, [Next]_vars, Fresh',
                     NEW r \in Relays, NEW x \in cache'.records[r]
              PROVE  since'[r][x] + cache'.left <= TTL + FetchTime
  BY DEF CacheIsRecent
<1>t. /\ TypeOK /\ TTL \in Nat /\ FetchTime \in Nat
      /\ Fresh => /\ cache.records \in Records /\ cache.left \in Nat /\ cache.left > 0
                  /\ \A y \in cache.records[r] : since[r][y] + cache.left <= TTL + FetchTime
  BY TimesAssumption DEF Recent, CacheIsRecent, TypeOK, Fresh
<1>s. /\ \A y \in Facts : since[r][y] \in Nat /\ since'[r][y] \in Nat
      /\ \A y \in Facts : since'[r][y] <= since[r][y] + 1
      /\ \A y \in Facts : ~Tick => since'[r][y] <= since[r][y]
  BY <1>t, SinceMoves, TypeKept, TimesAssumption DEF TypeOK, Horizon
<1>1. CASE cache' = cache /\ ~Tick
  <2>1. Fresh /\ x \in Facts
    BY <1>1, <1>t DEF Fresh, Records
  <2>. QED  BY <1>1, <1>s, <1>t, <2>1
<1>2. CASE Tick /\ cache' = IF Fresh THEN [cache EXCEPT !.left = @ - 1] ELSE cache
  <2>1. Fresh
    BY <1>2 DEF Fresh
  <2>2. cache'.records = cache.records /\ cache'.left = cache.left - 1
    BY <1>2, <2>1 DEF Fresh, Recent, TypeOK
  <2>3. x \in Facts /\ x \in cache.records[r]
    BY <1>t, <2>1, <2>2 DEF Records
  <2>. QED  BY <1>s, <1>t, <2>1, <2>2, <2>3
<1>3. ASSUME NEW c \in Callers, since' = since, \A s \in Relays : Complete(c, s),
             cache' = [records |-> [s \in Relays |-> Record(c, s)], left |-> TTL]
      PROVE  since'[r][x] + cache'.left <= TTL + FetchTime
  <2>1. PICK f \in DOMAIN Fields : fetch[c].got[r][f] # None /\ x \in fetch[c].got[r][f]
    BY <1>t, <1>3, RecordIsTyped
  <2>2. x \in Facts
    BY <1>t, <1>3, RecordIsTyped
  <2>3. since[r][x] <= fetch[c].age
    BY <2>1 DEF Recent, FetchIsRecent
  <2>4. fetch[c].age \in 0..FetchTime
    BY <1>t DEF TypeOK, FetchState
  <2>. QED  BY <1>3, <1>s, <1>t, <2>2, <2>3, <2>4
<1>4. CASE cache' = None
  BY <1>4 DEF Fresh
<1>. QED  BY <1>t, <1>1, <1>2, <1>3, <1>4, CacheMoves

LEMMA RecentKept == Recent /\ [Next]_vars => Recent'
BY TypeKept, RestStaysIdle, NowStaysRecent, FetchStaysRecent, CacheStaysRecent DEF Recent

LEMMA RecentHolds == Spec => []Recent
BY RecentKept, InitIsRecent, PTL DEF Spec
-----------------------------------------------------------------------------
(* Every variable of the directory keeps its type, for any number of       *)
(* callers: no timer runs below zero, no record holds an unknown fact.     *)
THEOREM DirectoryTypeCorrect == Spec => []TypeOK
<1>1. Recent => TypeOK
  BY DEF Recent
<1>. QED  BY <1>1, RecentHolds, PTL

(* Whatever is offered was true less than TTL + FetchTime ago.             *)
THEOREM DirectoryIsRecent == Spec => []StaleIsBounded
<1>1. Recent => StaleIsBounded
  <2>. SUFFICES ASSUME Recent, NEW r \in Relays, NEW x \in Facts, Says(r, x)
                PROVE  since[r][x] < TTL + FetchTime
    BY DEF StaleIsBounded
  <2>1. /\ since[r][x] + cache.left <= TTL + FetchTime
        /\ cache.left \in Nat /\ cache.left > 0 /\ since[r][x] \in Nat
    BY TimesAssumption DEF Recent, CacheIsRecent, Says, Fresh, TypeOK, Horizon
  <2>. QED  BY <2>1, TimesAssumption
<1>. QED  BY <1>1, RecentHolds, PTL
-----------------------------------------------------------------------------
(* The return of a revoked relay.  A relay that was read as not active is  *)
(* not active any more, so whoever reads it later reads the same; without  *)
(* overlap, what the cache or a caller holds was read later than anything  *)
(* shown.                                                                  *)

\* c has read that r is active, or not.
ReadStatus(c, r) == fetch[c].got[r]["status"]

RevokedIsRevoked ==
  /\ \A r \in shown : "active" \notin chain[r]
  /\ Fresh => \A r \in Relays : "active" \notin cache.records[r] => "active" \notin chain[r]
  /\ \A c \in Callers, r \in Relays :
       ReadStatus(c, r) # None /\ "active" \notin ReadStatus(c, r) => "active" \notin chain[r]

TiersReadAreTiers ==
  \A c \in Callers, r \in Relays :
    fetch[c].got[r]["tiers"] # None => "active" \notin fetch[c].got[r]["tiers"]

OneAtATime ==
  ~overlapped =>
    /\ \A c, d \in InProgress : c = d
    /\ Fresh => InProgress = {}
    /\ RevokedStaysRevoked
    /\ \A c \in InProgress, r \in shown :
         ReadStatus(c, r) # None => "active" \notin ReadStatus(c, r)

\* What a caller holds of one field is dropped, kept, or read just now.
LEMMA GotMoves ==
  ASSUME TypeOK, [Next]_vars, NEW c \in Callers, NEW r \in Relays, NEW f \in DOMAIN Fields
  PROVE  \/ fetch'[c].got[r][f] = None
         \/ fetch'[c].got[r][f] = fetch[c].got[r][f]
         \/ /\ fetch'[c].got[r][f] = chain[r] \cap Fields[f]
            /\ UNCHANGED <<chain, cache, since, shown, overlapped>>
<1>1. Idle.got[r][f] = None
  BY DEF Idle
<1>2. ASSUME NEW s \in Relays, NEW g \in DOMAIN Fields,
             fetch'[c].got[s][g] = chain[s] \cap Fields[g],
             \A u \in Relays, h \in DOMAIN Fields :
               <<u, h>> # <<s, g>> => fetch'[c].got[u][h] = fetch[c].got[u][h]
      PROVE  \/ fetch'[c].got[r][f] = chain[r] \cap Fields[f]
             \/ fetch'[c].got[r][f] = fetch[c].got[r][f]
  BY <1>2
<1>. QED  BY <1>1, <1>2, FetchMoves

LEMMA RevokedForever ==
  ASSUME TypeOK, [Next]_vars, NEW r \in Relays, "active" \notin chain[r]
  PROVE  "active" \notin chain'[r]
<1>t. chain \in [Relays -> SUBSET Facts]
  BY DEF TypeOK, Records
<1>1. ASSUME NEW s \in Relays, NEW declared \in SUBSET Tiers, SetTiers(s, declared)
      PROVE  "active" \notin chain'[r]
  BY <1>t, <1>1, TiersAssumption DEF SetTiers
<1>2. ASSUME NEW s \in Relays, Revoke(s) PROVE "active" \notin chain'[r]
  BY <1>t, <1>2 DEF Revoke
<1>3. \/ Tick \/ Restart \/ UNCHANGED vars
      \/ \E c \in Callers : ListOperators(c) \/ Fetch(c) \/ Reject(c)
      => chain' = chain
  BY DEF Tick, Restart, vars, ListOperators, Fetch, Store, Throw, ReadField, Reject
<1>. QED  BY <1>1, <1>2, <1>3 DEF Next

LEMMA TiersStayTiers == TypeOK /\ TiersReadAreTiers /\ [Next]_vars => TiersReadAreTiers'
<1>. SUFFICES ASSUME TypeOK, TiersReadAreTiers, [Next]_vars,
                     NEW c \in Callers, NEW r \in Relays, fetch'[c].got[r]["tiers"] # None
              PROVE  "active" \notin fetch'[c].got[r]["tiers"]
  BY DEF TiersReadAreTiers
<1>1. "tiers" \in DOMAIN Fields /\ Fields["tiers"] = Tiers
  BY DEF Fields
<1>2. \/ fetch'[c].got[r]["tiers"] = fetch[c].got[r]["tiers"]
      \/ fetch'[c].got[r]["tiers"] = chain[r] \cap Tiers
  BY <1>1, GotMoves
<1>. QED  BY <1>2, TiersAssumption DEF TiersReadAreTiers

\* A complete record is active if and only if its status was read active.
LEMMA ActiveByStatus ==
  ASSUME TiersReadAreTiers, NEW c \in Callers, NEW r \in Relays, Complete(c, r)
  PROVE  /\ ReadStatus(c, r) # None
         /\ "active" \in Record(c, r) <=> "active" \in ReadStatus(c, r)
<1>1. /\ "status" \in DOMAIN Fields /\ "tiers" \in DOMAIN Fields
  BY DEF Fields
<1>2. ReadStatus(c, r) # None /\ fetch[c].got[r]["tiers"] # None
  BY <1>1 DEF Complete, ReadStatus
<1>3. Record(c, r) = ReadStatus(c, r) \cup fetch[c].got[r]["tiers"]
  BY DEF Record, ReadStatus
<1>. QED  BY <1>2, <1>3 DEF TiersReadAreTiers

\* An answer shows what a fresh cache or a complete fetch holds.
LEMMA ShownMoves ==
  ASSUME [Next]_vars
  PROVE  \/ shown' = shown /\ (Fresh' => Fresh)
            /\ (Fresh' => cache'.records = cache.records)
         \/ /\ Fresh /\ cache' = cache /\ chain' = chain
            /\ shown' = shown \cup {r \in Relays : "active" \notin cache.records[r]}
         \/ \E c \in Callers :
              /\ c \in InProgress /\ chain' = chain
              /\ \A r \in Relays : Complete(c, r)
              /\ cache'.records = [r \in Relays |-> Record(c, r)]
              /\ shown' = shown \cup {r \in Relays : "active" \notin Record(c, r)}
              /\ Settle(c) /\ overlapped' = overlapped
<1>1. ASSUME NEW c \in Callers, ListOperators(c)
      PROVE  \/ shown' = shown /\ cache' = cache
             \/ /\ Fresh /\ cache' = cache /\ chain' = chain
                /\ shown' = shown \cup {r \in Relays : "active" \notin cache.records[r]}
  BY <1>1 DEF ListOperators, Return
<1>2. ASSUME NEW c \in Callers, Store(c)
      PROVE  /\ c \in InProgress /\ chain' = chain
             /\ \A r \in Relays : Complete(c, r)
             /\ cache'.records = [r \in Relays |-> Record(c, r)]
             /\ shown' = shown \cup {r \in Relays : "active" \notin Record(c, r)}
             /\ Settle(c) /\ overlapped' = overlapped
  <2>. DEFINE records == [r \in Relays |-> Record(c, r)]
  <2>1. Return(c, records) /\ cache' = [records |-> records, left |-> TTL]
    BY <1>2 DEF Store
  <2>2. \A r \in Relays : records[r] = Record(c, r)
    OBVIOUS
  <2>3. cache'.records = records
    BY <2>1
  <2>. HIDE DEF records
  <2>4. shown' = shown \cup {r \in Relays : "active" \notin Record(c, r)}
    BY <2>1, <2>2 DEF Return
  <2>. QED  BY <1>2, <2>1, <2>3, <2>4 DEF Store, InProgress, Return, records
<1>3. CASE Tick
  <2>1. shown' = shown /\ cache' = IF Fresh THEN [cache EXCEPT !.left = @ - 1] ELSE cache
    BY <1>3 DEF Tick
  <2>2. CASE Fresh
    BY <2>1, <2>2
  <2>3. CASE ~Fresh
    BY <2>1, <2>3 DEF Fresh
  <2>. QED  BY <2>1, <2>2, <2>3
<1>4. CASE Restart
  BY <1>4 DEF Restart, Fresh
<1>5. CASE \/ \E c \in Callers : Throw(c) \/ Reject(c)
           \/ \E c \in Callers, r \in Relays, f \in DOMAIN Fields : ReadField(c, r, f)
           \/ \E r \in Relays : Revoke(r)
           \/ \E r \in Relays, declared \in SUBSET Tiers : SetTiers(r, declared)
           \/ UNCHANGED vars
  <2>1. cache' = cache /\ shown' = shown
    BY <1>5 DEF Throw, Reject, ReadField, Revoke, SetTiers, vars
  <2>. QED  BY <2>1 DEF Fresh
<1>6. cache' = cache => (Fresh' <=> Fresh)
  BY DEF Fresh
<1>. QED  BY <1>1, <1>2, <1>3, <1>4, <1>5, <1>6 DEF Next, Fetch

LEMMA RevokedStays ==
  TypeOK /\ TiersReadAreTiers /\ RevokedIsRevoked /\ [Next]_vars => RevokedIsRevoked'
<1>. SUFFICES ASSUME TypeOK, TiersReadAreTiers, RevokedIsRevoked, [Next]_vars
              PROVE  RevokedIsRevoked'
  OBVIOUS
<1>0. shown \in SUBSET Relays /\ "status" \in DOMAIN Fields /\ Fields["status"] = {"active"}
  BY DEF TypeOK, Fields
<1>f. \A r \in Relays : "active" \notin chain[r] => "active" \notin chain'[r]
  BY RevokedForever
<1>1. ASSUME NEW c \in Callers, NEW r \in Relays,
             ReadStatus(c, r)' # None, "active" \notin ReadStatus(c, r)'
      PROVE  "active" \notin chain'[r]
  <2>1. CASE fetch'[c].got[r]["status"] = fetch[c].got[r]["status"]
    BY <1>1, <1>f, <2>1 DEF ReadStatus, RevokedIsRevoked
  <2>2. CASE fetch'[c].got[r]["status"] = chain[r] \cap {"active"} /\ chain' = chain
    BY <1>1, <2>2 DEF ReadStatus
  <2>. QED  BY <1>0, <1>1, <2>1, <2>2, GotMoves DEF ReadStatus
<1>2. ASSUME NEW c \in Callers, c \in InProgress, \A r \in Relays : Complete(c, r),
             NEW r \in Relays, "active" \notin Record(c, r)
      PROVE  "active" \notin chain[r]
  BY <1>2, ActiveByStatus DEF RevokedIsRevoked
<1>3. \A r \in shown' : "active" \notin chain'[r]
  <2>1. ASSUME NEW r \in shown', r \notin shown PROVE "active" \notin chain[r] /\ r \in Relays
    BY <1>2, <2>1, ShownMoves DEF RevokedIsRevoked
  <2>. QED  BY <1>0, <1>f, <2>1 DEF RevokedIsRevoked
<1>4. ASSUME Fresh', NEW r \in Relays, "active" \notin cache'.records[r]
      PROVE  "active" \notin chain'[r]
  BY <1>f, <1>2, <1>4, ShownMoves DEF RevokedIsRevoked
<1>. QED  BY <1>1, <1>3, <1>4 DEF RevokedIsRevoked

LEMMA OneStays ==
  ASSUME TypeOK, RestIsIdle, TiersReadAreTiers, RevokedIsRevoked, OneAtATime, [Next]_vars
  PROVE  OneAtATime'
<1>. SUFFICES ASSUME ~overlapped'
              PROVE  /\ \A c, d \in InProgress' : c = d
                     /\ Fresh' => InProgress' = {}
                     /\ RevokedStaysRevoked'
                     /\ \A c \in InProgress', r \in shown' :
                          ReadStatus(c, r)' # None => "active" \notin ReadStatus(c, r)'
  BY DEF OneAtATime
<1>0. /\ shown \in SUBSET Relays /\ "status" \in DOMAIN Fields
      /\ Fields["status"] = {"active"} /\ fetch \in [Callers -> FetchState]
      /\ Idle.stage = "idle"
  BY DEF TypeOK, Fields, Idle
<1>1. ~overlapped
  <2>1. ASSUME NEW c \in Callers, ListOperators(c) PROVE overlapped => overlapped'
    BY <2>1 DEF ListOperators
  <2>2. \/ Tick \/ Restart \/ UNCHANGED vars
        \/ \E c \in Callers : Fetch(c) \/ Reject(c)
        \/ \E r \in Relays : Revoke(r)
        \/ \E r \in Relays, declared \in SUBSET Tiers : SetTiers(r, declared)
        => overlapped' = overlapped
    BY DEF Tick, Restart, vars, Fetch, Store, Throw, ReadField, Reject, Revoke, SetTiers
  <2>. QED  BY <2>1, <2>2 DEF Next
<1>2. /\ \A c, d \in InProgress : c = d
      /\ Fresh => InProgress = {}
      /\ \A r \in shown : Fresh => "active" \notin cache.records[r]
      /\ \A c \in InProgress, r \in shown :
           ReadStatus(c, r) # None => "active" \notin ReadStatus(c, r)
  BY <1>1 DEF OneAtATime, RevokedStaysRevoked, Says
\* Who is in progress: one more only if none was and the cache is not fresh.
<1>3. \/ InProgress' \subseteq InProgress
      \/ \E c \in Callers : InProgress' = {c} /\ ~Fresh /\ cache' = cache
  <2>1. ASSUME NEW c \in Callers, ListOperators(c), ~Fresh
        PROVE  InProgress' = {c} /\ ~Fresh /\ cache' = cache
    <3>1. InProgress = {} /\ fetch' = [fetch EXCEPT ![c].stage = "reading"] /\ cache' = cache
      BY <2>1 DEF ListOperators
    <3>2. \A d \in Callers : fetch'[d].stage = IF d = c THEN "reading" ELSE fetch[d].stage
      BY <1>0, <3>1 DEF FetchState
    <3>. QED  BY <2>1, <3>1, <3>2 DEF InProgress
  <2>2. ASSUME NEW c \in Callers, Settle(c) PROVE InProgress' \subseteq InProgress
    <3>1. \A d \in Callers : fetch'[d] = Idle \/ fetch'[d] = fetch[d]
      BY <1>0, <2>2 DEF Settle
    <3>. QED  BY <1>0, <3>1 DEF InProgress
  <2>3. ASSUME NEW c \in Callers, ListOperators(c), Fresh PROVE Settle(c)
    BY <2>3 DEF ListOperators, Return
  <2>4. ASSUME NEW c \in Callers, NEW r \in Relays, NEW f \in DOMAIN Fields, ReadField(c, r, f)
        PROVE  InProgress' \subseteq InProgress
    <3>1. \A d \in Callers : d # c => fetch'[d] = fetch[d]
      BY <1>0, <2>4 DEF ReadField
    <3>2. c \in InProgress
      BY <2>4 DEF ReadField, InProgress
    <3>. QED  BY <3>1, <3>2 DEF InProgress
  <2>5. CASE Tick
    <3>1. \A d \in Callers : d \notin InProgress => fetch'[d] = fetch[d]
      BY <2>5 DEF Tick
    <3>. QED  BY <3>1 DEF InProgress
  <2>6. CASE Restart
    BY <1>0, <2>6 DEF Restart, InProgress
  <2>7. ASSUME fetch' = fetch PROVE InProgress' \subseteq InProgress
    BY <2>7 DEF InProgress
  <2>8. ASSUME NEW c \in Callers, Store(c) \/ Throw(c) \/ Reject(c) PROVE Settle(c)
    BY <2>8 DEF Store, Throw, Reject, Return
  <2>9. \/ UNCHANGED vars \/ \E r \in Relays : Revoke(r)
        \/ \E r \in Relays, declared \in SUBSET Tiers : SetTiers(r, declared)
        => fetch' = fetch
    BY DEF vars, Revoke, SetTiers
  <2>. QED
    BY <2>1, <2>2, <2>3, <2>4, <2>5, <2>6, <2>7, <2>8, <2>9 DEF Next, Fetch
<1>4. \A c, d \in InProgress' : c = d
  BY <1>2, <1>3
\* A complete fetch ends, and it was the only one.
<1>5. ASSUME NEW c \in InProgress, Settle(c) PROVE InProgress' = {}
  <2>1. \A d \in Callers : fetch'[d] = IF d = c THEN Idle ELSE fetch[d]
    BY <1>0, <1>5 DEF Settle
  <2>2. \A d \in Callers : d # c => d \notin InProgress
    BY <1>2
  <2>. QED  BY <1>0, <2>1, <2>2 DEF InProgress
<1>6. CASE shown' = shown /\ (Fresh' => Fresh) /\ (Fresh' => cache'.records = cache.records)
  <2>1. Fresh' => InProgress' = {}
    BY <1>2, <1>3, <1>6
  <2>2. RevokedStaysRevoked'
    BY <1>2, <1>6 DEF RevokedStaysRevoked, Says
  <2>3. ASSUME NEW c \in InProgress', NEW r \in shown', ReadStatus(c, r)' # None
        PROVE  "active" \notin ReadStatus(c, r)'
    <3>1. c \in Callers /\ r \in Relays /\ r \in shown
      BY <1>0, <1>6 DEF InProgress
    <3>2. CASE fetch'[c].got[r]["status"] = chain[r] \cap {"active"}
      BY <3>1, <3>2 DEF ReadStatus, RevokedIsRevoked
    <3>3. CASE fetch'[c].got[r]["status"] = fetch[c].got[r]["status"] /\ c \in InProgress
      BY <1>2, <2>3, <3>1, <3>3 DEF ReadStatus
    <3>4. CASE fetch'[c].got[r]["status"] = fetch[c].got[r]["status"] /\ c \notin InProgress
      <4>1. fetch[c] = Idle
        BY <1>0, <3>1, <3>4 DEF InProgress, RestIsIdle, FetchState
      <4>. QED  BY <1>0, <2>3, <3>1, <3>4, <4>1 DEF ReadStatus, Idle
    <3>. QED  BY <1>0, <2>3, <3>1, <3>2, <3>3, <3>4, GotMoves DEF ReadStatus
  <2>. QED  BY <1>4, <2>1, <2>2, <2>3
<1>7. CASE /\ Fresh /\ cache' = cache
           /\ shown' = shown \cup {r \in Relays : "active" \notin cache.records[r]}
  <2>1. InProgress' = {}
    BY <1>2, <1>3, <1>7
  <2>2. RevokedStaysRevoked'
    BY <1>2, <1>7 DEF RevokedStaysRevoked, Says
  <2>. QED  BY <2>1, <2>2
<1>8. ASSUME NEW c \in InProgress, \A r \in Relays : Complete(c, r),
             cache'.records = [r \in Relays |-> Record(c, r)],
             shown' = shown \cup {r \in Relays : "active" \notin Record(c, r)},
             Settle(c)
      PROVE  InProgress' = {} /\ RevokedStaysRevoked'
  <2>1. InProgress' = {}
    BY <1>5, <1>8
  <2>2. \A r \in shown' : r \in Relays /\ "active" \notin Record(c, r)
    <3>1. ASSUME NEW r \in shown PROVE r \in Relays /\ "active" \notin Record(c, r)
      BY <1>0, <1>2, <1>8, ActiveByStatus DEF InProgress
    <3>. QED  BY <1>8, <3>1
  <2>3. RevokedStaysRevoked'
    BY <1>8, <2>2 DEF RevokedStaysRevoked, Says
  <2>. QED  BY <2>1, <2>3
<1>. QED  BY <1>4, <1>6, <1>7, <1>8, ShownMoves

(* A relay that an answer reported as revoked is offered again only if     *)
(* fetches overlapped: with one fetch at a time every later answer is at   *)
(* least as new.                                                           *)
THEOREM RevokedReturnsOnlyByOverlap == Spec => []RevokedStaysUnlessOverlapped
<1>. DEFINE Held == Recent /\ TiersReadAreTiers /\ RevokedIsRevoked /\ OneAtATime
<1>1. Init => Held
  <2>. SUFFICES ASSUME Init PROVE Held
    OBVIOUS
  <2>1. /\ \A c \in Callers, r \in Relays, f \in DOMAIN Fields : fetch[c].got[r][f] = None
        /\ \A c \in Callers : fetch[c].stage = "idle"
        /\ "status" \in DOMAIN Fields /\ "tiers" \in DOMAIN Fields
    BY DEF Init, Idle, Fields
  <2>2. shown = {} /\ ~Fresh /\ InProgress = {}
    BY <2>1 DEF Init, Fresh, InProgress
  <2>3. Recent
    BY InitIsRecent
  <2>. QED  BY <2>1, <2>2, <2>3
            DEF TiersReadAreTiers, RevokedIsRevoked, OneAtATime, RevokedStaysRevoked, ReadStatus
<1>2. Held /\ [Next]_vars => Held'
  BY RecentKept, TiersStayTiers, RevokedStays, OneStays DEF Recent
<1>3. Held => RevokedStaysUnlessOverlapped
  BY DEF OneAtATime, RevokedStaysUnlessOverlapped
<1>. QED  BY <1>1, <1>2, <1>3, PTL DEF Spec
=============================================================================
