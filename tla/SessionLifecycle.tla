-------------------------- MODULE SessionLifecycle --------------------------
(***************************************************************************)
(* What the orchestrator promises about one session, with no handler, no   *)
(* database and no process in sight: a session starts at PAID once its     *)
(* purchase exists, moves along the table of SessionSpec only, and its     *)
(* payer is granted one token, while the session is ACTIVE.                *)
(***************************************************************************)
EXTENDS SessionSpec

CONSTANTS Sessions, None

VARIABLES paid,      \* sessions whose purchase is on chain
          state,     \* state of each session, None before PAID
          granted    \* sessions whose payer holds a token

vars == <<paid, state, granted>>

Init == /\ paid = {}
        /\ state = [s \in Sessions |-> None]
        /\ granted = {}

Pay(s) == /\ paid' = paid \cup {s}
          /\ UNCHANGED <<state, granted>>

Begin(s) == /\ s \in paid
            /\ state[s] = None
            /\ state' = [state EXCEPT ![s] = "PAID"]
            /\ UNCHANGED <<paid, granted>>

Advance(s, to) == /\ state[s] # None
                  /\ IsValidTransition(state[s], to)
                  /\ state' = [state EXCEPT ![s] = to]
                  /\ UNCHANGED <<paid, granted>>

Grant(s) == /\ state[s] = "ACTIVE"
            /\ s \notin granted
            /\ granted' = granted \cup {s}
            /\ UNCHANGED <<paid, state>>

Next == \E s \in Sessions : \/ Pay(s) \/ Begin(s) \/ Grant(s)
                            \/ \E to \in States : Advance(s, to)

Spec == Init /\ [][Next]_vars
=============================================================================
