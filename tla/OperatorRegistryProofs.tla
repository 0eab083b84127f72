----------------------- MODULE OperatorRegistryProofs ----------------------
(***************************************************************************)
(* Proofs about OperatorRegistry, for any operators and builds, any number *)
(* of runs and checks: the variables keep their types, an operator with a  *)
(* status has its whole record, and a revocation is for good unless runs   *)
(* of the script overlapped.                                               *)
(*                                                                         *)
(* Both follow from the order in which calls are sent.  Whatever is mined  *)
(* or pending, everything that precedes it in the list is mined or pending *)
(* before it, in every run; and runs that do not overlap leave the calls   *)
(* of one run in the pool, so that the watchdog gets its role when nothing *)
(* is left that could write the status, and the registry refuses to begin  *)
(* again.  Last, reports: nobody is revoked for one that matched.          *)
(***************************************************************************)
EXTENDS OperatorRegistry, TLAPS

\* c is mined, or pending among the first n calls of the pool.
MinedBy(o, c, n) == c \in mined[o] \/ \E j \in 1..n : pool[o][j] = c

\* Everything before a call is mined or pending before it.
OrderInv ==
    \A o \in Operators :
       /\ \A c \in mined[o] : \A d \in 1..(c - 1) : d \in mined[o]
       /\ \A i \in 1..Len(pool[o]) : \A d \in 1..(pool[o][i] - 1) :
             MinedBy(o, d, i - 1)
       /\ \A d \in 1..(script[o] - 1) : MinedBy(o, d, Len(pool[o]))

\* What a status and a hash presuppose.
RecordInv ==
    \A o \in Operators :
       /\ SetHash \in mined[o] => hash[o] # None
       /\ status[o] # None => SetActive \in mined[o]
       /\ status[o] = "revoked" => Revocable(o)

\* One run at a time: the pool is one run's calls, and none is left once the
\* watchdog has its role.
RunInv ==
    \A o \in Operators \ overlapped :
       /\ \A i \in 1..(Len(pool[o]) - 1) : pool[o][i + 1] = pool[o][i] + 1
       /\ script[o] # 0 /\ pool[o] # <<>> =>
             script[o] = pool[o][Len(pool[o])] + 1
       /\ Revocable(o) => pool[o] = <<>> /\ script[o] \in {0, 1}

IInv == TypeOK /\ OrderInv /\ RecordInv /\ RunInv
USE DEF Calls, Register, SetHash, SetActive, AuthorizeHash, AuthorizeWatchdog

----------------------------------------------------------------------------
LEMMA InitInv == Init => IInv
<1> SUFFICES ASSUME Init PROVE IInv
  OBVIOUS
<1>1. TypeOK
  BY RegistryAssumption DEF Init, TypeOK
<1>2. OrderInv
  BY DEF Init, OrderInv, MinedBy
<1>3. RecordInv
  BY RegistryAssumption DEF Init, RecordInv, Revocable
<1>4. RunInv
  BY DEF Init, RunInv, Revocable
<1> QED BY <1>1, <1>2, <1>3, <1>4 DEF IInv

\* What does not concern the script leaves the order of its calls alone.
LEMMA AdminUnchanged ==
    ASSUME IInv, UNCHANGED admin
    PROVE  OrderInv' /\ RunInv'
BY DEF IInv, OrderInv, RunInv, MinedBy, Revocable, admin

LEMMA WriteHashInv ==
    ASSUME IInv, NEW o \in Operators, NEW h \in Builds, WriteHash(o, h)
    PROVE  /\ hash' \in [Operators -> Builds \cup {None}]
           /\ build' \in [Operators -> Builds]
           /\ report' \in [Operators -> Reports \cup {None}]
           /\ checks' \in [Operators -> 0..MaxChecks]
           /\ \A q \in Operators : hash[q] # None => hash'[q] # None
           /\ hash'[o] # None
<1>1. CASE report[o] = None \/ h = hash[o]
  BY <1>1, RegistryAssumption DEF WriteHash, IInv, TypeOK
<1>2. CASE ~(report[o] = None \/ h = hash[o])
  <2>1. [report[o] EXCEPT !.changed = TRUE] \in Reports
    BY <1>2 DEF IInv, TypeOK, Reports
  <2>2. report' \in [Operators -> Reports \cup {None}]
    BY <1>2, <2>1 DEF WriteHash, IInv, TypeOK
  <2> QED BY <2>2, RegistryAssumption DEF WriteHash, IInv, TypeOK
<1> QED BY <1>1, <1>2

----------------------------------------------------------------------------
(* The script.                                                             *)

LEMMA RunScriptInv ==
    ASSUME IInv, NEW o \in Operators, RunScript(o)
    PROVE  IInv'
<1>1. TypeOK'
  BY RegistryAssumption DEF RunScript, IInv, TypeOK, workflow, monitor
<1>2. OrderInv'
  BY DEF RunScript, IInv, TypeOK, OrderInv, MinedBy
<1>3. RecordInv'
  BY DEF RunScript, IInv, RecordInv, Revocable
<1>4. RunInv'
  BY DEF RunScript, IInv, TypeOK, RunInv, Revocable
<1> QED BY <1>1, <1>2, <1>3, <1>4 DEF IInv

LEMMA SendCallInv ==
    ASSUME IInv, NEW o \in Operators, SendCall(o)
    PROVE  IInv'
<1> DEFINE c == script[o]
           n == Len(pool[o])
           Later(d, k) == d \in mined'[o] \/ \E j \in 1..k : pool'[o][j] = d
<1>1. /\ c \in Calls
      /\ pool' = [pool EXCEPT ![o] = Append(@, c)]
      /\ script' = [script EXCEPT ![o] = IF c = 10 THEN 0 ELSE c + 1]
      /\ pool[o] \in Seq(Calls)
      /\ n \in Nat
      /\ UNCHANGED <<runs, stopped, overlapped, mined, status, hash, workflow,
                     monitor, verdict>>
  BY DEF SendCall, IInv, TypeOK
<1>2. /\ pool'[o] \in Seq(Calls)
      /\ Len(pool'[o]) = n + 1
      /\ pool'[o][n + 1] = c
      /\ \A j \in 1..n : pool'[o][j] = pool[o][j]
  BY <1>1 DEF IInv, TypeOK
<1>3. \A q \in Operators \ {o} : pool'[q] = pool[q] /\ script'[q] = script[q]
  BY <1>1 DEF IInv, TypeOK
<1>4. TypeOK'
  BY <1>1, <1>2 DEF IInv, TypeOK, workflow, monitor
<1>5. \A d \in Calls, k \in 0..n : MinedBy(o, d, k) => Later(d, k)
  BY <1>1, <1>2 DEF MinedBy
<1>6. OrderInv'
  <2> SUFFICES ASSUME NEW q \in Operators
               PROVE  /\ \A e \in mined'[q] : \A d \in 1..(e - 1) : d \in mined'[q]
                      /\ \A i \in 1..Len(pool'[q]) : \A d \in 1..(pool'[q][i] - 1) :
                            \/ d \in mined'[q]
                            \/ \E j \in 1..(i - 1) : pool'[q][j] = d
                      /\ \A d \in 1..(script'[q] - 1) :
                            \/ d \in mined'[q]
                            \/ \E j \in 1..Len(pool'[q]) : pool'[q][j] = d
    BY DEF OrderInv, MinedBy
  <2>1. CASE q # o
    BY <2>1, <1>1, <1>3 DEF IInv, OrderInv, MinedBy
  <2>2. CASE q = o
    <3>1. ASSUME NEW d \in 1..(c - 1) PROVE Later(d, n)
      <4>1. d \in Calls /\ n \in 0..n
        BY <1>1
      <4>2. MinedBy(o, d, n)
        BY DEF IInv, OrderInv
      <4> QED BY <4>1, <4>2, <1>5
    <3>2. ASSUME NEW i \in 1..(n + 1), NEW d \in 1..(pool'[o][i] - 1)
          PROVE  Later(d, i - 1)
      <4>1. CASE i = n + 1
        <5>1. d \in 1..(c - 1) /\ i - 1 = n
          BY <4>1, <1>1, <1>2
        <5> QED BY <5>1, <3>1
      <4>2. CASE i # n + 1
        <5>1. i \in 1..n /\ d \in 1..(pool[o][i] - 1) /\ pool[o][i] \in Calls
          BY <4>2, <1>1, <1>2
        <5>2. MinedBy(o, d, i - 1)
          BY <5>1 DEF IInv, OrderInv
        <5>3. d \in Calls /\ i - 1 \in 0..n
          BY <5>1, <1>1
        <5> QED BY <5>2, <5>3, <1>5
      <4> QED BY <4>1, <4>2
    <3>3. ASSUME NEW d \in 1..(script'[o] - 1)
          PROVE  Later(d, n + 1)
      <4>1. d \in 1..c
        BY <1>1 DEF IInv, TypeOK
      <4>2. CASE d = c
        BY <4>2, <1>1, <1>2 DEF MinedBy
      <4>3. CASE d # c
        BY <4>1, <4>3, <3>1, <1>1 DEF MinedBy
      <4> QED BY <4>2, <4>3
    <3> QED BY <2>2, <3>2, <3>3, <1>1, <1>2 DEF IInv, OrderInv
  <2> QED BY <2>1, <2>2
<1>7. RecordInv'
  BY <1>1 DEF IInv, RecordInv, Revocable
<1>8. RunInv'
  <2> SUFFICES ASSUME NEW q \in Operators \ overlapped
               PROVE  /\ \A i \in 1..(Len(pool'[q]) - 1) :
                            pool'[q][i + 1] = pool'[q][i] + 1
                      /\ script'[q] # 0 /\ pool'[q] # <<>> =>
                            script'[q] = pool'[q][Len(pool'[q])] + 1
                      /\ Revocable(q)' =>
                            pool'[q] = <<>> /\ script'[q] \in {0, 1}
    BY <1>1 DEF RunInv
  <2>1. CASE q # o
    BY <2>1, <1>1, <1>3 DEF IInv, RunInv, Revocable
  <2>2. CASE q = o
    <3>1. ~Revocable(o)
      BY <2>2, <1>1 DEF SendCall, IInv, OrderInv, RunInv, Revocable
    <3>2. n # 0 => c = pool[o][n] + 1
      BY <2>2, <1>1 DEF IInv, RunInv
    <3>3. \A i \in 1..n : pool'[o][i + 1] = pool'[o][i] + 1
      BY <2>2, <3>2, <1>1, <1>2 DEF IInv, RunInv
    <3> QED BY <2>2, <3>1, <3>3, <1>1, <1>2 DEF IInv, TypeOK, Revocable
  <2> QED BY <2>1, <2>2
<1> QED BY <1>4, <1>6, <1>7, <1>8 DEF IInv

LEMMA ScriptStopsInv ==
    ASSUME IInv, NEW o \in Operators, ScriptStops(o)
    PROVE  IInv'
<1>1. TypeOK'
  BY DEF ScriptStops, IInv, TypeOK, workflow, monitor
<1>2. OrderInv'
  BY DEF ScriptStops, IInv, TypeOK, OrderInv, MinedBy
<1>3. RecordInv'
  BY DEF ScriptStops, IInv, RecordInv, Revocable
<1>4. RunInv'
  BY DEF ScriptStops, IInv, TypeOK, RunInv, Revocable
<1> QED BY <1>1, <1>2, <1>3, <1>4 DEF IInv

LEMMA MineCallInv ==
    ASSUME IInv, NEW o \in Operators, MineCall(o)
    PROVE  IInv'
<1> DEFINE c == Head(pool[o])
           n == Len(pool[o])
           Later(d, k) == d \in mined'[o] \/ \E j \in 1..k : pool'[o][j] = d
<1>1. /\ pool[o] \in Seq(Calls)
      /\ n \in Nat \ {0}
      /\ c = pool[o][1]
      /\ c \in Calls
      /\ mined' = [mined EXCEPT ![o] = @ \cup {c}]
      /\ pool' = [pool EXCEPT ![o] = Tail(@)]
      /\ UNCHANGED <<script, runs, stopped, overlapped, workflow, verdict>>
  BY DEF MineCall, IInv, TypeOK
<1>2. /\ pool'[o] \in Seq(Calls)
      /\ Len(pool'[o]) = n - 1
      /\ \A j \in 1..(n - 1) : pool'[o][j] = pool[o][j + 1]
      /\ mined'[o] = mined[o] \cup {c}
  BY <1>1 DEF IInv, TypeOK
<1>3. \A q \in Operators \ {o} : pool'[q] = pool[q] /\ mined'[q] = mined[q]
  BY <1>1 DEF IInv, TypeOK
<1>4. /\ hash' \in [Operators -> Builds \cup {None}]
      /\ build' \in [Operators -> Builds]
      /\ report' \in [Operators -> Reports \cup {None}]
      /\ checks' \in [Operators -> 0..MaxChecks]
      /\ \A q \in Operators : hash[q] # None => hash'[q] # None
      /\ c = SetHash => hash'[o] # None
  <2>1. CASE c = SetHash
    BY <2>1, WriteHashInv, RegistryAssumption DEF MineCall
  <2>2. CASE c # SetHash
    BY <2>2 DEF MineCall, IInv, TypeOK, monitor
  <2> QED BY <2>1, <2>2
<1>5. status' = IF c = SetActive THEN [status EXCEPT ![o] = "active"]
                ELSE status
  BY DEF MineCall
<1>6. TypeOK'
  BY <1>1, <1>2, <1>4, <1>5 DEF IInv, TypeOK, workflow
<1>7. \A d \in Calls, k \in 0..(n - 1) :
         MinedBy(o, d, k + 1) => Later(d, k)
  <2> SUFFICES ASSUME NEW d \in Calls, NEW k \in 0..(n - 1),
                      MinedBy(o, d, k + 1)
               PROVE  Later(d, k)
    OBVIOUS
  <2>1. CASE d \in mined[o]
    BY <2>1, <1>2 DEF MinedBy
  <2>2. ASSUME NEW j \in 1..(k + 1), pool[o][j] = d PROVE Later(d, k)
    <3>1. CASE j = 1
      BY <3>1, <2>2, <1>1, <1>2 DEF MinedBy
    <3>2. CASE j # 1
      <4>1. j - 1 \in 1..k /\ j - 1 \in 1..(n - 1) /\ (j - 1) + 1 = j
        BY <3>2, <1>1
      <4>2. pool'[o][j - 1] = d
        BY <4>1, <2>2, <1>2
      <4> QED BY <4>1, <4>2 DEF MinedBy
    <3> QED BY <3>1, <3>2
  <2> QED BY <2>1, <2>2 DEF MinedBy
<1>8. \A d \in 1..(c - 1) : d \in mined[o]
  <2>1. \A d \in 1..(pool[o][1] - 1) : MinedBy(o, d, 0)
    BY <1>1 DEF IInv, OrderInv
  <2> QED BY <2>1, <1>1 DEF MinedBy
<1>9. OrderInv'
  <2> SUFFICES ASSUME NEW q \in Operators
               PROVE  /\ \A e \in mined'[q] : \A d \in 1..(e - 1) : d \in mined'[q]
                      /\ \A i \in 1..Len(pool'[q]) : \A d \in 1..(pool'[q][i] - 1) :
                            \/ d \in mined'[q]
                            \/ \E j \in 1..(i - 1) : pool'[q][j] = d
                      /\ \A d \in 1..(script'[q] - 1) :
                            \/ d \in mined'[q]
                            \/ \E j \in 1..Len(pool'[q]) : pool'[q][j] = d
    BY DEF OrderInv, MinedBy
  <2>1. CASE q # o
    BY <2>1, <1>1, <1>3 DEF IInv, OrderInv, MinedBy
  <2>2. CASE q = o
    <3>1. \A e \in mined'[o] : \A d \in 1..(e - 1) : d \in mined'[o]
      BY <1>2, <1>8 DEF IInv, OrderInv
    <3>2. ASSUME NEW i \in 1..(n - 1), NEW d \in 1..(pool'[o][i] - 1)
          PROVE  Later(d, i - 1)
      <4>1. i + 1 \in 1..n /\ pool'[o][i] = pool[o][i + 1]
            /\ pool[o][i + 1] \in Calls /\ (i + 1) - 1 = (i - 1) + 1
            /\ i - 1 \in 0..(n - 1)
        BY <1>1, <1>2
      <4>2. MinedBy(o, d, (i + 1) - 1)
        BY <4>1 DEF IInv, OrderInv
      <4>3. d \in Calls
        BY <4>1
      <4> QED BY <4>1, <4>2, <4>3, <1>7
    <3>3. ASSUME NEW d \in 1..(script[o] - 1)
          PROVE  Later(d, n - 1)
      <4>1. d \in Calls
        <5>1. script[o] \in 0..10
          BY DEF IInv, TypeOK
        <5> QED BY <5>1
      <4>2. MinedBy(o, d, n)
        BY DEF IInv, OrderInv
      <4>3. n - 1 \in 0..(n - 1) /\ (n - 1) + 1 = n
        BY <1>1
      <4> QED BY <4>1, <4>2, <4>3, <1>7
    <3>4. script'[o] = script[o] /\ Len(pool'[o]) = n - 1
      BY <1>1, <1>2
    <3>5. \A i \in 1..Len(pool'[o]) : \A d \in 1..(pool'[o][i] - 1) :
             Later(d, i - 1)
      BY <3>2, <3>4
    <3>6. \A d \in 1..(script'[o] - 1) : Later(d, Len(pool'[o]))
      BY <3>3, <3>4
    <3> QED BY <2>2, <3>1, <3>5, <3>6
  <2> QED BY <2>1, <2>2
<1>10. RecordInv'
  BY <1>1, <1>2, <1>3, <1>4, <1>5 DEF IInv, TypeOK, RecordInv, Revocable
<1>11. RunInv'
  <2> SUFFICES ASSUME NEW q \in Operators \ overlapped
               PROVE  /\ \A i \in 1..(Len(pool'[q]) - 1) :
                            pool'[q][i + 1] = pool'[q][i] + 1
                      /\ script'[q] # 0 /\ pool'[q] # <<>> =>
                            script'[q] = pool'[q][Len(pool'[q])] + 1
                      /\ Revocable(q)' =>
                            pool'[q] = <<>> /\ script'[q] \in {0, 1}
    BY <1>1 DEF RunInv
  <2>1. CASE q # o
    BY <2>1, <1>1, <1>3 DEF IInv, RunInv, Revocable
  <2>2. CASE q = o
    <3>1. ~Revocable(o)
      BY <2>2, <1>1 DEF IInv, RunInv, Revocable
    <3>2. \A i \in 1..(n - 2) : pool'[o][i + 1] = pool'[o][i] + 1
      <4> SUFFICES ASSUME NEW i \in 1..(n - 2)
                   PROVE  pool'[o][i + 1] = pool'[o][i] + 1
        OBVIOUS
      <4>1. /\ i \in 1..(n - 1) /\ i + 1 \in 1..(n - 1)
        BY <1>1
      <4>2. pool[o][(i + 1) + 1] = pool[o][i + 1] + 1
        BY <4>1, <2>2 DEF IInv, RunInv
      <4> QED BY <4>1, <4>2, <1>2
    <3>3. script[o] # 0 => script[o] = pool[o][n] + 1
      BY <2>2, <1>1 DEF IInv, RunInv
    <3>4. pool'[o] # <<>> => n - 1 \in 1..(n - 1) /\ pool'[o][n - 1] = pool[o][n]
      BY <1>1, <1>2
    <3>5. c = 10 => n = 1
      <4>1. n \in Nat \ {0}
        BY <1>1
      <4>2. CASE n >= 2
        <5>1. 1 \in 1..(n - 1) /\ 2 \in 1..n
          BY <4>1, <4>2
        <5>2. pool[o][1 + 1] = pool[o][1] + 1
          BY <5>1, <2>2 DEF IInv, RunInv
        <5>3. pool[o][2] \in Calls
          BY <5>1, <1>1
        <5> QED BY <5>2, <5>3, <1>1
      <4>3. \A k \in Nat \ {0} : k = 1 \/ k >= 2
        OBVIOUS
      <4>4. n = 1 \/ n >= 2
        BY <4>1, <4>3
      <4> QED BY <4>2, <4>4
    <3>6. c = 10 => pool'[o] = <<>> /\ script[o] = 0
      <4> SUFFICES ASSUME c = 10 PROVE pool'[o] = <<>> /\ script[o] = 0
        OBVIOUS
      <4>1. pool'[o] = <<>>
        BY <3>5, <1>2
      <4>2. script[o] \in 0..10
        BY DEF IInv, TypeOK
      <4> QED BY <4>1, <4>2, <3>3, <3>5, <1>1
    <3>7. Revocable(o)' => c = 10
      BY <3>1, <1>2 DEF Revocable
    <3>8. Len(pool'[o]) - 1 = n - 2 /\ script'[o] = script[o]
      BY <1>1, <1>2
    <3>9. script'[o] # 0 /\ pool'[o] # <<>> =>
             script'[o] = pool'[o][Len(pool'[o])] + 1
      BY <3>3, <3>4, <3>8, <1>2
    <3>10. Revocable(o)' => pool'[o] = <<>> /\ script'[o] \in {0, 1}
      BY <3>6, <3>7, <3>8
    <3> QED BY <2>2, <3>2, <3>8, <3>9, <3>10
  <2> QED BY <2>1, <2>2
<1> QED BY <1>6, <1>9, <1>10, <1>11 DEF IInv

----------------------------------------------------------------------------
(* The rest: the hash, the reports and the status.                         *)

LEMMA RevokeInv ==
    ASSUME IInv, NEW o \in Operators, NEW cause \in Reports \cup {None},
           Revoke(o, cause)
    PROVE  /\ status' \in [Operators -> {None, "active", "revoked"}]
           /\ verdict' \in [Operators -> Reports \cup {None}]
           /\ \A q \in Operators :
                 /\ status'[q] # None => SetActive \in mined[q]
                 /\ status'[q] = "revoked" => Revocable(q)
<1>1. CASE status[o] = "revoked"
  BY <1>1 DEF Revoke, IInv, TypeOK, RecordInv
<1>2. CASE status[o] # "revoked"
  <2>1. /\ Revocable(o)
        /\ status' = [status EXCEPT ![o] = "revoked"]
        /\ verdict' = [verdict EXCEPT ![o] = cause]
    BY <1>2 DEF Revoke
  <2>2. SetActive \in mined[o]
    BY <2>1 DEF IInv, OrderInv, Revocable
  <2> QED BY <2>1, <2>2 DEF IInv, TypeOK, RecordInv
<1> QED BY <1>1, <1>2

LEMMA OtherStepsInv ==
    ASSUME IInv, NEW o \in Operators,
           \/ PublishBuild(o) \/ AuthorizeReceiver(o) \/ CronTrigger(o)
           \/ OnReport(o) \/ AdminRevoke(o) \/ Deploy(o) \/ Attest(o)
           \/ SubmitAttestationCheck(o)
    PROVE  IInv'
<1>1. OrderInv' /\ RunInv'
  <2>1. UNCHANGED admin
    BY DEF PublishBuild, AuthorizeReceiver, CronTrigger, OnReport, AdminRevoke,
           Deploy, Attest, SubmitAttestationCheck
  <2> QED BY <2>1, AdminUnchanged
<1>2. CASE PublishBuild(o)
  <2>1. TypeOK' /\ RecordInv'
    BY <1>2, WriteHashInv
    DEF PublishBuild, IInv, TypeOK, RecordInv, Revocable, admin, workflow
  <2> QED BY <1>1, <2>1 DEF IInv
<1>3. CASE AuthorizeReceiver(o) \/ CronTrigger(o)
  <2>1. TypeOK' /\ RecordInv'
    BY <1>3 DEF AuthorizeReceiver, CronTrigger, IInv, TypeOK, RecordInv,
                Revocable, admin, monitor
  <2> QED BY <1>1, <2>1 DEF IInv
<1>4. CASE OnReport(o)
  <2>1. CASE o \in refresher
    <3>1. TypeOK' /\ RecordInv'
      BY <1>4, <2>1, WriteHashInv, RegistryAssumption
      DEF OnReport, IInv, TypeOK, RecordInv, Revocable, admin
    <3> QED BY <1>1, <3>1 DEF IInv
  <2>2. CASE o \notin refresher
    <3>1. TypeOK' /\ RecordInv'
      BY <1>4, <2>2
      DEF OnReport, IInv, TypeOK, RecordInv, Revocable, admin, monitor
    <3> QED BY <1>1, <3>1 DEF IInv
  <2> QED BY <2>1, <2>2
<1>5. CASE AdminRevoke(o)
  <2>1. None \in Reports \cup {None} /\ Revoke(o, None)
    BY <1>5 DEF AdminRevoke
  <2>2. TypeOK' /\ RecordInv'
    BY <1>5, <2>1, RevokeInv
    DEF AdminRevoke, IInv, TypeOK, RecordInv, Revocable, admin, workflow,
        monitor
  <2> QED BY <1>1, <2>2 DEF IInv
<1>6. CASE Deploy(o)
  <2>1. TypeOK' /\ RecordInv'
    BY <1>6 DEF Deploy, IInv, TypeOK, RecordInv, Revocable, admin, workflow
  <2> QED BY <1>1, <2>1 DEF IInv
<1>7. CASE Attest(o)
  <2>1. TypeOK' /\ RecordInv'
    BY <1>7, RegistryAssumption
    DEF Attest, IInv, TypeOK, RecordInv, Revocable, Reports, admin, workflow
  <2> QED BY <1>1, <2>1 DEF IInv
<1>8. CASE SubmitAttestationCheck(o)
  <2>1. /\ report' = [report EXCEPT ![o] = None]
        /\ report[o] \in Reports \cup {None}
        /\ UNCHANGED <<admin, hash, workflow, build, checks>>
    BY <1>8 DEF SubmitAttestationCheck, IInv, TypeOK
  <2>2. CASE report[o].build = hash[o]
    <3>1. TypeOK' /\ RecordInv'
      BY <1>8, <2>1, <2>2
      DEF SubmitAttestationCheck, IInv, TypeOK, RecordInv, Revocable, admin,
          workflow
    <3> QED BY <1>1, <3>1 DEF IInv
  <2>3. CASE report[o].build # hash[o]
    <3>1. Revoke(o, report[o])
      BY <1>8, <2>3 DEF SubmitAttestationCheck
    <3>2. TypeOK' /\ RecordInv'
      BY <2>1, <3>1, RevokeInv
      DEF IInv, TypeOK, RecordInv, Revocable, admin, workflow
    <3> QED BY <1>1, <3>2 DEF IInv
  <2> QED BY <2>2, <2>3
<1> QED BY <1>2, <1>3, <1>4, <1>5, <1>6, <1>7, <1>8

LEMMA StutterInv == IInv /\ UNCHANGED vars => IInv'
<1> SUFFICES ASSUME IInv, UNCHANGED vars PROVE IInv'
  OBVIOUS
<1>1. OrderInv' /\ RunInv'
  BY AdminUnchanged DEF vars
<1>2. TypeOK'
  BY DEF IInv, TypeOK, vars, admin, workflow, monitor
<1>3. RecordInv'
  BY DEF IInv, RecordInv, Revocable, vars, admin
<1> QED BY <1>1, <1>2, <1>3 DEF IInv

LEMMA NextInv == IInv /\ [Next]_vars => IInv'
<1> SUFFICES ASSUME IInv, [Next]_vars PROVE IInv'
  OBVIOUS
<1>1. CASE UNCHANGED vars
  BY <1>1, StutterInv
<1>2. ASSUME NEW o \in Operators, Step(o) PROVE IInv'
  BY <1>2, RunScriptInv, SendCallInv, ScriptStopsInv, MineCallInv,
     OtherStepsInv
  DEF Step
<1> QED BY <1>1, <1>2 DEF Next

\* The invariant holds in every reachable state.
THEOREM Invariance == Spec => []IInv
<1>1. Init => IInv
  BY InitInv
<1>2. IInv /\ [Next]_vars => IInv'
  BY NextInv
<1> QED BY <1>1, <1>2, PTL DEF Spec

\* Every variable keeps its type, wherever a run of the script stops.
THEOREM TypeCorrect == Spec => []TypeOK
<1>1. IInv => TypeOK
  BY DEF IInv
<1> QED BY <1>1, Invariance, PTL

\* An operator with a status has its whole record.
THEOREM Listed == Spec => []ListedIsComplete
<1>1. IInv => ListedIsComplete
  <2> SUFFICES ASSUME IInv, NEW o \in Operators, status[o] # None
               PROVE  Complete(o) /\ hash[o] # None
    BY DEF ListedIsComplete
  <2>1. \A d \in 1..5 : d \in mined[o]
    BY DEF IInv, OrderInv, RecordInv
  <2> QED BY <2>1 DEF IInv, RecordInv, Complete
<1> QED BY <1>1, Invariance, PTL

\* Once an operator is revoked nothing in the pool of runs that did not
\* overlap can write its status again.
THEOREM Final == Spec => RevokedIsFinal
<1>1. IInv /\ [Next]_vars =>
        [\A o \in Operators \ overlapped :
            status[o] = "revoked" => status'[o] = "revoked"]_vars
  <2> SUFFICES ASSUME IInv, Next, NEW o \in Operators \ overlapped,
                      status[o] = "revoked"
               PROVE  status'[o] = "revoked"
    OBVIOUS
  <2>1. PICK q \in Operators : Step(q)
    BY DEF Next
  <2>2. pool[o] = <<>>
    BY DEF IInv, RecordInv, RunInv
  <2>3. CASE MineCall(q)
    BY <2>2, <2>3 DEF MineCall, IInv, TypeOK
  <2>4. CASE ~MineCall(q)
    BY <2>1, <2>4
    DEF Step, RunScript, SendCall, ScriptStops, PublishBuild,
        AuthorizeReceiver, CronTrigger, OnReport, AdminRevoke, Deploy, Attest,
        SubmitAttestationCheck, Revoke, IInv, TypeOK
  <2> QED BY <2>3, <2>4
<1> QED BY <1>1, Invariance, PTL DEF Spec, RevokedIsFinal

----------------------------------------------------------------------------
(* Reports: one that matched when it was made matches until the published  *)
(* hash is changed, which it then carries.                                 *)

ReportInv ==
    \A o \in Operators :
       report[o] # None /\ report[o].matched /\ ~report[o].changed =>
          report[o].build = hash[o]

LEMMA WriteHashReport ==
    ASSUME TypeOK, ReportInv, NEW o \in Operators, NEW h \in Builds,
           WriteHash(o, h)
    PROVE  ReportInv'
<1> SUFFICES ASSUME NEW q \in Operators,
                    report'[q] # None, report'[q].matched, ~report'[q].changed
             PROVE  report'[q].build = hash'[q]
  BY DEF ReportInv
<1>1. CASE report[o] = None \/ h = hash[o]
  <2>1. report' = report
    BY <1>1 DEF WriteHash
  <2>2. q # o => hash'[q] = hash[q]
    BY DEF WriteHash, TypeOK
  <2>3. q = o => hash'[q] = h
    BY DEF WriteHash, TypeOK
  <2> QED BY <1>1, <2>1, <2>2, <2>3 DEF ReportInv
<1>2. CASE ~(report[o] = None \/ h = hash[o])
  <2>1. report' = [report EXCEPT ![o].changed = TRUE]
    BY <1>2 DEF WriteHash
  <2>2. q # o
    BY <1>2, <2>1 DEF TypeOK, Reports
  <2>3. report'[q] = report[q] /\ hash'[q] = hash[q]
    BY <2>1, <2>2 DEF WriteHash, TypeOK
  <2> QED BY <2>3 DEF ReportInv
<1> QED BY <1>1, <1>2

LEMMA ReportStep ==
    ASSUME TypeOK, ReportInv, [Next]_vars
    PROVE  ReportInv'
<1>1. ASSUME UNCHANGED <<hash, report>> PROVE ReportInv'
  BY <1>1 DEF ReportInv
<1>2. CASE UNCHANGED vars
  BY <1>1, <1>2 DEF vars, monitor
<1>3. ASSUME NEW o \in Operators, Step(o) PROVE ReportInv'
  <2>1. CASE MineCall(o)
    <3>1. CASE Head(pool[o]) = SetHash
      BY <2>1, <3>1, WriteHashReport, RegistryAssumption DEF MineCall
    <3>2. CASE Head(pool[o]) # SetHash
      BY <2>1, <3>2, <1>1 DEF MineCall, monitor
    <3> QED BY <3>1, <3>2
  <2>2. CASE PublishBuild(o)
    BY <2>2, WriteHashReport DEF PublishBuild
  <2>3. CASE OnReport(o)
    <3>1. CASE o \in refresher
      BY <2>3, <3>1, WriteHashReport, RegistryAssumption DEF OnReport
    <3>2. CASE o \notin refresher
      BY <2>3, <3>2, <1>1 DEF OnReport, monitor
    <3> QED BY <3>1, <3>2
  <2>4. CASE Attest(o)
    <3> SUFFICES ASSUME NEW q \in Operators, report'[q] # None,
                        report'[q].matched, ~report'[q].changed
                 PROVE  report'[q].build = hash'[q]
      BY DEF ReportInv
    <3>1. CASE q = o
      BY <2>4, <3>1 DEF Attest, TypeOK
    <3>2. CASE q # o
      BY <2>4, <3>2 DEF Attest, TypeOK, ReportInv
    <3> QED BY <3>1, <3>2
  <2>5. CASE SubmitAttestationCheck(o)
    BY <2>5 DEF SubmitAttestationCheck, TypeOK, ReportInv
  <2>6. CASE RunScript(o) \/ SendCall(o) \/ ScriptStops(o)
    BY <2>6, <1>1 DEF RunScript, SendCall, ScriptStops, monitor
  <2>7. CASE AuthorizeReceiver(o) \/ CronTrigger(o) \/ AdminRevoke(o) \/ Deploy(o)
    BY <2>7, <1>1 DEF AuthorizeReceiver, CronTrigger, AdminRevoke, Deploy, monitor
  <2> QED BY <1>3, <2>1, <2>2, <2>3, <2>4, <2>5, <2>6, <2>7 DEF Step
<1> QED BY <1>2, <1>3 DEF Next

LEMMA VerdictStep ==
    ASSUME TypeOK, ReportInv, MatchingReportRevokesNobody, [Next]_vars
    PROVE  MatchingReportRevokesNobody'
<1>1. ASSUME UNCHANGED verdict PROVE MatchingReportRevokesNobody'
  BY <1>1 DEF MatchingReportRevokesNobody
<1>2. CASE UNCHANGED vars
  BY <1>1, <1>2 DEF vars
<1>3. ASSUME NEW o \in Operators, Step(o)
      PROVE  MatchingReportRevokesNobody'
  <2>1. CASE SubmitAttestationCheck(o)
    <3>1. CASE verdict' = verdict
      BY <1>1, <3>1
    <3>2. CASE verdict' # verdict
      <4>1. /\ report[o] # None
            /\ report[o].build # hash[o]
            /\ verdict' = [verdict EXCEPT ![o] = report[o]]
        BY <2>1, <3>2 DEF SubmitAttestationCheck, Revoke
      <4>2. ~report[o].matched \/ report[o].changed
        BY <4>1 DEF ReportInv
      <4> QED BY <4>1, <4>2 DEF MatchingReportRevokesNobody, TypeOK
    <3> QED BY <3>1, <3>2
  <2>2. CASE AdminRevoke(o)
    <3>1. CASE verdict' = verdict
      BY <1>1, <3>1
    <3>2. CASE verdict' # verdict
      <4>1. verdict' = [verdict EXCEPT ![o] = None]
        BY <2>2, <3>2 DEF AdminRevoke, Revoke
      <4> QED BY <4>1 DEF MatchingReportRevokesNobody, TypeOK
    <3> QED BY <3>1, <3>2
  <2>3. CASE ~SubmitAttestationCheck(o) /\ ~AdminRevoke(o)
    BY <1>1, <1>3, <2>3
    DEF Step, RunScript, SendCall, ScriptStops, MineCall, PublishBuild,
        AuthorizeReceiver, CronTrigger, OnReport, Deploy, Attest
  <2> QED BY <2>1, <2>2, <2>3
<1> QED BY <1>2, <1>3 DEF Next

\* Nobody is revoked for a report that matched when it was made, unless the
\* published hash was changed while it was on its way.
THEOREM Matching == Spec => []MatchingReportRevokesNobody
<1>1. Init => ReportInv /\ MatchingReportRevokesNobody
  BY DEF Init, ReportInv, MatchingReportRevokesNobody
<1>2. TypeOK /\ ReportInv /\ MatchingReportRevokesNobody /\ [Next]_vars
        => ReportInv' /\ MatchingReportRevokesNobody'
  BY ReportStep, VerdictStep
<1> QED BY <1>1, <1>2, TypeCorrect, PTL DEF Spec
=============================================================================
