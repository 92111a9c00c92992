----------------------- MODULE ThresholdExecutionProofs -----------------------
(***************************************************************************)
(* Proofs about the chain signing executors, for any requests, jobs and    *)
(* bounds, and for every backend.                                          *)
(***************************************************************************)
EXTENDS ThresholdExecution, TLAPS

Lockers == Frost \cup FileBacked

(* Where an execution is between its claim and its return.                 *)
LockedStages == {"prepare", "round one", "round two", "abort", "finalize",
                 "share", "reserve", "sign", "proof"}
Stages == LockedStages \cup {"claim", "start", "native"}

Execution == [pc : Stages, job : Jobs, no : Nat, input : Nat, turn : {1, 2},
              shares : SUBSET {1, 2}]

TypeOK ==
    /\ backend \in Backends
    /\ call \in [Workers -> {Idle} \cup Execution]
    /\ claimLog = [records |-> claimLog.records, torn |-> claimLog.torn]
    /\ calls \in Nat /\ life \in Nat

(* Every execution past its claim is remembered as long as the backend     *)
(* remembers, and no attempt is past its claim twice.                      *)
Remembered(a) ==
    /\ a.life \in 0 .. life
    /\ backend \in Frost /\ a.life = life => a.key \in consumed
    /\ backend \in FileBacked => a.key \in claimFiles
    /\ backend = "cbmpc" => a.key \in claimed

ClaimInv ==
    /\ \A a \in begun : Remembered(a)
    /\ claimed \subseteq claimLog.records
    /\ ExecutedOnce

(* An execution of a backend with a lock has it from its claim to its      *)
(* return; one of cb-mpc has the two shares while its threads run.         *)
Locked(w) ==
    /\ call[w].pc \in LockedStages => backend \in Lockers /\ mutex = w
    /\ call[w].pc \in {"start", "native"} => backend = "cbmpc"
    /\ call[w].pc = "native" => busy = w

LockInv == \A w \in Workers : Locked(w)

(* An execution inside the executor has passed its claim in this life of   *)
(* the process, and so had every one that returned a signature.            *)
Attempt(w) ==
    [call |-> call[w].no, key |-> ClaimKey(call[w].job), life |-> life]

BegunInv ==
    /\ \A w \in Workers : call[w].pc \notin {"idle", "claim"} => Attempt(w) \in begun
    /\ \A a \in accepted : \E b \in begun : b.call = a.call /\ b.key = ClaimKey(a.job)

Inv == TypeOK /\ ClaimInv /\ LockInv /\ BegunInv

-----------------------------------------------------------------------------
(* How the call of one request changes.                                    *)

(* Only the call of w changes, and it is then at one of the stages of S,   *)
(* with the job it had.                                                    *)
Moves(w, S) ==
    /\ call' \in [Workers -> {Idle} \cup Execution]
    /\ call'[w].pc \in S
    /\ call[w].pc # "idle" /\ call'[w].pc # "idle" =>
         call'[w].job = call[w].job /\ call'[w].no = call[w].no
    /\ \A v \in Workers \ {w} : call'[v] = call[v]

LEMMA IdleIsNoExecution == Idle.pc = "idle" /\ "idle" \notin Stages
BY Zenon DEF Idle, Stages, LockedStages

LEMMA Executing ==
  ASSUME TypeOK, NEW w \in Workers, call[w].pc # "idle"
  PROVE  call[w] \in Execution
BY Zenon, IdleIsNoExecution DEF TypeOK

LEMMA AdvanceMoves ==
  ASSUME TypeOK, NEW w \in Workers, call[w].pc # "idle", NEW s \in Stages, Advance(w, s)
  PROVE  Moves(w, {s})
<1>1. call[w] \in Execution
  BY Zenon, Executing
<1>2. call \in [Workers -> {Idle} \cup Execution] /\ call' = [call EXCEPT ![w].pc = s]
  BY Zenon DEF TypeOK, Advance
<1> QED BY Zenon, <1>1, <1>2 DEF Moves, Execution

LEMMA LeaveMoves ==
  ASSUME TypeOK, NEW w \in Workers, Leave(w)
  PROVE  Moves(w, {"idle"})
BY Zenon, IdleIsNoExecution DEF TypeOK, Leave, Moves

(* A turn of a round, with or without a share.                             *)
LEMMA TurnMoves ==
  ASSUME TypeOK, NEW w \in Workers, call[w].pc # "idle", NEW s \in Stages,
         NEW S \in SUBSET {1, 2},
         call' = [call EXCEPT ![w] = [NextTurn(w, s) EXCEPT !.shares = S]]
  PROVE  Moves(w, {s, call[w].pc})
<1>1. call[w] \in Execution
  BY Zenon, Executing
<1>2. call \in [Workers -> {Idle} \cup Execution]
  BY Zenon DEF TypeOK
<1>3. [NextTurn(w, s) EXCEPT !.shares = S] \in Execution
  BY Zenon, <1>1 DEF Execution, NextTurn
<1>4. /\ [NextTurn(w, s) EXCEPT !.shares = S].pc \in {s, call[w].pc}
      /\ [NextTurn(w, s) EXCEPT !.shares = S].job = call[w].job
      /\ [NextTurn(w, s) EXCEPT !.shares = S].no = call[w].no
  BY Zenon, <1>1 DEF Execution, NextTurn
<1> QED BY Zenon, <1>2, <1>3, <1>4 DEF Moves

LEMMA PlainTurnMoves ==
  ASSUME TypeOK, NEW w \in Workers, call[w].pc # "idle", NEW s \in Stages,
         call' = [call EXCEPT ![w] = NextTurn(w, s)]
  PROVE  Moves(w, {s, call[w].pc})
<1>1. call[w] \in Execution
  BY Zenon, Executing
<1>2. call \in [Workers -> {Idle} \cup Execution]
  BY Zenon DEF TypeOK
<1>3. /\ NextTurn(w, s) \in Execution /\ NextTurn(w, s).pc \in {s, call[w].pc}
      /\ NextTurn(w, s).job = call[w].job /\ NextTurn(w, s).no = call[w].no
  BY Zenon, <1>1 DEF Execution, NextTurn
<1> QED BY Zenon, <1>2, <1>3 DEF Moves

-----------------------------------------------------------------------------
(* The locks.                                                              *)

(* Inside the lock an execution goes on, holding it.                       *)
LEMMA StaysLocked ==
  ASSUME LockInv, NEW w \in Workers, Moves(w, LockedStages),
         call[w].pc \in LockedStages, UNCHANGED <<backend, mutex, busy>>
  PROVE  LockInv'
<1>1. "start" \notin LockedStages /\ "native" \notin LockedStages
  BY Zenon DEF LockedStages
<1> QED BY Zenon, <1>1 DEF LockInv, Locked, Moves

(* A returning execution releases only what it has.                        *)
LEMMA LeavesLock ==
  ASSUME LockInv, NEW w \in Workers, Moves(w, {"idle"}), UNCHANGED backend,
         mutex' = IF mutex = w THEN Nobody ELSE mutex,
         busy' = busy \/ (busy = w /\ call[w].pc = "native")
  PROVE  LockInv'
<1>1. "idle" \notin LockedStages
  BY Zenon DEF LockedStages
<1> QED BY Zenon, <1>1 DEF LockInv, Locked, Moves

(* The lock is taken when nobody has it.                                   *)
LEMMA TakesLock ==
  ASSUME LockInv, NEW w \in Workers, Moves(w, LockedStages), backend \in Lockers,
         mutex = Nobody, mutex' = w, UNCHANGED <<backend, busy>>
  PROVE  LockInv'
<1>1. "start" \notin LockedStages /\ "native" \notin LockedStages
  BY Zenon DEF LockedStages
<1>2. \A v \in Workers : mutex # v
  BY Zenon, ExecutionAssumption
<1> QED BY Zenon, <1>1, <1>2 DEF LockInv, Locked, Moves

(* Nothing of this concerns a request before its claim.                    *)
LEMMA BeforeLock ==
  ASSUME LockInv, NEW w \in Workers, NEW s \in {"claim", "start"}, Moves(w, {s}),
         s = "start" => backend = "cbmpc", UNCHANGED <<backend, mutex, busy>>
  PROVE  LockInv'
<1>1. "start" \notin LockedStages /\ "claim" \notin LockedStages
  BY Zenon DEF LockedStages
<1> QED BY Zenon, <1>1 DEF LockInv, Locked, Moves

-----------------------------------------------------------------------------
(* The claims.                                                             *)

claimState == <<backend, claimVars, begun, life>>

LEMMA ClaimsKept == ASSUME ClaimInv, UNCHANGED claimState PROVE ClaimInv'
BY Zenon DEF ClaimInv, claimState, claimVars, Remembered, ExecutedOnce

(* More is remembered than before.                                         *)
LEMMA ClaimsGrow ==
  ASSUME ClaimInv, UNCHANGED <<backend, begun, life>>,
         consumed \subseteq consumed', claimFiles \subseteq claimFiles',
         claimed \subseteq claimed', claimed' \subseteq claimLog'.records
  PROVE  ClaimInv'
BY Zenon DEF ClaimInv, Remembered, ExecutedOnce

(* A new attempt passes its claim: no earlier one with the same key is     *)
(* still remembered.                                                       *)
LEMMA ClaimPassed ==
  ASSUME TypeOK, ClaimInv, NEW n, NEW key,
         begun' = begun \cup {[call |-> n, key |-> key, life |-> life]},
         UNCHANGED <<backend, life>>,
         consumed \subseteq consumed', claimFiles \subseteq claimFiles',
         claimed \subseteq claimed', claimed' \subseteq claimLog'.records,
         \/ backend \in Frost /\ key \notin consumed /\ key \in consumed'
         \/ backend \in FileBacked /\ key \notin claimFiles /\ key \in claimFiles'
         \/ backend = "cbmpc" /\ key \notin claimed /\ key \in claimed'
  PROVE  ClaimInv'
<1>x. PICK x : x = [call |-> n, key |-> key, life |-> life]
  BY Zenon
<1>0. x.key = key /\ x.life = life /\ life \in 0 .. life
  BY <1>x DEF TypeOK
<1>d. /\ backend \in Frost => backend \notin FileBacked /\ backend # "cbmpc"
      /\ backend \in FileBacked => backend # "cbmpc"
  BY Zenon DEF Frost, FileBacked
<1>1. \A a \in begun' : Remembered(a)'
  <2>1. \A a \in begun : Remembered(a)'
    BY Zenon DEF ClaimInv, Remembered
  <2>2. Remembered(x)'
    BY Zenon, <1>0, <1>d DEF Remembered
  <2> QED BY Zenon, <1>x, <2>1, <2>2
<1>2. ASSUME NEW a \in begun, a.key = key
      PROVE  backend \in Frost /\ a.life # life
  BY Zenon, <1>2, <1>d DEF ClaimInv, Remembered
<1>3. ExecutedOnce'
  <2>1. SUFFICES ASSUME NEW a \in begun', NEW b \in begun', a.key = b.key, a # b
                 PROVE  backend \in Frost /\ a.life # b.life
    BY Zenon DEF ExecutedOnce
  <2>2. CASE a \in begun /\ b \in begun
    BY Zenon, <2>1, <2>2 DEF ClaimInv, ExecutedOnce
  <2>3. CASE a = x /\ b \in begun
    BY Zenon, <2>1, <2>3, <1>0, <1>2
  <2>4. CASE b = x /\ a \in begun
    BY Zenon, <2>1, <2>4, <1>0, <1>2
  <2> QED BY Zenon, <1>x, <2>1, <2>2, <2>3, <2>4
<1> QED BY Zenon, <1>1, <1>3 DEF ClaimInv

-----------------------------------------------------------------------------
(* The attempts and the signatures.                                        *)

LEMMA BegunKept ==
  ASSUME BegunInv, NEW w \in Workers, NEW S, Moves(w, S),
         call[w].pc \in {"idle", "claim"} => S \subseteq {"idle", "claim"},
         UNCHANGED <<backend, life, accepted>>, begun \subseteq begun'
  PROVE  BegunInv'
<1>1. ASSUME NEW v \in Workers, call'[v].pc \notin {"idle", "claim"}
      PROVE  Attempt(v)' \in begun'
  <2>1. call[v].pc \notin {"idle", "claim"} /\ call'[v].no = call[v].no /\ call'[v].job = call[v].job
    BY Zenon, <1>1 DEF Moves
  <2>2. Attempt(v)' = Attempt(v)
    BY Zenon, <2>1 DEF Attempt, ClaimKey
  <2> QED BY Zenon, <2>1, <2>2 DEF BegunInv
<1>2. ASSUME NEW a \in accepted
      PROVE  \E b \in begun' : b.call = a.call /\ b.key = ClaimKey(a.job)'
  BY Zenon DEF BegunInv, ClaimKey
<1> QED BY Zenon, <1>1, <1>2 DEF BegunInv

(* A claim that is passed begins an attempt.                               *)
LEMMA BegunPassed ==
  ASSUME BegunInv, NEW w \in Workers, NEW S, Moves(w, S), call[w].pc = "claim", "idle" \notin S,
         Pass(w), UNCHANGED <<backend, life, accepted>>
  PROVE  BegunInv'
<1>1. ASSUME NEW v \in Workers, call'[v].pc \notin {"idle", "claim"}
      PROVE  Attempt(v)' \in begun'
  <2>1. call'[v].no = call[v].no /\ call'[v].job = call[v].job
    BY Zenon, <1>1 DEF Moves
  <2>2. Attempt(v)' = Attempt(v)
    BY Zenon, <2>1 DEF Attempt, ClaimKey
  <2>3. v = w \/ call[v].pc \notin {"idle", "claim"}
    BY Zenon, <1>1 DEF Moves
  <2> QED BY Zenon, <2>2, <2>3 DEF BegunInv, Pass, Attempt
<1>2. ASSUME NEW a \in accepted
      PROVE  \E b \in begun' : b.call = a.call /\ b.key = ClaimKey(a.job)'
  BY Zenon DEF BegunInv, ClaimKey, Pass
<1> QED BY Zenon, <1>1, <1>2 DEF BegunInv

LEMMA BegunFinished ==
  ASSUME BegunInv, NEW w \in Workers, Moves(w, {"idle"}), call[w].pc \notin {"idle", "claim"},
         NEW sig, Finish(w, sig), UNCHANGED <<backend, life, begun>>
  PROVE  BegunInv'
<1>1. ASSUME NEW v \in Workers, call'[v].pc \notin {"idle", "claim"}
      PROVE  Attempt(v)' \in begun'
  <2>1. call'[v] = call[v] /\ call[v].pc \notin {"idle", "claim"}
    BY Zenon, <1>1 DEF Moves
  <2>2. Attempt(v)' = Attempt(v)
    BY Zenon, <2>1 DEF Attempt, ClaimKey
  <2> QED BY Zenon, <2>1, <2>2 DEF BegunInv
<1>2. ASSUME NEW a \in accepted'
      PROVE  \E b \in begun : b.call = a.call /\ b.key = ClaimKey(a.job)
  <2>1. CASE a \in accepted
    BY Zenon, <2>1 DEF BegunInv
  <2>2. CASE a = [job |-> call[w].job, call |-> call[w].no, sig |-> sig]
    <3>1. Attempt(w) \in begun /\ Attempt(w).call = a.call /\ Attempt(w).key = ClaimKey(a.job)
      BY Zenon, <2>2 DEF BegunInv, Attempt
    <3> QED BY Zenon, <3>1
  <2> QED BY Zenon, <1>2, <2>1, <2>2 DEF Finish
<1>3. \A a \in accepted' : \E b \in begun' : b.call = a.call /\ b.key = ClaimKey(a.job)'
  BY Zenon, <1>2 DEF ClaimKey
<1> QED BY Zenon, <1>1, <1>3 DEF BegunInv

-----------------------------------------------------------------------------
(* The steps.                                                              *)

(* A step that concerns neither the claims nor the signatures.             *)
LEMMA MovesOn ==
  ASSUME Inv, NEW w \in Workers, NEW S, Moves(w, S), UNCHANGED <<claimState, accepted, calls>>,
         call[w].pc \in {"idle", "claim"} => S \subseteq {"idle", "claim"}
  PROVE  TypeOK' /\ ClaimInv' /\ BegunInv'
<1>1. TypeOK'
  BY Zenon DEF Inv, TypeOK, Moves, claimState, claimVars
<1>3. BegunInv'
  BY Zenon, BegunKept DEF Inv, claimState
<1> QED BY Zenon, <1>1, <1>3, ClaimsKept DEF Inv

(* The same, out of the executor.                                          *)
LEMMA LeavesOnly ==
  ASSUME Inv, NEW w \in Workers, Leave(w), UNCHANGED <<claimState, accepted, calls, busy>>
  PROVE  Inv'
<1>1. Moves(w, {"idle"})
  BY Zenon, LeaveMoves DEF Inv
<1>2. LockInv'
  BY Zenon, <1>1, LeavesLock DEF Inv, Leave, claimState
<1> QED BY Zenon, <1>1, <1>2, MovesOn DEF Inv

(* The same, under the lock.                                               *)
LEMMA GoesOn ==
  ASSUME Inv, NEW w \in Workers, Moves(w, LockedStages), call[w].pc \in LockedStages,
         UNCHANGED <<claimState, accepted, calls, mutex, busy>>
  PROVE  Inv'
<1>1. LockInv'
  BY Zenon, StaysLocked DEF Inv, claimState
<1>2. call[w].pc \notin {"idle", "claim"}
  BY Zenon DEF LockedStages
<1> QED BY Zenon, <1>1, <1>2, MovesOn DEF Inv

LEMMA ExecuteStep ==
  ASSUME Inv, NEW w \in Workers, NEW j \in Jobs, NEW now \in Times, Execute(w, j, now)
  PROVE  Inv'
<1>1. /\ calls' = calls + 1
      /\ call' = [call EXCEPT ![w] = [pc |-> "claim", job |-> j, no |-> calls', input |-> 1,
                                     turn |-> 1, shares |-> {}]]
      /\ UNCHANGED <<claimState, accepted, mutex, busy>>
  BY Zenon DEF Execute, claimState, nativeVars
<1>2. calls' \in Nat /\ call \in [Workers -> {Idle} \cup Execution]
  BY <1>1 DEF Inv, TypeOK
<1>3. [pc |-> "claim", job |-> j, no |-> calls', input |-> 1, turn |-> 1, shares |-> {}]
        \in Execution
  BY Zenon, <1>2 DEF Execution, Stages
<1>4. Moves(w, {"claim"})
  BY <1>1, <1>2, <1>3, IdleIsNoExecution DEF Moves, Execute
<1>5. TypeOK'
  BY Zenon, <1>1, <1>2, <1>4 DEF Inv, TypeOK, Moves, claimState, claimVars
<1>6. LockInv'
  BY Zenon, <1>1, <1>4, BeforeLock DEF Inv, claimState
<1>8. BegunInv'
  BY Zenon, <1>1, <1>4, BegunKept DEF Inv, claimState
<1> QED BY Zenon, <1>1, <1>5, <1>6, <1>8, ClaimsKept DEF Inv

LEMMA ProcessClaimStep ==
  ASSUME Inv, NEW w \in Workers, ProcessClaim(w)
  PROVE  Inv'
<1> DEFINE key == ClaimKey(call[w].job)
<1>0. /\ backend \in Frost /\ call[w].pc = "claim" /\ mutex = Nobody
      /\ UNCHANGED <<backend, accepted, calls, life, claimFiles, claimLog, claimed,
                     failedClosed, busy>>
      /\ \/ /\ key \notin consumed /\ consumed' = consumed \cup {key}
            /\ mutex' = w /\ Advance(w, "prepare") /\ Pass(w)
         \/ Leave(w) /\ UNCHANGED <<consumed, begun>>
  BY Zenon DEF ProcessClaim, nativeVars
<1> HIDE DEF key
<1>1. CASE /\ key \notin consumed /\ consumed' = consumed \cup {key}
           /\ mutex' = w /\ Advance(w, "prepare") /\ Pass(w)
  <2>1. Moves(w, {"prepare"})
    BY Zenon, <1>0, <1>1, AdvanceMoves DEF Inv, Stages, LockedStages
  <2>2. LockInv'
    <3>1. Moves(w, LockedStages)
      BY Zenon, <2>1 DEF Moves, LockedStages
    <3> QED BY Zenon, <1>0, <1>1, <3>1, TakesLock DEF Inv, Lockers
  <2>3. ClaimInv'
    <3>1. begun' = begun \cup {[call |-> call[w].no, key |-> key, life |-> life]}
      BY Zenon, <1>1 DEF Pass, key
    <3>2. claimed' \subseteq claimLog'.records
      BY Zenon, <1>0 DEF Inv, ClaimInv
    <3> QED BY Zenon, <1>0, <1>1, <3>1, <3>2, ClaimPassed DEF Inv
  <2>4. TypeOK'
    BY Zenon, <1>0, <2>1 DEF Inv, TypeOK, Moves
  <2>6. BegunInv'
    BY Zenon, <1>0, <1>1, <2>1, BegunPassed DEF Inv
  <2> QED BY Zenon, <2>2, <2>3, <2>4, <2>6 DEF Inv
<1>2. CASE Leave(w) /\ UNCHANGED <<consumed, begun>>
  BY Zenon, <1>0, <1>2, LeavesOnly DEF claimState, claimVars
<1> QED BY Zenon, <1>0, <1>1, <1>2

LEMMA FileClaimStep ==
  ASSUME Inv, NEW w \in Workers, FileClaim(w)
  PROVE  Inv'
<1> DEFINE key == ClaimKey(call[w].job)
           next == IF backend = "chia" THEN "share" ELSE "reserve"
<1>0. /\ backend \in FileBacked /\ call[w].pc = "claim" /\ mutex = Nobody
      /\ UNCHANGED <<backend, accepted, calls, life, consumed, claimLog, claimed,
                     failedClosed, busy>>
      /\ \/ /\ key \notin claimFiles /\ claimFiles' = claimFiles \cup {key}
            /\ mutex' = w /\ Advance(w, next) /\ Pass(w)
         \/ /\ claimFiles' \in {claimFiles, claimFiles \cup {key}}
            /\ Leave(w) /\ UNCHANGED begun
  BY Zenon DEF FileClaim, nativeVars
<1>n. next \in LockedStages /\ next \in Stages
  BY Zenon DEF LockedStages, Stages
<1>r. claimed' \subseteq claimLog'.records
  BY Zenon, <1>0 DEF Inv, ClaimInv
<1> HIDE DEF key, next
<1>1. CASE /\ key \notin claimFiles /\ claimFiles' = claimFiles \cup {key}
           /\ mutex' = w /\ Advance(w, next) /\ Pass(w)
  <2>1. Moves(w, {next})
    BY Zenon, <1>0, <1>1, <1>n, AdvanceMoves DEF Inv
  <2>2. LockInv'
    <3>1. Moves(w, LockedStages)
      BY Zenon, <2>1, <1>n DEF Moves
    <3> QED BY Zenon, <1>0, <1>1, <3>1, TakesLock DEF Inv, Lockers
  <2>3. ClaimInv'
    <3>1. begun' = begun \cup {[call |-> call[w].no, key |-> key, life |-> life]}
      BY Zenon, <1>1 DEF Pass, key
    <3> QED BY Zenon, <1>0, <1>1, <1>r, <3>1, ClaimPassed DEF Inv
  <2>4. TypeOK'
    BY Zenon, <1>0, <2>1 DEF Inv, TypeOK, Moves
  <2>5. BegunInv'
    <3>1. "idle" \notin {next}
      BY Zenon, <1>n DEF LockedStages
    <3> QED BY Zenon, <1>0, <1>1, <2>1, <3>1, BegunPassed DEF Inv
  <2> QED BY Zenon, <2>2, <2>3, <2>4, <2>5 DEF Inv
<1>2. CASE /\ claimFiles' \in {claimFiles, claimFiles \cup {key}}
           /\ Leave(w) /\ UNCHANGED begun
  <2>1. Moves(w, {"idle"})
    BY Zenon, <1>2, LeaveMoves DEF Inv
  <2>2. LockInv'
    BY Zenon, <1>0, <1>2, <2>1, LeavesLock DEF Inv, Leave
  <2>3. ClaimInv'
    BY Zenon, <1>0, <1>2, <1>r, ClaimsGrow DEF Inv
  <2>4. TypeOK'
    BY Zenon, <1>0, <2>1 DEF Inv, TypeOK, Moves
  <2>5. BegunInv'
    BY Zenon, <1>0, <1>2, <2>1, BegunKept DEF Inv
  <2> QED BY <2>2, <2>3, <2>4, <2>5 DEF Inv
<1> QED BY Zenon, <1>0, <1>1, <1>2

(* Appending to the log of claims.                                         *)
LEMMA Logged ==
  ASSUME TypeOK, NEW key, claimLog' = [claimLog EXCEPT !.records = @ \cup {key}]
  PROVE  /\ claimLog'.records = claimLog.records \cup {key}
         /\ claimLog' = [records |-> claimLog'.records, torn |-> claimLog'.torn]
BY Zenon DEF TypeOK

LEMMA Torn ==
  ASSUME TypeOK, claimLog' = [claimLog EXCEPT !.torn = TRUE]
  PROVE  /\ claimLog'.records = claimLog.records
         /\ claimLog' = [records |-> claimLog'.records, torn |-> claimLog'.torn]
BY Zenon DEF TypeOK

LEMMA LogClaimStep ==
  ASSUME Inv, NEW w \in Workers, LogClaim(w)
  PROVE  Inv'
<1> DEFINE key == ClaimKey(call[w].job)
<1>0. /\ backend = "cbmpc" /\ call[w].pc = "claim"
      /\ UNCHANGED <<backend, accepted, calls, life, consumed, claimFiles, busy, failedClosed>>
      /\ \/ /\ Claimable(call[w].job)
            /\ claimLog' = [claimLog EXCEPT !.records = @ \cup {key}]
            /\ claimed' = claimed \cup {key}
            /\ Advance(w, "start") /\ Pass(w) /\ UNCHANGED mutex
         \/ Leave(w) /\ UNCHANGED <<claimLog, claimed, begun>>
  BY Zenon DEF LogClaim, nativeVars
<1>k. Claimable(call[w].job) => key \notin claimed
  BY Zenon DEF Claimable
<1> HIDE DEF key
<1>1. CASE /\ Claimable(call[w].job)
           /\ claimLog' = [claimLog EXCEPT !.records = @ \cup {key}]
           /\ claimed' = claimed \cup {key}
           /\ Advance(w, "start") /\ Pass(w) /\ UNCHANGED mutex
  <2>1. Moves(w, {"start"})
    BY Zenon, <1>0, <1>1, AdvanceMoves DEF Inv, Stages
  <2>2. LockInv'
    BY Zenon, <1>0, <1>1, <2>1, BeforeLock DEF Inv
  <2>l. /\ claimLog'.records = claimLog.records \cup {key}
        /\ claimLog' = [records |-> claimLog'.records, torn |-> claimLog'.torn]
    BY Zenon, <1>1, Logged DEF Inv
  <2>3. ClaimInv'
    <3>1. begun' = begun \cup {[call |-> call[w].no, key |-> key, life |-> life]}
      BY Zenon, <1>1 DEF Pass, key
    <3>2. claimed' \subseteq claimLog'.records
      BY Zenon, <1>1, <2>l DEF Inv, ClaimInv
    <3> QED BY Zenon, <1>0, <1>1, <1>k, <3>1, <3>2, ClaimPassed DEF Inv
  <2>4. TypeOK'
    BY Zenon, <1>0, <2>1, <2>l DEF Inv, TypeOK, Moves
  <2>6. BegunInv'
    BY Zenon, <1>0, <1>1, <2>1, BegunPassed DEF Inv
  <2> QED BY <2>2, <2>3, <2>4, <2>6 DEF Inv
<1>2. CASE Leave(w) /\ UNCHANGED <<claimLog, claimed, begun>>
  BY Zenon, <1>0, <1>2, LeavesOnly DEF claimState, claimVars
<1> QED BY Zenon, <1>0, <1>1, <1>2

LEMMA LogClaimFailsStep ==
  ASSUME Inv, NEW w \in Workers, LogClaimFails(w)
  PROVE  Inv'
<1> DEFINE key == ClaimKey(call[w].job)
<1>0. /\ UNCHANGED <<backend, accepted, begun, calls, life, consumed, claimFiles, claimed, busy>>
      /\ claimLog' \in {claimLog, [claimLog EXCEPT !.torn = TRUE],
                        [claimLog EXCEPT !.records = @ \cup {key}]}
      /\ Leave(w)
  BY Zenon DEF LogClaimFails, nativeVars
<1> HIDE DEF key
<1>1. Moves(w, {"idle"})
  BY Zenon, <1>0, LeaveMoves DEF Inv
<1>2. LockInv'
  BY Zenon, <1>0, <1>1, LeavesLock DEF Inv, Leave
<1>3. /\ claimLog.records \subseteq claimLog'.records
      /\ claimLog' = [records |-> claimLog'.records, torn |-> claimLog'.torn]
  <2>1. CASE claimLog' = claimLog
    BY Zenon, <2>1 DEF Inv, TypeOK
  <2>2. CASE claimLog' = [claimLog EXCEPT !.torn = TRUE]
    BY Zenon, <2>2, Torn DEF Inv
  <2>3. CASE claimLog' = [claimLog EXCEPT !.records = @ \cup {key}]
    BY Zenon, <2>3, Logged DEF Inv
  <2> QED BY Zenon, <1>0, <2>1, <2>2, <2>3
<1>4. ClaimInv'
  <2>1. claimed' \subseteq claimLog'.records
    BY Zenon, <1>0, <1>3 DEF Inv, ClaimInv
  <2> QED BY Zenon, <1>0, <2>1, ClaimsGrow DEF Inv
<1>5. TypeOK'
  BY Zenon, <1>0, <1>1, <1>3 DEF Inv, TypeOK, Moves
<1>7. BegunInv'
  BY Zenon, <1>0, <1>1, BegunKept DEF Inv
<1> QED BY <1>2, <1>4, <1>5, <1>7 DEF Inv

(* The three ways in which an execution goes on under its lock: to the     *)
(* next stage, to the next participant, and the same with its share.       *)
Quiet(w) ==
    /\ UNCHANGED <<claimState, accepted, calls, busy>>
    /\ call[w].pc \in LockedStages

LEMMA AdvanceInside ==
  ASSUME Inv, NEW w \in Workers, Quiet(w), NEW s \in LockedStages, Advance(w, s),
         UNCHANGED mutex
  PROVE  Inv'
<1>1. call[w].pc # "idle" /\ s \in Stages
  BY Zenon DEF Quiet, LockedStages, Stages
<1>2. Moves(w, {s})
  BY Zenon, <1>1, AdvanceMoves DEF Inv
<1>3. Moves(w, LockedStages)
  BY Zenon, <1>2 DEF Moves
<1> QED BY Zenon, <1>3, GoesOn DEF Quiet

LEMMA TurnInside ==
  ASSUME Inv, NEW w \in Workers, Quiet(w), NEW s \in LockedStages, UNCHANGED mutex,
         call' = [call EXCEPT ![w] = NextTurn(w, s)]
  PROVE  Inv'
<1>1. call[w].pc # "idle" /\ s \in Stages
  BY Zenon DEF Quiet, LockedStages, Stages
<1>2. Moves(w, {s, call[w].pc})
  BY Zenon, <1>1, PlainTurnMoves DEF Inv
<1>3. Moves(w, LockedStages)
  BY Zenon, <1>2 DEF Moves, Quiet
<1> QED BY Zenon, <1>3, GoesOn DEF Quiet

LEMMA ShareInside ==
  ASSUME Inv, NEW w \in Workers, Quiet(w), NEW s \in LockedStages, UNCHANGED mutex,
         call' = [call EXCEPT ![w] = [NextTurn(w, s) EXCEPT !.shares = @ \cup {call[w].turn}]]
  PROVE  Inv'
<1>1. call[w].pc # "idle" /\ s \in Stages
  BY Zenon DEF Quiet, LockedStages, Stages
<1>2. call[w] \in Execution
  BY Zenon, <1>1, Executing DEF Inv
<1>3. PICK S \in SUBSET {1, 2} : S = NextTurn(w, s).shares \cup {call[w].turn}
  <2>1. NextTurn(w, s).shares = call[w].shares
    BY Zenon, <1>2 DEF NextTurn, Execution
  <2>2. call[w].shares \cup {call[w].turn} \in SUBSET {1, 2}
    BY Zenon, <1>2 DEF Execution
  <2> QED BY Zenon, <2>1, <2>2
<1>4. call' = [call EXCEPT ![w] = [NextTurn(w, s) EXCEPT !.shares = S]]
  BY Zenon, <1>3
<1>5. Moves(w, {s, call[w].pc})
  BY Zenon, <1>1, <1>4, TurnMoves DEF Inv
<1>6. Moves(w, LockedStages)
  BY Zenon, <1>5 DEF Moves, Quiet
<1> QED BY Zenon, <1>6, GoesOn DEF Quiet

LEMMA LeavesInside ==
  ASSUME Inv, NEW w \in Workers, Quiet(w), Leave(w)
  PROVE  Inv'
BY Zenon, LeavesOnly DEF Quiet

(* FROST: the spend, the rounds, and what an error leads to.               *)
LEMMA FrostStep ==
  ASSUME Inv, NEW w \in Workers,
         PrepareSpend(w) \/ RoundOne(w) \/ RoundTwo(w) \/ AbortProviders(w)
  PROVE  Inv'
<1>0. Quiet(w)
  BY Zenon DEF Quiet, PrepareSpend, RoundOne, RoundTwo, AbortProviders, claimState, nativeVars,
     LockedStages
<1>s. \A s \in {"prepare", "round one", "round two", "finalize", "abort"} : s \in LockedStages
  BY Zenon DEF LockedStages
<1>1. CASE PrepareSpend(w)
  <2>1. Leave(w) \/ (Advance(w, "round one") /\ UNCHANGED mutex)
    BY Zenon, <1>1 DEF PrepareSpend
  <2> QED BY Zenon, <1>0, <1>s, <2>1, LeavesInside, AdvanceInside
<1>2. CASE RoundOne(w)
  <2>1. /\ call' = [call EXCEPT ![w] = NextTurn(w, "round two")] \/ Advance(w, "abort")
        /\ UNCHANGED mutex
    BY Zenon, <1>2 DEF RoundOne
  <2> QED BY Zenon, <1>0, <1>s, <2>1, TurnInside, AdvanceInside
<1>3. CASE RoundTwo(w)
  BY Zenon, <1>0, <1>3, <1>s, ShareInside, AdvanceInside DEF RoundTwo
<1>4. CASE AbortProviders(w)
  BY Zenon, <1>0, <1>4, LeavesInside DEF AbortProviders
<1> QED BY Zenon, <1>1, <1>2, <1>3, <1>4

(* Chia's shares and Ergo's nonces.                                        *)
LEMMA ShareStep ==
  ASSUME Inv, NEW w \in Workers, ChiaShare(w) \/ ErgoReserve(w) \/ ErgoSign(w)
  PROVE  Inv'
<1>0. Quiet(w)
  BY Zenon DEF Quiet, ChiaShare, ErgoReserve, ErgoSign, claimState, nativeVars, LockedStages
<1>s. \A s \in {"finalize", "sign", "proof"} : s \in LockedStages
  BY Zenon DEF LockedStages
<1>1. CASE ChiaShare(w)
  BY Zenon, <1>0, <1>1, <1>s, LeavesInside, ShareInside DEF ChiaShare
<1>2. CASE ErgoReserve(w)
  BY Zenon, <1>0, <1>2, <1>s, LeavesInside, TurnInside DEF ErgoReserve
<1>3. CASE ErgoSign(w)
  BY Zenon, <1>0, <1>3, <1>s, LeavesInside, ShareInside DEF ErgoSign
<1> QED BY Zenon, <1>1, <1>2, <1>3

(* A return with a signature.                                              *)
LEMMA FinishStep ==
  ASSUME Inv, NEW w \in Workers, NEW sig, Finish(w, sig),
         call[w].pc \notin {"idle", "claim"}, UNCHANGED <<claimState, calls>>,
         busy' = busy \/ (busy = w /\ call[w].pc = "native")
  PROVE  Inv'
<1>2. Moves(w, {"idle"})
  BY Zenon, LeaveMoves DEF Inv, Finish
<1>3. LockInv'
  BY Zenon, <1>2, LeavesLock DEF Inv, Finish, Leave, claimState
<1>4. TypeOK'
  BY Zenon, <1>2 DEF Inv, TypeOK, Moves, claimState, claimVars
<1>5. BegunInv'
  BY Zenon, <1>2, BegunFinished DEF Inv, claimState
<1> QED BY Zenon, <1>3, <1>4, <1>5, ClaimsKept DEF Inv

LEMMA FinalizeStep ==
  ASSUME Inv, NEW w \in Workers, FinalizeShares(w) \/ ErgoProof(w)
  PROVE  Inv'
<1>1. /\ UNCHANGED <<claimState, calls, busy>>
      /\ call[w].pc \notin {"idle", "claim"}
  BY Zenon DEF FinalizeShares, ErgoProof, claimState, nativeVars, Signature
<1>2. CASE Finish(w, Signature(w, TRUE))
  BY Zenon, <1>1, <1>2, FinishStep
<1>3. CASE /\ call[w].pc = "proof"
           /\ call' = [call EXCEPT ![w].pc = "reserve", ![w].input = @ + 1, ![w].shares = {}]
           /\ UNCHANGED <<mutex, accepted>>
  <2>1. call[w] \in Execution /\ call \in [Workers -> {Idle} \cup Execution]
    BY Zenon, <1>3, Executing DEF Inv, TypeOK
  <2> DEFINE next == [call[w] EXCEPT !.pc = "reserve", !.input = call[w].input + 1,
                                     !.shares = {}]
  <2>2. call' = [call EXCEPT ![w] = next]
    BY Zenon, <1>3, <2>1
  <2>i. call[w].input \in Nat /\ "reserve" \in LockedStages /\ "reserve" \in Stages
    BY Zenon, <2>1 DEF Execution, Stages, LockedStages
  <2>n. call[w].input + 1 \in Nat
    BY ONLY <2>i
  <2>3. next \in Execution /\ next.pc \in LockedStages
    BY Zenon, <2>1, <2>i, <2>n DEF Execution
  <2>k. next.job = call[w].job /\ next.no = call[w].no
    BY Zenon, <2>1 DEF Execution
  <2>4. Moves(w, LockedStages)
    <3> HIDE DEF next
    <3> QED BY Zenon, <2>1, <2>2, <2>3, <2>k DEF Moves
  <2> QED BY Zenon, <1>1, <1>3, <2>4, GoesOn DEF LockedStages
<1> QED BY Zenon, <1>2, <1>3 DEF FinalizeShares, ErgoProof

(* cb-mpc: the threads and the transport are no concern of the claims.     *)
LEMMA StartPartiesStep ==
  ASSUME Inv, NEW w \in Workers, StartParties(w)
  PROVE  Inv'
<1>0. /\ call[w].pc = "start" /\ UNCHANGED <<claimState, accepted, calls>>
      /\ backend = "cbmpc"
  BY Zenon DEF StartParties, claimState, Inv, LockInv, Locked
<1>1. CASE Leave(w) /\ UNCHANGED busy
  BY Zenon, <1>0, <1>1, LeavesOnly
<1>2. CASE busy = Nobody /\ busy' = w /\ Advance(w, "native") /\ UNCHANGED mutex
  <2>1. Moves(w, {"native"})
    BY Zenon, <1>0, <1>2, AdvanceMoves DEF Inv, Stages
  <2>2. "native" \notin LockedStages
    BY Zenon DEF LockedStages
  <2>3. \A v \in Workers : busy # v
    BY Zenon, <1>2, ExecutionAssumption
  <2>4. LockInv'
    BY Zenon, <1>0, <1>2, <2>1, <2>2, <2>3 DEF Inv, LockInv, Locked, Moves, claimState
  <2> QED BY Zenon, <1>0, <2>1, <2>4, MovesOn DEF Inv
<1> QED BY Zenon, <1>1, <1>2 DEF StartParties

LEMMA JoinPartiesStep ==
  ASSUME Inv, NEW w \in Workers, JoinParties(w)
  PROVE  Inv'
<1>0. /\ call[w].pc = "native" /\ UNCHANGED <<claimState, calls>>
      /\ busy = w
  BY Zenon DEF JoinParties, claimState, Inv, LockInv, Locked
<1>1. ASSUME NEW fits, Finish(w, [Signature(w, fits) EXCEPT !.by = Participants]) PROVE Inv'
  BY Zenon, <1>0, <1>1, FinishStep
<1>2. CASE Leave(w) /\ UNCHANGED accepted
  <2>1. Moves(w, {"idle"})
    BY Zenon, <1>2, LeaveMoves DEF Inv
  <2>2. LockInv'
    BY Zenon, <1>0, <1>2, <2>1, LeavesLock DEF Inv, Leave, claimState
  <2> QED BY Zenon, <1>0, <1>2, <2>1, <2>2, MovesOn DEF Inv
<1> QED BY Zenon, <1>1, <1>2 DEF JoinParties

invVars == <<claimState, call, mutex, busy, accepted, calls>>

LEMMA NothingHappens == ASSUME Inv, UNCHANGED invVars PROVE Inv'
<1>1. UNCHANGED <<claimState, call, mutex, busy, accepted, calls>>
  BY Zenon DEF invVars
<1>2. ClaimInv'
  BY Zenon, <1>1, ClaimsKept DEF Inv
<1>3. TypeOK'
  BY Zenon, <1>1 DEF Inv, TypeOK, claimState, claimVars
<1>4. LockInv'
  BY Zenon, <1>1 DEF Inv, LockInv, Locked, claimState
<1>5. BegunInv'
  BY Zenon, <1>1 DEF Inv, BegunInv, Attempt, ClaimKey, claimState
<1> QED BY Zenon, <1>1, <1>2, <1>3, <1>4, <1>5 DEF Inv

(* A restart forgets the claims of the FROST executors, and with them the  *)
(* life they belong to; the durable ones are read back.                    *)
LEMMA RestartStep == ASSUME Inv, Restart PROVE Inv'
<1>1. /\ life' = life + 1 /\ call' = [w \in Workers |-> Idle]
      /\ claimed' = claimLog.records
      /\ UNCHANGED <<backend, claimFiles, accepted, begun, calls>>
      /\ claimLog' = claimLog \/ claimLog' = [claimLog EXCEPT !.torn = TRUE]
  BY Zenon DEF Restart, LoadClaims
<1>2. /\ claimLog'.records = claimLog.records
      /\ claimLog' = [records |-> claimLog'.records, torn |-> claimLog'.torn]
  BY Zenon, <1>1, Torn DEF Inv, TypeOK
<1>3. life \in Nat /\ life' \in Nat
  BY <1>1 DEF Inv, TypeOK
<1>4. TypeOK'
  BY Zenon, <1>1, <1>2, <1>3 DEF Inv, TypeOK
<1>5. LockInv'
  <2>1. \A w \in Workers : call'[w].pc = "idle"
    BY Zenon, <1>1, IdleIsNoExecution
  <2> QED BY Zenon, <2>1 DEF LockInv, Locked, LockedStages
<1>b. BegunInv'
  <2>1. \A w \in Workers : call'[w].pc = "idle"
    BY <1>1, IdleIsNoExecution
  <2> QED BY Zenon, <1>1, <2>1 DEF Inv, BegunInv, ClaimKey
<1>6. ClaimInv'
  <2>1. ASSUME NEW a \in begun PROVE Remembered(a)'
    <3>1. Remembered(a)
      BY Zenon DEF Inv, ClaimInv
    <3>2. a.life \in 0 .. life' /\ a.life # life'
      BY <1>1, <1>3, <3>1 DEF Remembered
    <3>3. claimed \subseteq claimed'
      BY Zenon, <1>1 DEF Inv, ClaimInv
    <3> QED BY Zenon, <1>1, <3>1, <3>2, <3>3 DEF Remembered
  <2>2. claimed' \subseteq claimLog'.records
    BY Zenon, <1>1, <1>2
  <2>3. ExecutedOnce'
    BY Zenon, <1>1 DEF Inv, ClaimInv, ExecutedOnce
  <2> QED BY Zenon, <1>1, <2>1, <2>2, <2>3 DEF ClaimInv
<1> QED BY Zenon, <1>4, <1>5, <1>b, <1>6 DEF Inv

LEMMA InvInit == ExecInit => Inv
<1> SUFFICES ASSUME ExecInit PROVE Inv
  BY Zenon
<1>1. TypeOK
  BY Zenon DEF ExecInit, TypeOK
<1>2. ClaimInv
  BY Zenon DEF ExecInit, ClaimInv, ExecutedOnce
<1>3. LockInv
  BY Zenon, IdleIsNoExecution DEF ExecInit, LockInv, Locked, LockedStages
<1>4. BegunInv
  BY Zenon, IdleIsNoExecution DEF ExecInit, BegunInv
<1> QED BY Zenon, <1>1, <1>2, <1>3, <1>4 DEF Inv

LEMMA InvStep == Inv /\ [ExecNext]_execVars => Inv'
<1> SUFFICES ASSUME Inv, [ExecNext]_execVars PROVE Inv'
  BY Zenon
<1>1. ASSUME NEW w \in Workers, NEW j \in Jobs, NEW now \in Times, Execute(w, j, now)
      PROVE  Inv'
  BY Zenon, <1>1, ExecuteStep
<1>2. ASSUME NEW w \in Workers, WorkerStep(w) PROVE Inv'
  BY Zenon, <1>2, ProcessClaimStep, FileClaimStep, LogClaimStep, LogClaimFailsStep, FrostStep,
     ShareStep, FinalizeStep, StartPartiesStep, JoinPartiesStep DEF WorkerStep
<1>3. ASSUME NEW i \in Participants, PartyStep(i) PROVE Inv'
  <2>1. UNCHANGED invVars
    BY Zenon, <1>3 DEF PartyStep, PartySend, PartyReceive, PartialReceive, ReceiveTimeout, PartyVars,
       invVars, claimState
  <2> QED BY Zenon, <2>1, NothingHappens
<1>4. CASE Cancel
  BY Zenon, <1>4, NothingHappens DEF Cancel, invVars, claimState
<1>5. CASE Restart
  BY Zenon, <1>5, RestartStep
<1>6. CASE UNCHANGED execVars
  BY Zenon, <1>6, NothingHappens DEF execVars, invVars, claimState, claimVars
<1> QED BY Zenon, <1>1, <1>2, <1>3, <1>4, <1>5, <1>6 DEF ExecNext

-----------------------------------------------------------------------------
(* What follows.                                                           *)

(* At most one request is inside an executor that has a lock, and at most  *)
(* one cb-mpc signing runs on the two shares.                              *)
OneAtATime ==
    \A v, w \in Workers :
        \/ call[v].pc \in LockedStages /\ call[w].pc \in LockedStages
        \/ call[v].pc = "native" /\ call[w].pc = "native"
        => v = w

(* Two calls never both return a signature for the same attempt, unless    *)
(* the backend is FROST and the process ended in between.                  *)
SignedOnce ==
    \A a, b \in accepted :
        ClaimKey(a.job) = ClaimKey(b.job) /\ backend \notin Frost => a.call = b.call

LEMMA InvConsequences == Inv => OneAtATime /\ SignedOnce /\ ExecutedOnce
<1> SUFFICES ASSUME Inv PROVE OneAtATime /\ SignedOnce /\ ExecutedOnce
  BY Zenon
<1>1. OneAtATime
  BY Zenon DEF Inv, LockInv, Locked, OneAtATime
<1>2. ExecutedOnce
  BY Zenon DEF Inv, ClaimInv
<1>3. ASSUME NEW a \in accepted, NEW b \in accepted, ClaimKey(a.job) = ClaimKey(b.job),
             backend \notin Frost
      PROVE  a.call = b.call
  <2>1. PICK x \in begun : x.call = a.call /\ x.key = ClaimKey(a.job)
    BY Zenon DEF Inv, BegunInv
  <2>2. PICK y \in begun : y.call = b.call /\ y.key = ClaimKey(b.job)
    BY Zenon DEF Inv, BegunInv
  <2> QED BY Zenon, <1>2, <1>3, <2>1, <2>2 DEF ExecutedOnce
<1> QED BY Zenon, <1>1, <1>2, <1>3 DEF SignedOnce

LEMMA ExecutionInvariant == ExecSpec => []Inv
<1>1. ExecSpec => ExecInit /\ [][ExecNext]_execVars
  BY Zenon DEF ExecSpec
<1> QED BY <1>1, InvInit, InvStep, PTL

(* No attempt gets past its claim twice: never for the backends whose      *)
(* claims are on disk, and not within one life of the process for FROST    *)
(* (claim_once, claim_scoped and the process claim stores).                *)
THEOREM AttemptsPassOnce == ExecSpec => []ExecutedOnce
BY ExecutionInvariant, InvConsequences, PTL

(* The executors' locks and the reservation of the cb-mpc shares exclude   *)
(* every second request from the part of execute they protect.             *)
THEOREM ExecutorsExclude == ExecSpec => []OneAtATime
BY ExecutionInvariant, InvConsequences, PTL

(* A durable claim yields the signature of at most one call, over any      *)
(* number of deliveries of the job, crashes and restarts.                  *)
THEOREM AttemptsSignOnce == ExecSpec => []SignedOnce
BY ExecutionInvariant, InvConsequences, PTL
-----------------------------------------------------------------------------
(* The nonces FROST participants of this process keep.                     *)

Rounding == {"round one", "round two", "abort"}

(* A kept nonce belongs to the lock's holder, and the first participant's  *)
(* is spent when it is the second one's turn in round two.                 *)
KeptFor(w, p, s) ==
    /\ mutex = w /\ call[w].pc \in Rounding /\ call[w].job.session = s
    /\ call[w].pc = "round two" /\ call[w].turn = 2 => p = 2

KeptInv ==
    backend \in Frost =>
        \A p \in Participants \ Remote : \A s \in pending[p] :
            \E w \in Workers : KeptFor(w, p, s)

Kept == KeptInv /\ DOMAIN pending = Participants

(* Nothing is kept while nobody is in the rounds.                          *)
NoneKept == \A p \in Participants \ Remote : pending[p] = {}

LEMMA NobodyKeeps ==
  ASSUME KeptInv, backend \in Frost, mutex = Nobody
  PROVE  NoneKept
<1>1. \A w \in Workers : mutex # w
  BY Zenon, ExecutionAssumption
<1>2. ASSUME NEW p \in Participants \ Remote, NEW s \in pending[p] PROVE FALSE
  BY Zenon, <1>1 DEF KeptInv, KeptFor
<1> QED BY Zenon, <1>2 DEF NoneKept

LEMMA OthersKeepNothing ==
  ASSUME KeptInv, backend \in Frost, NEW w \in Workers, mutex = w,
         call[w].pc \notin Rounding
  PROVE  NoneKept
BY Zenon DEF KeptInv, KeptFor, NoneKept

LEMMA StillNone ==
  ASSUME NoneKept, UNCHANGED pending PROVE KeptInv'
BY Zenon DEF NoneKept, KeptInv

LEMMA NotFrost ==
  ASSUME backend \notin Frost, UNCHANGED backend PROVE KeptInv'
BY Zenon DEF KeptInv

(* A step outside the rounds, of a request that has the lock or while      *)
(* nobody has it.                                                          *)
LEMMA OutsideRounds ==
  ASSUME Inv, Kept, NEW w \in Workers, UNCHANGED <<backend, pending>>,
         mutex = Nobody \/ call[w].pc \in LockedStages \ Rounding
  PROVE  Kept'
<1>1. CASE backend \notin Frost
  BY Zenon, <1>1, NotFrost DEF Kept
<1>2. CASE backend \in Frost
  <2>1. NoneKept
    BY Zenon, <1>2, NobodyKeeps, OthersKeepNothing DEF Kept, Inv, LockInv, Locked
  <2> QED BY Zenon, <2>1, StillNone DEF Kept
<1> QED BY Zenon, <1>1, <1>2

(* Inside the rounds everything that is kept is of the session of the      *)
(* request, which has the lock.                                            *)
LEMMA OwnSession ==
  ASSUME Inv, Kept, NEW w \in Workers, call[w].pc \in Rounding, backend \in Frost,
         NEW p \in Participants \ Remote, NEW s \in pending[p]
  PROVE  KeptFor(w, p, s)
<1>1. mutex = w
  BY Zenon DEF Inv, LockInv, Locked, Rounding, LockedStages
<1> QED BY Zenon, <1>1 DEF Kept, KeptInv, KeptFor

LEMMA RoundOneKeeps ==
  ASSUME Inv, Kept, NEW w \in Workers, RoundOne(w) PROVE Kept'
<1>0. /\ call[w].pc = "round one" /\ call[w].pc \in Rounding /\ UNCHANGED <<backend, mutex>>
      /\ call[w] \in Execution /\ call \in [Workers -> {Idle} \cup Execution]
  BY Zenon, Executing DEF RoundOne, Rounding, Inv, TypeOK
<1>1. /\ \/ pending' = pending
         \/ pending' = [pending EXCEPT ![call[w].turn] = @ \cup {call[w].job.session}]
      /\ call' = [call EXCEPT ![w] = NextTurn(w, "round two")] \/ Advance(w, "abort")
  BY Zenon DEF RoundOne
<1>2. DOMAIN pending' = Participants
  BY Zenon, <1>1 DEF Kept
<1>3. mutex' = w
  BY Zenon, <1>0 DEF Inv, LockInv, Locked, Rounding, LockedStages
<1>4. ASSUME NEW p \in Participants, NEW s \in pending'[p]
      PROVE  s \in pending[p] \/ s = call[w].job.session
  BY Zenon, <1>1, <1>4 DEF Kept
<1>5. /\ call'[w].pc \in Rounding /\ call'[w].job.session = call[w].job.session
      /\ call'[w].pc = "round two" => call'[w].turn = 1
  <2>1. CASE Advance(w, "abort")
    BY Zenon, <1>0, <2>1 DEF Advance, Execution, Rounding
  <2>2. CASE call' = [call EXCEPT ![w] = NextTurn(w, "round two")]
    <3>1. call'[w] = NextTurn(w, "round two")
      BY Zenon, <1>0, <2>2
    <3> QED BY Zenon, <1>0, <3>1 DEF NextTurn, Execution, Rounding
  <2> QED BY Zenon, <1>1, <2>1, <2>2
<1>6. ASSUME backend \in Frost, NEW p \in Participants \ Remote, NEW s \in pending'[p]
      PROVE  KeptFor(w, p, s)'
  <2>1. s = call[w].job.session
    BY Zenon, <1>0, <1>4, <1>6, OwnSession DEF KeptFor
  <2>2. 1 # 2
    OBVIOUS
  <2> QED BY Zenon, <1>3, <1>5, <2>1, <2>2 DEF KeptFor
<1> QED BY Zenon, <1>0, <1>2, <1>6 DEF Kept, KeptInv

LEMMA RoundTwoKeeps ==
  ASSUME Inv, Kept, NEW w \in Workers, RoundTwo(w) PROVE Kept'
<1> DEFINE t == call[w].turn
           ses == call[w].job.session
<1>0. /\ call[w].pc = "round two" /\ call[w].pc \in Rounding /\ UNCHANGED <<backend, mutex>>
      /\ call[w] \in Execution /\ call \in [Workers -> {Idle} \cup Execution] /\ t \in {1, 2}
  BY Zenon, Executing DEF RoundTwo, Rounding, Inv, TypeOK, Execution
<1>3. mutex' = w
  BY Zenon, <1>0 DEF Inv, LockInv, Locked, Rounding, LockedStages
<1>o. ASSUME backend \in Frost, NEW p \in Participants \ Remote, NEW s \in pending[p]
      PROVE  s = ses /\ (t = 2 => p = 2)
  BY Zenon, <1>0, <1>o, OwnSession DEF KeptFor
<1>1. CASE Advance(w, "abort") /\ (pending' = pending \/ pending' = [pending EXCEPT ![t] = @ \ {ses}])
  <2>1. call'[w].pc = "abort" /\ call'[w].job.session = ses
    BY Zenon, <1>0, <1>1 DEF Advance, Execution
  <2>2. DOMAIN pending' = Participants /\ \A p \in Participants : pending'[p] \subseteq pending[p]
    BY Zenon, <1>1 DEF Kept
  <2>3. "abort" \in Rounding /\ "abort" # "round two"
    BY Zenon DEF Rounding
  <2>4. ASSUME backend \in Frost, NEW p \in Participants \ Remote, NEW s \in pending'[p]
        PROVE  KeptFor(w, p, s)'
    <3>1. s = ses
      BY Zenon, <1>o, <2>2, <2>4
    <3> QED BY Zenon, <1>3, <2>1, <2>3, <3>1 DEF KeptFor
  <2> QED BY Zenon, <1>0, <2>2, <2>4 DEF Kept, KeptInv
<1>2. CASE /\ call' = [call EXCEPT ![w] = [NextTurn(w, "finalize") EXCEPT !.shares = @ \cup {t}]]
           /\ pending' = [pending EXCEPT ![t] = @ \ {ses}]
  <2>1. /\ DOMAIN pending' = Participants /\ \A p \in Participants : pending'[p] \subseteq pending[p]
        /\ ses \notin pending'[t]
    BY Zenon, <1>0, <1>2 DEF Kept, Participants
  <2>2. CASE t = 1
    <3>1. call'[w].pc = "round two" /\ call'[w].job.session = ses
      BY Zenon, <1>0, <1>2, <2>2 DEF NextTurn, Execution
    <3>2. ASSUME backend \in Frost, NEW p \in Participants \ Remote, NEW s \in pending'[p]
          PROVE  s = ses /\ p = 2
      BY Zenon, <1>o, <2>1, <2>2, <3>2 DEF Participants
    <3> QED BY Zenon, <1>0, <1>3, <2>1, <3>1, <3>2 DEF Kept, KeptInv, KeptFor
  <2>3. CASE t = 2
    <3>2. ASSUME backend \in Frost, NEW p \in Participants \ Remote, NEW s \in pending'[p]
          PROVE  FALSE
      BY Zenon, <1>o, <2>1, <2>3, <3>2
    <3> QED BY Zenon, <1>0, <2>1, <3>2 DEF Kept, KeptInv
  <2> QED BY Zenon, <1>0, <2>2, <2>3
<1> QED BY Zenon, <1>1, <1>2 DEF RoundTwo

LEMMA AbortForgets ==
  ASSUME Inv, Kept, NEW w \in Workers, AbortProviders(w) PROVE Kept'
<1>0. call[w].pc \in Rounding /\ UNCHANGED backend
  BY Zenon DEF AbortProviders, Rounding
<1>1. PICK lost \in SUBSET Remote :
        pending' = [p \in Participants |-> IF p \in lost THEN pending[p]
                                           ELSE pending[p] \ {call[w].job.session}]
  BY Zenon DEF AbortProviders
<1>2. ASSUME backend \in Frost, NEW p \in Participants \ Remote, NEW s \in pending'[p]
      PROVE  FALSE
  BY Zenon, <1>0, <1>1, <1>2, OwnSession DEF KeptFor
<1> QED BY Zenon, <1>0, <1>1, <1>2 DEF Kept, KeptInv

(* A request that enters is at its claim, and holds nothing.               *)
LEMMA EntersWithNothing ==
  ASSUME Inv, Kept, NEW w \in Workers, NEW j \in Jobs, NEW now \in Times, Execute(w, j, now)
  PROVE  Kept'
<1>1. /\ call[w] = Idle /\ UNCHANGED <<backend, pending, mutex>>
      /\ \A v \in Workers \ {w} : call'[v] = call[v]
  BY Zenon DEF Execute, shareVars, Inv, TypeOK
<1>2. call[w].pc \notin Rounding
  BY Zenon, <1>1, IdleIsNoExecution DEF Rounding
<1>3. ASSUME backend \in Frost, NEW p \in Participants \ Remote, NEW s \in pending[p]
      PROVE  \E v \in Workers : KeptFor(v, p, s)'
  <2>1. PICK v \in Workers : KeptFor(v, p, s)
    BY Zenon, <1>3 DEF Kept, KeptInv
  <2>2. v # w
    BY Zenon, <1>2, <2>1 DEF KeptFor
  <2> QED BY Zenon, <1>1, <2>1, <2>2 DEF KeptFor
<1> QED BY Zenon, <1>1, <1>3 DEF Kept, KeptInv

LEMMA KeptInit == ExecInit => Kept
BY Zenon DEF ExecInit, Kept, KeptInv

LEMMA KeptStep == Inv /\ Kept /\ [ExecNext]_execVars => Kept'
<1> SUFFICES ASSUME Inv, Kept, [ExecNext]_execVars PROVE Kept'
  BY Zenon
<1>1. ASSUME NEW w \in Workers, NEW j \in Jobs, NEW now \in Times, Execute(w, j, now)
      PROVE  Kept'
  BY Zenon, <1>1, EntersWithNothing
<1>2. ASSUME NEW w \in Workers, WorkerStep(w) PROVE Kept'
  <2>1. CASE ProcessClaim(w)
    BY Zenon, <2>1, OutsideRounds DEF ProcessClaim, shareVars
  <2>2. CASE FileClaim(w) \/ LogClaim(w) \/ LogClaimFails(w)
    <3>1. backend \notin Frost /\ UNCHANGED <<backend, pending>>
      BY Zenon, <2>2 DEF FileClaim, LogClaim, LogClaimFails, shareVars, Frost, FileBacked
    <3> QED BY Zenon, <3>1, NotFrost DEF Kept
  <2>3. CASE PrepareSpend(w) \/ FinalizeShares(w) \/ ChiaShare(w) \/ ErgoProof(w)
    <3>1. call[w].pc \in LockedStages \ Rounding /\ UNCHANGED <<backend, pending>>
      BY Zenon, <2>3 DEF PrepareSpend, FinalizeShares, ChiaShare, ErgoProof, shareVars,
         LockedStages, Rounding
    <3> QED BY Zenon, <3>1, OutsideRounds
  <2>4. CASE RoundOne(w) \/ RoundTwo(w) \/ AbortProviders(w)
    BY Zenon, <2>4, RoundOneKeeps, RoundTwoKeeps, AbortForgets
  <2>5. CASE ErgoReserve(w) \/ ErgoSign(w)
    <3>1. backend \notin Frost /\ UNCHANGED backend
      BY Zenon, <2>5 DEF ErgoReserve, ErgoSign, Frost
    <3>2. DOMAIN pending' = Participants
      BY Zenon, <2>5 DEF ErgoReserve, ErgoSign, Kept, shareVars
    <3> QED BY Zenon, <3>1, <3>2, NotFrost DEF Kept
  <2>6. CASE StartParties(w) \/ JoinParties(w)
    <3>1. backend \notin Frost /\ UNCHANGED <<backend, pending>>
      BY Zenon, <2>6 DEF StartParties, JoinParties, shareVars, Frost, Inv, LockInv, Locked
    <3> QED BY Zenon, <3>1, NotFrost DEF Kept
  <2> QED BY Zenon, <1>2, <2>1, <2>2, <2>3, <2>4, <2>5, <2>6 DEF WorkerStep
<1>3. CASE (\E i \in Participants : PartyStep(i)) \/ Cancel \/ UNCHANGED execVars
  <2>1. UNCHANGED <<backend, call, mutex, pending>>
    BY Zenon, <1>3 DEF PartyStep, PartySend, PartyReceive, PartialReceive, ReceiveTimeout,
       PartyVars, Cancel, execVars, shareVars
  <2>2. ASSUME NEW w \in Workers, NEW p, NEW s, KeptFor(w, p, s) PROVE KeptFor(w, p, s)'
    BY Zenon, <2>1, <2>2 DEF KeptFor
  <2> QED BY Zenon, <2>1, <2>2 DEF Kept, KeptInv
<1>4. CASE Restart
  BY Zenon, <1>4 DEF Restart, Kept, KeptInv
<1> QED BY Zenon, <1>1, <1>2, <1>3, <1>4 DEF ExecNext

(* No nonce of an abandoned FROST session stays with a participant of this *)
(* process, however its rounds ended (sign_execution and its error path).  *)
THEOREM NoncesAreInUse == ExecSpec => []KeptNoncesAreInUse
<1>1. ExecSpec => ExecInit /\ [][ExecNext]_execVars
  BY Zenon DEF ExecSpec
<1>2. Kept => KeptNoncesAreInUse
  BY Zenon DEF Kept, KeptInv, KeptFor, KeptNoncesAreInUse, Rounding
<1> QED BY <1>1, <1>2, KeptInit, KeptStep, ExecutionInvariant, PTL
=============================================================================
