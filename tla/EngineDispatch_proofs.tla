----------------------- MODULE EngineDispatch_proofs -----------------------
(***************************************************************************)
(* Theorems about EngineDispatch, for every number of threads, of callers, *)
(* of rules and of publications: types, the handshake, ranges and barrier, *)
(* results, and that it implements AtomicEngine.                           *)
(***************************************************************************)
EXTENDS EngineRefinement, FiniteSetTheorems, TLAPS

\* Loop counters are in range while their loop runs, a drained frame exists and
\* the result sets are finite: what TypeOK needs to be inductive.
CallerLoop(c) ==
  /\ pc[c] \in {"install", "bounds", "collect"} => idx[c] \in Workers
  /\ pc[c] \in {"bounds", "index"} => newRule[c] \in RuleIds
  /\ pc[c] = "drain" => Len(frames[c]) > 0
  /\ IsFiniteSet(got[c])

DtorLoop ==
  /\ dpc = "alive" => didx = 0
  /\ dpc \in {"finish", "signal", "join"} => didx \in Workers

LoopInv ==
  /\ \A c \in Callers : CallerLoop(c)
  /\ \A w \in Workers : IsFiniteSet(result[w])
  /\ DtorLoop

TypeInv == TypeOK /\ LoopInv

-----------------------------------------------------------------------------
\* The ranges that finalize and processRulePkt compute have the types TypeOK
\* asks for, and are never empty.
LEMMA RangeTypes ==
  ASSUME NEW n \in Nat, NEW w \in Workers
  PROVE  /\ RangeSize(n) \in Nat \ {0}
         /\ Lower(n, w) \in Nat
         /\ Upper(n, w) \in Nat
<1>1. /\ NumProc \in Nat \ {0}
      /\ w \in Nat
  BY ConstantsAssumption DEF Workers
<1>2. n \div NumProc \in Nat
  BY <1>1, SMT
<1>3. RangeSize(n) \in Nat \ {0}
  BY <1>2 DEF RangeSize
<1> QED
  BY <1>1, <1>3 DEF Lower, Upper

\* The state finalize builds satisfies the strengthened type invariant.
LEMMA TypeInit == Init => TypeInv
<1> SUFFICES ASSUME Init PROVE TypeInv
  OBVIOUS
<1> USE ConstantsAssumption
<1>1. \A w \in Workers : Lower(0, w) \in Nat /\ Upper(0, w) \in Nat
  BY RangeTypes
<1>2. IsFiniteSet({})
  BY FS_EmptySet
<1>3. PICK c0 \in Callers : /\ job = [w \in Workers |-> <<c0, 0>>]
                            /\ shMh = [w \in Workers |-> <<c0, 0>>]
  BY DEF Init
<1>4. CallersOK
  BY DEF Init, CallersOK, CallerStates
<1>5. ThreadsOK
  <2>1. job \in [Workers -> Jobs] /\ shMh \in [Workers -> Jobs]
    BY <1>3 DEF Jobs
  <2>2. finish \in [Workers -> BOOLEAN]
    BY DEF Init
  <2> QED
    BY <1>1, <2>1, <2>2 DEF Init, ThreadsOK, WorkerStates
<1>6. EngineOK
  <2>1. recursionNeeded \in BOOLEAN /\ ready \in BOOLEAN
    BY DEF Init
  <2> QED
    BY <2>1 DEF Init, EngineOK, DtorStates
<1>7. LoopInv
  BY <1>2 DEF Init, LoopInv, CallerLoop, DtorLoop
<1> QED
  BY <1>4, <1>5, <1>6, <1>7 DEF TypeInv, TypeOK

-----------------------------------------------------------------------------
\* Every step of the engine preserves the strengthened type invariant.
LEMMA TypeNext == TypeInv /\ [Next]_vars => TypeInv'
<1> SUFFICES ASSUME TypeInv, [Next]_vars PROVE TypeInv'
  OBVIOUS
<1> USE ConstantsAssumption
<1>1. ASSUME NEW c \in Callers, ProcessRulePkt(c) PROVE TypeInv'
  <2>a. rules \in 0 .. MaxRules /\ rules < MaxRules
    BY <1>1 DEF ProcessRulePkt, TypeInv, TypeOK, EngineOK
  <2>b. 0 \in Workers /\ rules \in RuleIds
    BY <2>a DEF Workers, RuleIds
  <2>1. pc' \in [Callers -> CallerStates]
    BY <1>1 DEF ProcessRulePkt, MayEnter, TypeInv, TypeOK, CallersOK,
       CallerStates
  <2>2. idx' \in [Callers -> 0 .. NumProc]
    BY <1>1 DEF ProcessRulePkt, MayEnter, TypeInv, TypeOK, CallersOK
  <2>3. newRule' \in [Callers -> 0 .. MaxRules]
    BY <1>1, <2>a DEF ProcessRulePkt, MayEnter, TypeInv, TypeOK, CallersOK
  <2>4. rules' \in 0 .. MaxRules
    BY <1>1, <2>a DEF ProcessRulePkt, MayEnter, TypeInv, TypeOK, EngineOK
  <2>5. recursionNeeded' \in BOOLEAN
    BY <1>1 DEF ProcessRulePkt, MayEnter, TypeInv, TypeOK, EngineOK
  <2>6. UNCHANGED <<calls, published, matching, got, frames, hits, produced, wpc, job, cur, wend,
                   shMh, lowerBound, upperBound, finish, result, stillProcessing, indexed,
                   recursionDepth, ready, dpc, didx>>
    BY <1>1 DEF ProcessRulePkt, MayEnter, callerVars, ghostVars, workerVars,
       sharedVars, engineVars, dtorVars
  <2>7. TypeOK'
    BY <2>1, <2>2, <2>3, <2>4, <2>5, <2>6 DEF TypeInv, TypeOK, CallersOK,
       ThreadsOK, EngineOK
  <2>8. ASSUME NEW d \in Callers PROVE CallerLoop(d)'
    BY <1>1, <2>6, <2>b DEF ProcessRulePkt, MayEnter, TypeInv, TypeOK,
       CallersOK, LoopInv, CallerLoop
  <2>9. \A v \in Workers : IsFiniteSet(result'[v])
    BY <2>6 DEF TypeInv, TypeOK, ThreadsOK, LoopInv
  <2>10. DtorLoop'
    BY <2>6 DEF TypeInv, TypeOK, EngineOK, LoopInv, DtorLoop
  <2> QED
    BY <2>7, <2>8, <2>9, <2>10 DEF TypeInv, LoopInv
<1>2. ASSUME NEW c \in Callers, ProcessPubPkt(c) PROVE TypeInv'
  <2>a. 0 \in Workers
    BY DEF Workers
  <2>1. idx' \in [Callers -> 0 .. NumProc]
    BY <1>2 DEF ProcessPubPkt, MayEnter, EnterPubPkt, TypeInv, TypeOK,
       CallersOK
  <2>2. pc' \in [Callers -> CallerStates]
    BY <1>2 DEF ProcessPubPkt, MayEnter, EnterPubPkt, TypeInv, TypeOK,
       CallersOK, CallerStates
  <2>3. calls' \in [Callers -> Nat]
    BY <1>2 DEF ProcessPubPkt, MayEnter, EnterPubPkt, TypeInv, TypeOK,
       CallersOK
  <2>4. matching' \in [Callers -> SUBSET RuleIds]
    BY <1>2 DEF ProcessPubPkt, MayEnter, EnterPubPkt, TypeInv, TypeOK,
       CallersOK, EngineOK
  <2>5. got' \in [Callers -> SUBSET (Jobs \X RuleIds)]
    BY <1>2 DEF ProcessPubPkt, MayEnter, EnterPubPkt, TypeInv, TypeOK,
       CallersOK
  <2>6. hits' \in [Callers -> [RuleIds -> Nat]]
    BY <1>2 DEF ProcessPubPkt, MayEnter, EnterPubPkt, TypeInv, TypeOK,
       CallersOK
  <2>7. produced' \in [Callers -> SUBSET RuleIds]
    BY <1>2 DEF ProcessPubPkt, MayEnter, EnterPubPkt, TypeInv, TypeOK,
       CallersOK
  <2>8. published' \in [Callers -> 0 .. MaxPublications]
    BY <1>2 DEF ProcessPubPkt, MayEnter, EnterPubPkt, TypeInv, TypeOK,
       CallersOK
  <2>9. recursionDepth' \in Nat
    BY <1>2 DEF ProcessPubPkt, MayEnter, EnterPubPkt, TypeInv, TypeOK, EngineOK
  <2>10. UNCHANGED <<frames, newRule, wpc, job, cur, wend, shMh, lowerBound, upperBound, finish,
                   result, stillProcessing, rules, indexed, recursionNeeded, ready, dpc, didx>>
    BY <1>2 DEF ProcessPubPkt, MayEnter, EnterPubPkt, callerVars, ghostVars,
       workerVars, sharedVars, engineVars, dtorVars
  <2>11. TypeOK'
    BY <2>1, <2>2, <2>3, <2>4, <2>5, <2>6, <2>7, <2>8, <2>9, <2>10 DEF TypeInv,
       TypeOK, CallersOK, ThreadsOK, EngineOK
  <2>12. ASSUME NEW d \in Callers PROVE CallerLoop(d)'
    BY <1>2, <2>10, <2>a, FS_EmptySet DEF ProcessPubPkt, MayEnter, EnterPubPkt,
       TypeInv, TypeOK, CallersOK, LoopInv, CallerLoop
  <2>13. \A v \in Workers : IsFiniteSet(result'[v])
    BY <2>10 DEF TypeInv, TypeOK, ThreadsOK, LoopInv
  <2>14. DtorLoop'
    BY <2>10 DEF TypeInv, TypeOK, EngineOK, LoopInv, DtorLoop
  <2> QED
    BY <2>11, <2>12, <2>13, <2>14 DEF TypeInv, LoopInv
<1>3. ASSUME NEW c \in Callers, SetBounds(c) PROVE TypeInv'
  <2>a. idx[c] \in Workers
    BY <1>3 DEF SetBounds, TypeInv, LoopInv, CallerLoop
  <2>b. /\ idx[c] + 1 \in 0 .. NumProc
        /\ idx[c] + 1 # NumProc => idx[c] + 1 \in Workers
    BY <2>a DEF Workers
  <2>d. newRule[c] \in RuleIds /\ newRule[c] + 1 \in Nat
    BY <1>3, <2>a DEF SetBounds, TypeInv, LoopInv, CallerLoop, RuleIds
  <2>c. /\ Lower(newRule[c] + 1, idx[c]) \in Nat
        /\ Upper(newRule[c] + 1, idx[c]) \in Nat
    BY <2>a, <2>d, RangeTypes
  <2>1. pc' \in [Callers -> CallerStates]
    BY <1>3 DEF SetBounds, TypeInv, TypeOK, CallersOK, CallerStates
  <2>2. idx' \in [Callers -> 0 .. NumProc]
    BY <1>3, <2>b DEF SetBounds, TypeInv, TypeOK, CallersOK
  <2>3. lowerBound' \in [Workers -> Nat]
    BY <1>3, <2>a, <2>c DEF SetBounds, TypeInv, TypeOK, ThreadsOK
  <2>4. upperBound' \in [Workers -> Nat]
    BY <1>3, <2>a, <2>c DEF SetBounds, TypeInv, TypeOK, ThreadsOK
  <2>5. UNCHANGED <<calls, published, matching, got, frames, newRule, hits, produced, wpc, job,
                   cur, wend, shMh, finish, result, stillProcessing, rules, indexed,
                   recursionDepth, recursionNeeded, ready, dpc, didx>>
    BY <1>3 DEF SetBounds, callerVars, ghostVars, workerVars, sharedVars,
       engineVars, dtorVars
  <2>6. TypeOK'
    BY <2>1, <2>2, <2>3, <2>4, <2>5 DEF TypeInv, TypeOK, CallersOK, ThreadsOK,
       EngineOK
  <2>7. ASSUME NEW d \in Callers PROVE CallerLoop(d)'
    BY <1>3, <2>5, <2>b, <2>d DEF SetBounds, TypeInv, TypeOK, CallersOK,
       LoopInv, CallerLoop
  <2>8. \A v \in Workers : IsFiniteSet(result'[v])
    BY <2>5 DEF TypeInv, TypeOK, ThreadsOK, LoopInv
  <2>9. DtorLoop'
    BY <2>5 DEF TypeInv, TypeOK, EngineOK, LoopInv, DtorLoop
  <2> QED
    BY <2>6, <2>7, <2>8, <2>9 DEF TypeInv, LoopInv
<1>4. ASSUME NEW c \in Callers, IndexRule(c) PROVE TypeInv'
  BY <1>4 DEF IndexRule, TypeInv, TypeOK, CallersOK, ThreadsOK, EngineOK,
     LoopInv, CallerLoop, DtorLoop, Workers, RuleIds, CallerStates,
     WorkerStates, DtorStates, callerVars, ghostVars, workerVars, sharedVars,
     engineVars, dtorVars
<1>5. ASSUME NEW c \in Callers, Install(c) PROVE TypeInv'
  <2>a. idx[c] \in Workers
    BY <1>5 DEF Install, TypeInv, LoopInv, CallerLoop
  <2>b. /\ idx[c] + 1 \in 0 .. NumProc
        /\ idx[c] + 1 # NumProc => idx[c] + 1 \in Workers
    BY <2>a DEF Workers
  <2>c. <<c, calls[c]>> \in Jobs
    BY DEF TypeInv, TypeOK, CallersOK, Jobs
  <2>1. pc' \in [Callers -> CallerStates]
    BY <1>5 DEF Install, SignalWorker, TypeInv, TypeOK, CallersOK, CallerStates
  <2>2. idx' \in [Callers -> 0 .. NumProc]
    BY <1>5, <2>b DEF Install, SignalWorker, TypeInv, TypeOK, CallersOK
  <2>3. shMh' \in [Workers -> Jobs]
    BY <1>5, <2>a, <2>c DEF Install, SignalWorker, TypeInv, TypeOK, ThreadsOK
  <2>4. wpc' \in [Workers -> WorkerStates]
    BY <1>5, <2>a DEF Install, SignalWorker, TypeInv, TypeOK, ThreadsOK,
       WorkerStates
  <2>5. UNCHANGED <<calls, published, matching, got, frames, newRule, hits, produced, job, cur,
                   wend, lowerBound, upperBound, finish, result, stillProcessing, rules,
                   indexed, recursionDepth, recursionNeeded, ready, dpc, didx>>
    BY <1>5 DEF Install, SignalWorker, callerVars, ghostVars, workerVars,
       sharedVars, engineVars, dtorVars
  <2>6. TypeOK'
    BY <2>1, <2>2, <2>3, <2>4, <2>5 DEF TypeInv, TypeOK, CallersOK, ThreadsOK,
       EngineOK
  <2>7. ASSUME NEW d \in Callers PROVE CallerLoop(d)'
    BY <1>5, <2>5, <2>b DEF Install, SignalWorker, TypeInv, TypeOK, CallersOK,
       LoopInv, CallerLoop
  <2>8. \A v \in Workers : IsFiniteSet(result'[v])
    BY <2>5 DEF TypeInv, TypeOK, ThreadsOK, LoopInv
  <2>9. DtorLoop'
    BY <2>5 DEF TypeInv, TypeOK, EngineOK, LoopInv, DtorLoop
  <2> QED
    BY <2>6, <2>7, <2>8, <2>9 DEF TypeInv, LoopInv
<1>6. ASSUME NEW c \in Callers, Await(c) PROVE TypeInv'
  BY <1>6 DEF Await, TypeInv, TypeOK, CallersOK, ThreadsOK, EngineOK, LoopInv,
     CallerLoop, DtorLoop, Workers, RuleIds, CallerStates, WorkerStates,
     DtorStates, callerVars, ghostVars, workerVars, sharedVars, engineVars,
     dtorVars
<1>7. ASSUME NEW c \in Callers, Resume(c) PROVE TypeInv'
  BY <1>7 DEF Resume, TypeInv, TypeOK, CallersOK, ThreadsOK, EngineOK, LoopInv,
     CallerLoop, DtorLoop, Workers, RuleIds, CallerStates, WorkerStates,
     DtorStates, callerVars, ghostVars, workerVars, sharedVars, engineVars,
     dtorVars
<1>8. ASSUME NEW c \in Callers, ResetCounter(c) PROVE TypeInv'
  <2>a. 0 \in Workers
    BY DEF Workers
  <2>1. pc' \in [Callers -> CallerStates]
    BY <1>8 DEF ResetCounter, TypeInv, TypeOK, CallersOK, CallerStates
  <2>2. idx' \in [Callers -> 0 .. NumProc]
    BY <1>8 DEF ResetCounter, TypeInv, TypeOK, CallersOK
  <2>3. stillProcessing' \in Int
    BY <1>8 DEF ResetCounter, TypeInv, TypeOK, EngineOK
  <2>4. UNCHANGED <<calls, published, matching, got, frames, newRule, hits, produced, wpc, job,
                   cur, wend, shMh, lowerBound, upperBound, finish, result, rules, indexed,
                   recursionDepth, recursionNeeded, ready, dpc, didx>>
    BY <1>8 DEF ResetCounter, callerVars, ghostVars, workerVars, sharedVars,
       engineVars, dtorVars
  <2>5. TypeOK'
    BY <2>1, <2>2, <2>3, <2>4 DEF TypeInv, TypeOK, CallersOK, ThreadsOK,
       EngineOK
  <2>6. ASSUME NEW d \in Callers PROVE CallerLoop(d)'
    BY <1>8, <2>4, <2>a DEF ResetCounter, TypeInv, TypeOK, CallersOK, LoopInv,
       CallerLoop
  <2>7. \A v \in Workers : IsFiniteSet(result'[v])
    BY <2>4 DEF TypeInv, TypeOK, ThreadsOK, LoopInv
  <2>8. DtorLoop'
    BY <2>4 DEF TypeInv, TypeOK, EngineOK, LoopInv, DtorLoop
  <2> QED
    BY <2>5, <2>6, <2>7, <2>8 DEF TypeInv, LoopInv
<1>9. ASSUME NEW c \in Callers, Collect(c) PROVE TypeInv'
  <2>a. idx[c] \in Workers
    BY <1>9 DEF Collect, TypeInv, LoopInv, CallerLoop
  <2>b. /\ idx[c] + 1 \in 0 .. NumProc
        /\ idx[c] + 1 # NumProc => idx[c] + 1 \in Workers
    BY <2>a DEF Workers
  <2>c. IsFiniteSet(got[c] \cup result[idx[c]]) /\ IsFiniteSet({})
    BY <2>a, FS_Union, FS_EmptySet DEF TypeInv, LoopInv, CallerLoop
  <2>1. pc' \in [Callers -> CallerStates]
    BY <1>9 DEF Collect, TypeInv, TypeOK, CallersOK, CallerStates
  <2>2. idx' \in [Callers -> 0 .. NumProc]
    BY <1>9, <2>b DEF Collect, TypeInv, TypeOK, CallersOK
  <2>3. got' \in [Callers -> SUBSET (Jobs \X RuleIds)]
    BY <1>9, <2>a DEF Collect, TypeInv, TypeOK, CallersOK, ThreadsOK
  <2>4. result' \in [Workers -> SUBSET (Jobs \X RuleIds)]
    BY <1>9, <2>a DEF Collect, TypeInv, TypeOK, ThreadsOK
  <2>5. UNCHANGED <<calls, published, matching, frames, newRule, hits, produced, wpc, job, cur,
                   wend, shMh, lowerBound, upperBound, finish, stillProcessing, rules, indexed,
                   recursionDepth, recursionNeeded, ready, dpc, didx>>
    BY <1>9 DEF Collect, callerVars, ghostVars, workerVars, sharedVars,
       engineVars, dtorVars
  <2>6. TypeOK'
    BY <2>1, <2>2, <2>3, <2>4, <2>5 DEF TypeInv, TypeOK, CallersOK, ThreadsOK,
       EngineOK
  <2>7. ASSUME NEW d \in Callers PROVE CallerLoop(d)'
    BY <1>9, <2>5, <2>b, <2>c DEF Collect, TypeInv, TypeOK, CallersOK, LoopInv,
       CallerLoop
  <2>8. \A v \in Workers : IsFiniteSet(result'[v])
    BY <1>9, <2>5, <2>c DEF Collect, TypeInv, TypeOK, ThreadsOK, LoopInv
  <2>9. DtorLoop'
    BY <2>5 DEF TypeInv, TypeOK, EngineOK, LoopInv, DtorLoop
  <2> QED
    BY <2>6, <2>7, <2>8, <2>9 DEF TypeInv, LoopInv
<1>10. ASSUME NEW c \in Callers, Release(c) PROVE TypeInv'
  BY <1>10 DEF Release, TypeInv, TypeOK, CallersOK, ThreadsOK, EngineOK,
     LoopInv, CallerLoop, DtorLoop, Workers, RuleIds, CallerStates,
     WorkerStates, DtorStates, callerVars, ghostVars, workerVars, sharedVars,
     engineVars, dtorVars
<1>11. ASSUME NEW c \in Callers, Notify(c) PROVE TypeInv'
  <2>a. Cardinality(got[c]) \in Nat
    BY FS_CardinalityType DEF TypeInv, LoopInv, CallerLoop
  <2>b. frames[c] \in Seq(Nat)
    BY DEF TypeInv, TypeOK, CallersOK
  <2>c. /\ Append(frames[c], Cardinality(got[c])) \in Seq(Nat)
        /\ Len(Append(frames[c], Cardinality(got[c]))) > 0
    BY <2>a, <2>b
  <2>1. pc' \in [Callers -> CallerStates]
    BY <1>11 DEF Notify, TypeInv, TypeOK, CallersOK, CallerStates
  <2>2. frames' \in [Callers -> Seq(Nat)]
    BY <1>11, <2>c DEF Notify, TypeInv, TypeOK, CallersOK
  <2>3. UNCHANGED <<idx, calls, published, matching, got, newRule, hits, produced, wpc, job, cur,
                   wend, shMh, lowerBound, upperBound, finish, result, stillProcessing, rules,
                   indexed, recursionDepth, recursionNeeded, ready, dpc, didx>>
    BY <1>11 DEF Notify, callerVars, ghostVars, workerVars, sharedVars,
       engineVars, dtorVars
  <2>4. TypeOK'
    BY <2>1, <2>2, <2>3 DEF TypeInv, TypeOK, CallersOK, ThreadsOK, EngineOK
  <2>5. ASSUME NEW d \in Callers PROVE CallerLoop(d)'
    BY <1>11, <2>3, <2>c DEF Notify, TypeInv, TypeOK, CallersOK, LoopInv,
       CallerLoop
  <2>6. \A v \in Workers : IsFiniteSet(result'[v])
    BY <2>3 DEF TypeInv, TypeOK, ThreadsOK, LoopInv
  <2>7. DtorLoop'
    BY <2>3 DEF TypeInv, TypeOK, EngineOK, LoopInv, DtorLoop
  <2> QED
    BY <2>4, <2>5, <2>6, <2>7 DEF TypeInv, LoopInv
<1>12. ASSUME NEW c \in Callers, Recurse(c) PROVE TypeInv'
  <2>a. frames[c] \in Seq(Nat) /\ Len(frames[c]) > 0
    BY <1>12 DEF Recurse, TypeInv, TypeOK, CallersOK, LoopInv, CallerLoop
  <2>b. frames[c][Len(frames[c])] \in Nat /\ frames[c][Len(frames[c])] > 0
    BY <1>12, <2>a DEF Recurse, Pending
  <2>c. /\ [frames[c] EXCEPT ![Len(frames[c])] = @ - 1] \in Seq(Nat)
        /\ Len([frames[c] EXCEPT ![Len(frames[c])] = @ - 1]) > 0
    BY <2>a, <2>b
  <2>d. 0 \in Workers
    BY DEF Workers
  <2>1. idx' \in [Callers -> 0 .. NumProc]
    BY <1>12 DEF Recurse, EnterPubPkt, TakeResult, TypeInv, TypeOK, CallersOK
  <2>2. pc' \in [Callers -> CallerStates]
    BY <1>12 DEF Recurse, EnterPubPkt, TakeResult, TypeInv, TypeOK, CallersOK,
       CallerStates
  <2>3. calls' \in [Callers -> Nat]
    BY <1>12 DEF Recurse, EnterPubPkt, TakeResult, TypeInv, TypeOK, CallersOK
  <2>4. matching' \in [Callers -> SUBSET RuleIds]
    BY <1>12 DEF Recurse, EnterPubPkt, TakeResult, TypeInv, TypeOK, CallersOK,
       EngineOK
  <2>5. got' \in [Callers -> SUBSET (Jobs \X RuleIds)]
    BY <1>12 DEF Recurse, EnterPubPkt, TakeResult, TypeInv, TypeOK, CallersOK
  <2>6. hits' \in [Callers -> [RuleIds -> Nat]]
    BY <1>12 DEF Recurse, EnterPubPkt, TakeResult, TypeInv, TypeOK, CallersOK
  <2>7. produced' \in [Callers -> SUBSET RuleIds]
    BY <1>12 DEF Recurse, EnterPubPkt, TakeResult, TypeInv, TypeOK, CallersOK
  <2>8. frames' \in [Callers -> Seq(Nat)]
    BY <1>12, <2>c DEF Recurse, EnterPubPkt, TakeResult, TypeInv, TypeOK,
       CallersOK
  <2>9. recursionDepth' \in Nat
    BY <1>12 DEF Recurse, EnterPubPkt, TakeResult, TypeInv, TypeOK, EngineOK
  <2>10. UNCHANGED <<published, newRule, wpc, job, cur, wend, shMh, lowerBound, upperBound,
                   finish, result, stillProcessing, rules, indexed, recursionNeeded, ready, dpc,
                   didx>>
    BY <1>12 DEF Recurse, EnterPubPkt, TakeResult, callerVars, ghostVars,
       workerVars, sharedVars, engineVars, dtorVars
  <2>11. TypeOK'
    BY <2>1, <2>2, <2>3, <2>4, <2>5, <2>6, <2>7, <2>8, <2>9, <2>10 DEF TypeInv,
       TypeOK, CallersOK, ThreadsOK, EngineOK
  <2>12. ASSUME NEW d \in Callers PROVE CallerLoop(d)'
    BY <1>12, <2>10, <2>d, FS_EmptySet DEF Recurse, EnterPubPkt, TakeResult,
       TypeInv, TypeOK, CallersOK, LoopInv, CallerLoop
  <2>13. \A v \in Workers : IsFiniteSet(result'[v])
    BY <2>10 DEF TypeInv, TypeOK, ThreadsOK, LoopInv
  <2>14. DtorLoop'
    BY <2>10 DEF TypeInv, TypeOK, EngineOK, LoopInv, DtorLoop
  <2> QED
    BY <2>11, <2>12, <2>13, <2>14 DEF TypeInv, LoopInv
<1>13. ASSUME NEW c \in Callers, DropResult(c) PROVE TypeInv'
  <2>a. frames[c] \in Seq(Nat) /\ Len(frames[c]) > 0
    BY <1>13 DEF DropResult, TypeInv, TypeOK, CallersOK, LoopInv, CallerLoop
  <2>b. frames[c][Len(frames[c])] \in Nat /\ frames[c][Len(frames[c])] > 0
    BY <1>13, <2>a DEF DropResult, Pending
  <2>c. /\ [frames[c] EXCEPT ![Len(frames[c])] = @ - 1] \in Seq(Nat)
        /\ Len([frames[c] EXCEPT ![Len(frames[c])] = @ - 1]) > 0
    BY <2>a, <2>b
  <2>1. frames' \in [Callers -> Seq(Nat)]
    BY <1>13, <2>c DEF DropResult, TakeResult, TypeInv, TypeOK, CallersOK
  <2>2. UNCHANGED <<pc, idx, calls, published, matching, got, newRule, hits, produced, wpc, job,
                   cur, wend, shMh, lowerBound, upperBound, finish, result, stillProcessing,
                   rules, indexed, recursionDepth, recursionNeeded, ready, dpc, didx>>
    BY <1>13 DEF DropResult, TakeResult, callerVars, ghostVars, workerVars,
       sharedVars, engineVars, dtorVars
  <2>3. TypeOK'
    BY <2>1, <2>2 DEF TypeInv, TypeOK, CallersOK, ThreadsOK, EngineOK
  <2>4. ASSUME NEW d \in Callers PROVE CallerLoop(d)'
    BY <1>13, <2>2, <2>c DEF DropResult, TakeResult, TypeInv, TypeOK,
       CallersOK, LoopInv, CallerLoop
  <2>5. \A v \in Workers : IsFiniteSet(result'[v])
    BY <2>2 DEF TypeInv, TypeOK, ThreadsOK, LoopInv
  <2>6. DtorLoop'
    BY <2>2 DEF TypeInv, TypeOK, EngineOK, LoopInv, DtorLoop
  <2> QED
    BY <2>3, <2>4, <2>5, <2>6 DEF TypeInv, LoopInv
<1>14. ASSUME NEW c \in Callers, Return(c) PROVE TypeInv'
  <2>a. frames[c] \in Seq(Nat) /\ Len(frames[c]) > 0
    BY <1>14 DEF Return, TypeInv, TypeOK, CallersOK, LoopInv, CallerLoop
  <2>b. /\ SubSeq(frames[c], 1, Len(frames[c]) - 1) \in Seq(Nat)
        /\ Len(SubSeq(frames[c], 1, Len(frames[c]) - 1)) = Len(frames[c]) - 1
        /\ Len(frames[c]) \in Nat
    BY <2>a
  <2>1. pc' \in [Callers -> CallerStates]
    BY <1>14 DEF Return, TypeInv, TypeOK, CallersOK, CallerStates
  <2>2. frames' \in [Callers -> Seq(Nat)]
    BY <1>14, <2>b DEF Return, TypeInv, TypeOK, CallersOK
  <2>3. UNCHANGED <<idx, calls, published, matching, got, newRule, hits, produced, wpc, job, cur,
                   wend, shMh, lowerBound, upperBound, finish, result, stillProcessing, rules,
                   indexed, recursionDepth, recursionNeeded, ready, dpc, didx>>
    BY <1>14 DEF Return, callerVars, ghostVars, workerVars, sharedVars,
       engineVars, dtorVars
  <2>4. TypeOK'
    BY <2>1, <2>2, <2>3 DEF TypeInv, TypeOK, CallersOK, ThreadsOK, EngineOK
  <2>5. ASSUME NEW d \in Callers PROVE CallerLoop(d)'
    BY <1>14, <2>3, <2>a, <2>b DEF Return, TypeInv, TypeOK, CallersOK, LoopInv,
       CallerLoop
  <2>6. \A v \in Workers : IsFiniteSet(result'[v])
    BY <2>3 DEF TypeInv, TypeOK, ThreadsOK, LoopInv
  <2>7. DtorLoop'
    BY <2>3 DEF TypeInv, TypeOK, EngineOK, LoopInv, DtorLoop
  <2> QED
    BY <2>4, <2>5, <2>6, <2>7 DEF TypeInv, LoopInv
<1>15. ASSUME NEW w \in Workers, LockFirst(w) PROVE TypeInv'
  BY <1>15 DEF LockFirst, TypeInv, TypeOK, CallersOK, ThreadsOK, EngineOK,
     LoopInv, CallerLoop, DtorLoop, Workers, RuleIds, CallerStates,
     WorkerStates, DtorStates, callerVars, ghostVars, workerVars, sharedVars,
     engineVars, dtorVars
<1>16. ASSUME NEW w \in Workers, Wait(w) PROVE TypeInv'
  BY <1>16 DEF Wait, TypeInv, TypeOK, CallersOK, ThreadsOK, EngineOK, LoopInv,
     CallerLoop, DtorLoop, Workers, RuleIds, CallerStates, WorkerStates,
     DtorStates, callerVars, ghostVars, workerVars, sharedVars, engineVars,
     dtorVars
<1>17. ASSUME NEW w \in Workers, Wake(w) PROVE TypeInv'
  BY <1>17 DEF Wake, TypeInv, TypeOK, CallersOK, ThreadsOK, EngineOK, LoopInv,
     CallerLoop, DtorLoop, Workers, RuleIds, CallerStates, WorkerStates,
     DtorStates, callerVars, ghostVars, workerVars, sharedVars, engineVars,
     dtorVars
<1>18. ASSUME NEW w \in Workers, LoadHandler(w) PROVE TypeInv'
  BY <1>18 DEF LoadHandler, TypeInv, TypeOK, CallersOK, ThreadsOK, EngineOK,
     LoopInv, CallerLoop, DtorLoop, Workers, RuleIds, CallerStates,
     WorkerStates, DtorStates, callerVars, ghostVars, workerVars, sharedVars,
     engineVars, dtorVars
<1>19. ASSUME NEW w \in Workers, ProcessRule(w) PROVE TypeInv'
  <2> DEFINE p == shMh[w]
             i == cur[w]
  <2>1. p[1] \in Callers /\ p \in Jobs
    BY DEF TypeInv, TypeOK, ThreadsOK, Jobs
  <2>2. cur' \in [Workers -> Nat]
    BY <1>19 DEF ProcessRule, TypeInv, TypeOK, ThreadsOK
  <2>3. UNCHANGED <<pc, idx, calls, published, matching, got, frames, newRule,
                    wpc, job, wend, shMh, lowerBound, upperBound, finish,
                    stillProcessing, rules, indexed, recursionDepth,
                    recursionNeeded, ready, dpc, didx>>
    BY <1>19 DEF ProcessRule, callerVars, engineVars, dtorVars
  <2>4. CASE UNCHANGED <<hits, produced, result>>
    BY <2>2, <2>3, <2>4 DEF TypeInv, TypeOK, CallersOK, ThreadsOK, EngineOK,
       LoopInv, CallerLoop, DtorLoop
  <2>5. CASE /\ i \in RuleIds
             /\ hits' = [hits EXCEPT ![p[1]][i] = @ + 1]
             /\ UNCHANGED <<produced, result>>
    <3>1. hits' \in [Callers -> [RuleIds -> Nat]]
      <4>0. hits[p[1]] \in [RuleIds -> Nat]
        BY <2>1 DEF TypeInv, TypeOK, CallersOK
      <4>1. [hits[p[1]] EXCEPT ![i] = @ + 1] \in [RuleIds -> Nat]
        <5> HIDE DEF p, i
        <5> QED BY <2>5, <4>0
      <4>2. hits' = [hits EXCEPT ![p[1]] = [hits[p[1]] EXCEPT ![i] = @ + 1]]
        BY <2>5
      <4> QED
        BY <2>1, <4>1, <4>2 DEF TypeInv, TypeOK, CallersOK
    <3> QED
      BY <2>2, <2>3, <2>5, <3>1 DEF TypeInv, TypeOK, CallersOK, ThreadsOK,
         EngineOK, LoopInv, CallerLoop, DtorLoop
  <2>6. CASE /\ i \in RuleIds
             /\ hits' = [hits EXCEPT ![p[1]][i] = @ + 1]
             /\ produced' = [produced EXCEPT ![p[1]] = @ \cup {i}]
             /\ result' = [result EXCEPT ![w] = @ \cup {<<p, i>>}]
    <3>1. hits' \in [Callers -> [RuleIds -> Nat]]
      <4>0. hits[p[1]] \in [RuleIds -> Nat]
        BY <2>1 DEF TypeInv, TypeOK, CallersOK
      <4>1. [hits[p[1]] EXCEPT ![i] = @ + 1] \in [RuleIds -> Nat]
        <5> HIDE DEF p, i
        <5> QED BY <2>6, <4>0
      <4>2. hits' = [hits EXCEPT ![p[1]] = [hits[p[1]] EXCEPT ![i] = @ + 1]]
        BY <2>6
      <4> QED
        BY <2>1, <4>1, <4>2 DEF TypeInv, TypeOK, CallersOK
    <3>2. produced' \in [Callers -> SUBSET RuleIds]
      BY <2>1, <2>6 DEF TypeInv, TypeOK, CallersOK
    <3>3. result' \in [Workers -> SUBSET (Jobs \X RuleIds)]
      BY <2>1, <2>6 DEF TypeInv, TypeOK, ThreadsOK
    <3>4. IsFiniteSet(result[w] \cup {<<p, i>>})
      BY FS_AddElement DEF TypeInv, LoopInv
    <3>5. \A v \in Workers : IsFiniteSet(result'[v])
      BY <2>6, <3>4 DEF TypeInv, TypeOK, ThreadsOK, LoopInv
    <3> QED
      BY <2>2, <2>3, <3>1, <3>2, <3>3, <3>5 DEF TypeInv, TypeOK, CallersOK,
         ThreadsOK, EngineOK, LoopInv, CallerLoop, DtorLoop
  <2> QED
    BY <1>19, <2>4, <2>5, <2>6 DEF ProcessRule, Evaluate, ghostVars
<1>20. ASSUME NEW w \in Workers, Report(w) PROVE TypeInv'
  <2>1. wpc' \in [Workers -> WorkerStates]
    BY <1>20 DEF Report, SignalResult, TypeInv, TypeOK, ThreadsOK, WorkerStates
  <2>2. pc' \in [Callers -> CallerStates]
    BY <1>20 DEF Report, SignalResult, TypeInv, TypeOK, CallersOK, CallerStates
  <2>3. stillProcessing' \in Int
    BY <1>20 DEF Report, SignalResult, TypeInv, TypeOK, EngineOK
  <2>4. UNCHANGED <<idx, calls, published, matching, got, frames, newRule, hits, produced, job,
                   cur, wend, shMh, lowerBound, upperBound, finish, result, rules, indexed,
                   recursionDepth, recursionNeeded, ready, dpc, didx>>
    BY <1>20 DEF Report, SignalResult, callerVars, ghostVars, workerVars,
       sharedVars, engineVars, dtorVars
  <2>5. TypeOK'
    BY <2>1, <2>2, <2>3, <2>4 DEF TypeInv, TypeOK, CallersOK, ThreadsOK,
       EngineOK
  <2>6. ASSUME NEW d \in Callers PROVE CallerLoop(d)'
    BY <1>20, <2>4 DEF Report, SignalResult, TypeInv, TypeOK, CallersOK,
       LoopInv, CallerLoop
  <2>7. \A v \in Workers : IsFiniteSet(result'[v])
    BY <2>4 DEF TypeInv, TypeOK, ThreadsOK, LoopInv
  <2>8. DtorLoop'
    BY <2>4 DEF TypeInv, TypeOK, EngineOK, LoopInv, DtorLoop
  <2> QED
    BY <2>5, <2>6, <2>7, <2>8 DEF TypeInv, LoopInv
<1>21. CASE FinalizeReturns
  BY <1>21 DEF FinalizeReturns, TypeInv, TypeOK, CallersOK, ThreadsOK,
     EngineOK, LoopInv, CallerLoop, DtorLoop, Workers, RuleIds, CallerStates,
     WorkerStates, DtorStates, callerVars, ghostVars, workerVars, sharedVars,
     engineVars, dtorVars
<1>22. CASE Destroy
  <2>a. 0 \in Workers
    BY DEF Workers
  <2>1. dpc' \in DtorStates
    BY <1>22 DEF Destroy, TypeInv, TypeOK, EngineOK, DtorStates
  <2>2. UNCHANGED <<pc, idx, calls, published, matching, got, frames, newRule, hits, produced,
                   wpc, job, cur, wend, shMh, lowerBound, upperBound, finish, result,
                   stillProcessing, rules, indexed, recursionDepth, recursionNeeded, ready,
                   didx>>
    BY <1>22 DEF Destroy, callerVars, ghostVars, workerVars, sharedVars,
       engineVars, dtorVars
  <2>3. TypeOK'
    BY <2>1, <2>2 DEF TypeInv, TypeOK, CallersOK, ThreadsOK, EngineOK
  <2>4. ASSUME NEW d \in Callers PROVE CallerLoop(d)'
    BY <1>22, <2>2 DEF Destroy, TypeInv, TypeOK, CallersOK, LoopInv, CallerLoop
  <2>5. \A v \in Workers : IsFiniteSet(result'[v])
    BY <2>2 DEF TypeInv, TypeOK, ThreadsOK, LoopInv
  <2>6. DtorLoop'
    BY <1>22, <2>2, <2>a DEF Destroy, TypeInv, TypeOK, EngineOK, LoopInv,
       DtorLoop
  <2> QED
    BY <2>3, <2>4, <2>5, <2>6 DEF TypeInv, LoopInv
<1>23. CASE SetFinish
  BY <1>23 DEF SetFinish, TypeInv, TypeOK, CallersOK, ThreadsOK, EngineOK,
     LoopInv, CallerLoop, DtorLoop, Workers, RuleIds, CallerStates,
     WorkerStates, DtorStates, callerVars, ghostVars, workerVars, sharedVars,
     engineVars, dtorVars
<1>24. CASE SignalFinish
  BY <1>24 DEF SignalFinish, SignalWorker, TypeInv, TypeOK, CallersOK,
     ThreadsOK, EngineOK, LoopInv, CallerLoop, DtorLoop, Workers, RuleIds,
     CallerStates, WorkerStates, DtorStates, callerVars, ghostVars, workerVars,
     sharedVars, engineVars, dtorVars
<1>25. CASE Join
  <2>a. didx \in 0 .. NumProc - 1
    BY <1>25 DEF Join, TypeInv, LoopInv, DtorLoop, Workers
  <2>1. dpc' \in DtorStates
    BY <1>25 DEF Join, TypeInv, TypeOK, EngineOK, DtorStates
  <2>2. didx' \in 0 .. NumProc
    BY <1>25, <2>a DEF Join, TypeInv, TypeOK, EngineOK
  <2>3. UNCHANGED <<pc, idx, calls, published, matching, got, frames, newRule, hits, produced,
                   wpc, job, cur, wend, shMh, lowerBound, upperBound, finish, result,
                   stillProcessing, rules, indexed, recursionDepth, recursionNeeded, ready>>
    BY <1>25 DEF Join, callerVars, ghostVars, workerVars, sharedVars,
       engineVars, dtorVars
  <2>4. TypeOK'
    BY <2>1, <2>2, <2>3 DEF TypeInv, TypeOK, CallersOK, ThreadsOK, EngineOK
  <2>5. ASSUME NEW d \in Callers PROVE CallerLoop(d)'
    BY <1>25, <2>3 DEF Join, TypeInv, TypeOK, CallersOK, LoopInv, CallerLoop
  <2>6. \A v \in Workers : IsFiniteSet(result'[v])
    BY <2>3 DEF TypeInv, TypeOK, ThreadsOK, LoopInv
  <2>7. DtorLoop'
    BY <1>25, <2>3, <2>a DEF Join, TypeInv, TypeOK, EngineOK, LoopInv,
       DtorLoop, Workers
  <2> QED
    BY <2>4, <2>5, <2>6, <2>7 DEF TypeInv, LoopInv
<1>26. CASE UNCHANGED vars
  BY <1>26 DEF vars, callerVars, ghostVars, workerVars, sharedVars, engineVars,
     dtorVars, TypeInv, TypeOK, CallersOK, ThreadsOK, EngineOK, LoopInv,
     CallerLoop, DtorLoop
<1> QED
  BY <1>1, <1>2, <1>3, <1>4, <1>5, <1>6, <1>7, <1>8, <1>9, <1>10, <1>11, <1>12,
     <1>13, <1>14, <1>15, <1>16, <1>17, <1>18, <1>19, <1>20, <1>21, <1>22,
     <1>23, <1>24, <1>25, <1>26 DEF Next, CallerStep, WorkerStep, DtorStep,
     Gone

\* Type correctness: in every reachable state every variable of the engine is
\* in its range; no loop counter, thread index or recursion frame overruns.
THEOREM TypeCorrect == Spec => []TypeOK
<1>1. TypeInv => TypeOK
  BY DEF TypeInv
<1> QED
  BY TypeInit, TypeNext, <1>1, PTL DEF Spec

-----------------------------------------------------------------------------
(***************************************************************************)
(* The handshake between processPubPkt and the threads, for every number   *)
(* of threads: where each thread can be while a call is in progress, and   *)
(* that stillProcessing counts the threads that have not yet reported.     *)
(* The engine is used as the server uses it (ServerUse); without that the  *)
(* runs EngineConcurrent and EngineStartup show the handshake broken.      *)
(***************************************************************************)

\* How the engine is used: one caller at a time, and none before the threads
\* wait.
ServerUse == SerializedCalls /\ StartupSettled

\* A caller is between the index lookup and the reset of the counter.
Dispatching == {"install", "await", "blocked", "signalled", "reset"}

Resting == {"locked", "waiting"}
Busy    == {"woken", "load", "process"}

\* Nobody is between the lookup and the reset.
Quiet == \A c \in Callers : pc[c] \notin Dispatching

\* The threads that have not yet counted themselves out for the packet of c.
Unreported(c) == {w \in Workers : w >= idx[c] \/ wpc[w] \in Busy}

\* Calls do not overlap, and none begins before finalize has returned or after
\* the destructor has begun.
SingleCaller ==
  /\ \A c, d \in Callers : pc[c] # "idle" /\ pc[d] # "idle" => c = d
  /\ ~ready => dpc = "alive"
  /\ ~ready \/ dpc # "alive" => \A c \in Callers : pc[c] = "idle"

\* The caller's loop has reached every thread.
LoopDone ==
  \A c \in Callers :
    pc[c] \in {"await", "blocked", "signalled", "reset"} => idx[c] = NumProc

\* Where the threads can be.
ThreadsInv ==
  /\ ~ready => \A w \in Workers : wpc[w] \in {"start", "locked", "waiting"}
  /\ (ready /\ dpc = "alive" /\ Quiet) => \A w \in Workers : wpc[w] \in Resting
  /\ dpc # "alive" => \A w \in Workers :
       /\ wpc[w] \in Resting \cup {"woken", "exited"}
       /\ wpc[w] = "woken" => finish[w]
  /\ dpc = "alive" => \A w \in Workers : ~finish[w]
  /\ \A w \in Workers : dpc \in {"signal"} /\ w = didx => finish[w]
  /\ \A c \in Callers : pc[c] \in Dispatching => \A w \in Workers :
       /\ wpc[w] \in Resting \cup Busy
       /\ w >= idx[c] => wpc[w] \in Resting
       /\ pc[c] \in {"signalled", "reset"} => wpc[w] \in Resting

\* What stillProcessing counts.
CounterInv ==
  /\ Quiet => stillProcessing = NumProc
  /\ \A c \in Callers : pc[c] \in Dispatching =>
       stillProcessing = Cardinality(Unreported(c))

\* A busy thread works on the packet of the call in progress.
JobsInv ==
  \A c \in Callers : pc[c] \in Dispatching => \A w \in Workers :
    /\ wpc[w] \in Busy => shMh[w] = <<c, calls[c]>>
    /\ wpc[w] = "process" => job[w] = shMh[w]

\* The inductive invariant of the handshake.
ProtocolInv == SingleCaller /\ LoopDone /\ ThreadsInv /\ CounterInv /\ JobsInv

\* There are NumProc threads.
LEMMA WorkersFinite == IsFiniteSet(Workers) /\ Cardinality(Workers) = NumProc
  BY ConstantsAssumption, FS_Interval DEF Workers

\* The threads a caller waits for are a finite set.
LEMMA UnreportedFinite == \A c \in Callers : IsFiniteSet(Unreported(c))
<1> TAKE c \in Callers
<1>1. Unreported(c) \in SUBSET Workers
  BY DEF Unreported
<1> QED
  BY <1>1, WorkersFinite, FS_Subset

-----------------------------------------------------------------------------
\* Every step preserves the protocol invariant.
LEMMA ProtocolNext ==
  ASSUME ServerUse, TypeInv, ProtocolInv, [Next]_vars
  PROVE  ProtocolInv'
<1> USE ConstantsAssumption
<1>s. SerializedCalls /\ StartupSettled
  BY DEF ServerUse
<1>t. /\ pc \in [Callers -> CallerStates]
      /\ idx \in [Callers -> 0 .. NumProc]
      /\ calls \in [Callers -> Nat]
      /\ wpc \in [Workers -> WorkerStates]
      /\ job \in [Workers -> Jobs]
      /\ shMh \in [Workers -> Jobs]
      /\ finish \in [Workers -> BOOLEAN]
      /\ stillProcessing \in Int
      /\ dpc \in DtorStates
      /\ didx \in 0 .. NumProc
  BY DEF TypeInv, TypeOK, CallersOK, ThreadsOK, EngineOK
<1>l. /\ \A c \in Callers :
           pc[c] \in {"install", "bounds", "collect"} => idx[c] \in Workers
      /\ dpc \in {"finish", "signal", "join"} => didx \in Workers
  BY DEF TypeInv, LoopInv, CallerLoop, DtorLoop
<1>i. SingleCaller /\ LoopDone /\ ThreadsInv /\ CounterInv /\ JobsInv
  BY DEF ProtocolInv
<1>1. CASE FinalizeReturns
  BY <1>1, <1>s, <1>t, <1>l, <1>i, SMTT(30) DEF FinalizeReturns, callerVars,
     workerVars, sharedVars, engineVars, dtorVars, ProtocolInv, SingleCaller,
     LoopDone, ThreadsInv, CounterInv, JobsInv, Dispatching, Resting, Busy,
     Quiet, Unreported, Workers
<1>2. ASSUME NEW c \in Callers, ProcessRulePkt(c) PROVE ProtocolInv'
  BY <1>2, <1>s, <1>t, <1>l, <1>i, SMTT(30) DEF ProcessRulePkt, MayEnter,
     callerVars, workerVars, sharedVars, engineVars, dtorVars, ProtocolInv,
     SingleCaller, LoopDone, ThreadsInv, CounterInv, JobsInv, Dispatching,
     Resting, Busy, Quiet, Unreported, Workers
<1>3. ASSUME NEW c \in Callers, SetBounds(c) PROVE ProtocolInv'
  BY <1>3, <1>s, <1>t, <1>l, <1>i, SMTT(30) DEF SetBounds, ProcessMutexFree,
     callerVars, workerVars, sharedVars, engineVars, dtorVars, ProtocolInv,
     SingleCaller, LoopDone, ThreadsInv, CounterInv, JobsInv, Dispatching,
     Resting, Busy, Quiet, Unreported, Workers
<1>4. ASSUME NEW c \in Callers, IndexRule(c) PROVE ProtocolInv'
  BY <1>4, <1>s, <1>t, <1>l, <1>i, SMTT(30) DEF IndexRule, callerVars,
     workerVars, sharedVars, engineVars, dtorVars, ProtocolInv, SingleCaller,
     LoopDone, ThreadsInv, CounterInv, JobsInv, Dispatching, Resting, Busy,
     Quiet, Unreported, Workers
<1>5. ASSUME NEW c \in Callers, ProcessPubPkt(c) PROVE ProtocolInv'
  <2>u. UNCHANGED <<wpc, job, shMh, finish, stillProcessing, ready, dpc, didx>>
    BY <1>5 DEF ProcessPubPkt, MayEnter, EnterPubPkt, callerVars, ghostVars,
       workerVars, sharedVars, engineVars, dtorVars
  <2>o. /\ ready /\ dpc = "alive" /\ Quiet
        /\ \A d \in Callers : d # c => pc[d] = "idle"
    BY <1>5, <1>s, <1>i DEF ProcessPubPkt, MayEnter, SingleCaller, Quiet,
       Dispatching
  <2>p. /\ pc' = [pc EXCEPT ![c] = "install"]
        /\ idx' = [idx EXCEPT ![c] = 0]
    BY <1>5 DEF ProcessPubPkt, EnterPubPkt
  <2>r. \A w \in Workers : wpc[w] \in Resting
    BY <2>o, <1>i DEF ThreadsInv
  <2>1. SingleCaller'
    BY <1>5, <1>s, <1>t, <1>l, <1>i, <2>u DEF ProcessPubPkt, MayEnter,
       EnterPubPkt, SingleCaller, Dispatching, Resting, Busy, Quiet, Workers
  <2>2. LoopDone'
    BY <1>5, <1>s, <1>t, <1>l, <1>i, <2>u DEF ProcessPubPkt, MayEnter,
       EnterPubPkt, LoopDone, Dispatching, Resting, Busy, Quiet, Workers
  <2>3. ThreadsInv'
    BY <1>t, <1>i, <2>u, <2>o, <2>p, <2>r DEF ThreadsInv, Dispatching,
       Resting, Quiet
  <2>4. CounterInv'
    <3>1. Unreported(c)' = Workers
      BY <1>t, <2>u, <2>p DEF Unreported, Workers
    <3>2. stillProcessing = NumProc
      BY <2>o, <1>i DEF CounterInv
    <3> QED
      BY <1>t, <2>u, <2>o, <2>p, <3>1, <3>2, WorkersFinite DEF CounterInv,
         Quiet, Dispatching
  <2>5. JobsInv'
    BY <1>t, <2>u, <2>o, <2>p, <2>r DEF JobsInv, Dispatching, Resting, Busy
  <2> QED
    BY <2>1, <2>2, <2>3, <2>4, <2>5 DEF ProtocolInv
<1>6. ASSUME NEW c \in Callers, Install(c) PROVE ProtocolInv'
  <2>u. UNCHANGED <<calls, job, finish, stillProcessing, ready, dpc, didx>>
    BY <1>6 DEF Install, ProcessMutexFree, SignalWorker, callerVars,
       ghostVars, workerVars, sharedVars, engineVars, dtorVars
  <2>o. /\ ready /\ dpc = "alive"
        /\ \A d \in Callers : d # c => pc[d] = "idle"
    BY <1>6, <1>i DEF Install, SingleCaller
  <2>i. idx[c] \in Workers /\ idx[c] \in Int
    BY <1>6, <1>l, <1>t DEF Install
  <2>w. wpc[idx[c]] = "waiting"
    BY <1>6, <2>i, <1>i DEF Install, ProcessMutexFree, ThreadsInv,
       Dispatching, Resting
  <2>p. /\ wpc' = [wpc EXCEPT ![idx[c]] = "woken"]
        /\ idx' = [idx EXCEPT ![c] = idx[c] + 1]
        /\ shMh' = [shMh EXCEPT ![idx[c]] = <<c, calls[c]>>]
        /\ pc[c] = "install"
        /\ pc' \in [Callers -> CallerStates]
        /\ pc'[c] \in {"install", "await"}
        /\ \A d \in Callers : d # c => pc'[d] = "idle"
    BY <1>6, <1>t, <2>o, <2>w DEF Install, SignalWorker, CallerStates
  <2>1. SingleCaller'
    BY <1>6, <1>s, <1>t, <1>l, <1>i, <2>u DEF Install, ProcessMutexFree,
       SignalWorker, SingleCaller, Dispatching, Resting, Busy, Quiet, Workers
  <2>2. LoopDone'
    BY <1>6, <1>s, <1>t, <1>l, <1>i, <2>u DEF Install, ProcessMutexFree,
       SignalWorker, LoopDone, Dispatching, Resting, Busy, Quiet, Workers
  <2>3. ThreadsInv'
    <3>1. ASSUME NEW d \in Callers, (pc[d] \in Dispatching)', NEW w \in Workers
          PROVE  /\ wpc'[w] \in Resting \cup Busy
                 /\ w >= idx'[d] => wpc'[w] \in Resting
                 /\ pc'[d] \notin {"signalled", "reset"}
      BY <3>1, <1>t, <2>i, <2>p, <1>i DEF ThreadsInv, Dispatching, Resting,
         Busy, Workers
    <3>2. ~Quiet'
      BY <2>p DEF Quiet, Dispatching
    <3> QED
      BY <1>i, <2>u, <2>o, <3>1, <3>2 DEF ThreadsInv
  <2>4. CounterInv'
    <3>1. Unreported(c)' = Unreported(c)
      BY <1>t, <2>i, <2>w, <2>p DEF Unreported, Busy, Workers
    <3> QED
      BY <1>i, <2>u, <2>p, <3>1 DEF CounterInv, Quiet, Dispatching
  <2>5. JobsInv'
    <3> SUFFICES ASSUME NEW w \in Workers
                 PROVE  /\ wpc'[w] \in Busy => shMh'[w] = <<c, calls[c]>>
                        /\ wpc'[w] = "process" => job[w] = shMh'[w]
      BY <2>u, <2>p DEF JobsInv, Dispatching
    <3>1. CASE w = idx[c]
      BY <3>1, <1>t, <2>i, <2>p
    <3>2. CASE w # idx[c]
      BY <3>2, <1>t, <1>i, <2>i, <2>p DEF JobsInv, Dispatching
    <3> QED
      BY <3>1, <3>2
  <2> QED
    BY <2>1, <2>2, <2>3, <2>4, <2>5 DEF ProtocolInv
<1>7. ASSUME NEW c \in Callers, Await(c) PROVE ProtocolInv'
  <2>u. UNCHANGED <<idx, calls, wpc, job, shMh, finish, stillProcessing,
                    ready, dpc, didx>>
    BY <1>7 DEF Await, callerVars, ghostVars, workerVars, sharedVars,
       engineVars, dtorVars
  <2>o. /\ ready /\ dpc = "alive" /\ idx[c] = NumProc /\ pc[c] = "await"
        /\ \A d \in Callers : d # c => pc[d] = "idle"
    BY <1>7, <1>i DEF Await, SingleCaller, LoopDone
  <2>p. /\ pc' = [pc EXCEPT ![c] = IF stillProcessing # 0 THEN "blocked" ELSE "reset"]
        /\ pc'[c] \in {"blocked", "reset"}
    BY <1>7, <1>t DEF Await
  <2>1. SingleCaller'
    BY <1>7, <1>s, <1>t, <1>l, <1>i, <2>u DEF Await, SingleCaller,
       Dispatching, Resting, Busy, Quiet, Workers
  <2>2. LoopDone'
    BY <1>7, <1>s, <1>t, <1>l, <1>i, <2>u DEF Await, LoopDone, Dispatching,
       Resting, Busy, Quiet, Workers
  <2>3. ThreadsInv'
    <3>1. \A w \in Workers : wpc[w] \in Resting \cup Busy
      BY <2>o, <1>i DEF ThreadsInv, Dispatching
    <3>2. ASSUME NEW w \in Workers, pc'[c] = "reset" PROVE wpc[w] \in Resting
      <4>1. Cardinality(Unreported(c)) = 0
        BY <3>2, <2>o, <2>p, <1>i, <1>t DEF CounterInv, Dispatching
      <4>2. Unreported(c) = {}
        BY <4>1, UnreportedFinite, FS_EmptySet
      <4> QED
        BY <4>2, <3>1 DEF Unreported
    <3>3. \A w \in Workers : ~(w >= idx[c])
      BY <2>o DEF Workers
    <3>4. ~Quiet'
      BY <2>p DEF Quiet, Dispatching
    <3> QED
      BY <1>t, <1>i, <2>u, <2>o, <2>p, <3>1, <3>2, <3>3, <3>4 DEF ThreadsInv,
         Dispatching
  <2>4. CounterInv'
    BY <1>7, <1>s, <1>t, <1>l, <1>i, <2>u DEF Await, CounterInv, Dispatching,
       Resting, Busy, Quiet, Unreported, Workers
  <2>5. JobsInv'
    BY <1>7, <1>s, <1>t, <1>l, <1>i, <2>u DEF Await, JobsInv, Dispatching,
       Resting, Busy, Quiet, Workers
  <2> QED
    BY <2>1, <2>2, <2>3, <2>4, <2>5 DEF ProtocolInv
<1>8. ASSUME NEW c \in Callers, Resume(c) PROVE ProtocolInv'
  BY <1>8, <1>s, <1>t, <1>l, <1>i, SMTT(30) DEF Resume, callerVars,
     workerVars, sharedVars, engineVars, dtorVars, ProtocolInv, SingleCaller,
     LoopDone, ThreadsInv, CounterInv, JobsInv, Dispatching, Resting, Busy,
     Quiet, Unreported, Workers
<1>9. ASSUME NEW c \in Callers, ResetCounter(c) PROVE ProtocolInv'
  <2>u. UNCHANGED <<calls, wpc, job, shMh, finish, ready, dpc, didx>>
    BY <1>9 DEF ResetCounter, callerVars, ghostVars, workerVars, sharedVars,
       engineVars, dtorVars
  <2>1. SingleCaller'
    BY <1>9, <1>s, <1>t, <1>l, <1>i, <2>u DEF ResetCounter, SingleCaller,
       Dispatching, Resting, Busy, Quiet, Workers
  <2>2. LoopDone'
    BY <1>9, <1>s, <1>t, <1>l, <1>i, <2>u DEF ResetCounter, LoopDone,
       Dispatching, Resting, Busy, Quiet, Workers
  <2>3. ThreadsInv'
    BY <1>9, <1>s, <1>t, <1>l, <1>i, <2>u DEF ResetCounter, ThreadsInv,
       Dispatching, Resting, Busy, Quiet, Workers
  <2>4. CounterInv'
    BY <1>9, <1>s, <1>t, <1>i, <2>u DEF ResetCounter, SingleCaller,
       CounterInv, Quiet, Dispatching
  <2>5. JobsInv'
    BY <1>9, <1>s, <1>t, <1>l, <1>i, <2>u DEF ResetCounter, JobsInv,
       Dispatching, Resting, Busy, Quiet, Workers
  <2> QED
    BY <2>1, <2>2, <2>3, <2>4, <2>5 DEF ProtocolInv
<1>10. ASSUME NEW c \in Callers, Collect(c) PROVE ProtocolInv'
  <2>u. UNCHANGED <<calls, wpc, job, shMh, finish, stillProcessing, ready,
                    dpc, didx>>
    BY <1>10 DEF Collect, callerVars, ghostVars, workerVars, sharedVars,
       engineVars, dtorVars
  <2>1. SingleCaller'
    BY <1>10, <1>s, <1>t, <1>l, <1>i, <2>u DEF Collect, SingleCaller,
       Dispatching, Resting, Busy, Quiet, Workers
  <2>2. LoopDone'
    BY <1>10, <1>s, <1>t, <1>l, <1>i, <2>u DEF Collect, LoopDone, Dispatching,
       Resting, Busy, Quiet, Workers
  <2>3. ThreadsInv'
    BY <1>10, <1>s, <1>t, <1>l, <1>i, <2>u DEF Collect, ThreadsInv,
       Dispatching, Resting, Busy, Quiet, Workers
  <2>4. CounterInv'
    BY <1>10, <1>s, <1>t, <1>l, <1>i, <2>u DEF Collect, CounterInv,
       Dispatching, Resting, Busy, Quiet, Unreported, Workers
  <2>5. JobsInv'
    BY <1>10, <1>s, <1>t, <1>l, <1>i, <2>u DEF Collect, JobsInv, Dispatching,
       Resting, Busy, Quiet, Workers
  <2> QED
    BY <2>1, <2>2, <2>3, <2>4, <2>5 DEF ProtocolInv
<1>11. ASSUME NEW c \in Callers, Release(c) PROVE ProtocolInv'
  BY <1>11, <1>s, <1>t, <1>l, <1>i, SMTT(30) DEF Release, callerVars,
     workerVars, sharedVars, engineVars, dtorVars, ProtocolInv, SingleCaller,
     LoopDone, ThreadsInv, CounterInv, JobsInv, Dispatching, Resting, Busy,
     Quiet, Unreported, Workers
<1>12. ASSUME NEW c \in Callers, Notify(c) PROVE ProtocolInv'
  BY <1>12, <1>s, <1>t, <1>l, <1>i, SMTT(30) DEF Notify, callerVars,
     workerVars, sharedVars, engineVars, dtorVars, ProtocolInv, SingleCaller,
     LoopDone, ThreadsInv, CounterInv, JobsInv, Dispatching, Resting, Busy,
     Quiet, Unreported, Workers
<1>13. ASSUME NEW c \in Callers, Recurse(c) PROVE ProtocolInv'
  <2>u. UNCHANGED <<wpc, job, shMh, finish, stillProcessing, ready, dpc, didx>>
    BY <1>13 DEF Recurse, EnterPubPkt, TakeResult, callerVars, ghostVars,
       workerVars, sharedVars, engineVars, dtorVars
  <2>o. /\ ready /\ dpc = "alive" /\ Quiet
        /\ \A d \in Callers : d # c => pc[d] = "idle"
    BY <1>13, <1>s, <1>i DEF Recurse, SingleCaller, Quiet, Dispatching
  <2>p. /\ pc' = [pc EXCEPT ![c] = "install"]
        /\ idx' = [idx EXCEPT ![c] = 0]
    BY <1>13 DEF Recurse, EnterPubPkt
  <2>r. \A w \in Workers : wpc[w] \in Resting
    BY <2>o, <1>i DEF ThreadsInv
  <2>1. SingleCaller'
    BY <1>t, <2>u, <2>o, <2>p DEF SingleCaller
  <2>2. LoopDone'
    BY <1>13, <1>s, <1>t, <1>l, <1>i, <2>u DEF Recurse, EnterPubPkt,
       TakeResult, LoopDone, Dispatching, Resting, Busy, Quiet, Workers
  <2>3. ThreadsInv'
    BY <1>t, <1>i, <2>u, <2>o, <2>p, <2>r DEF ThreadsInv, Dispatching,
       Resting, Quiet
  <2>4. CounterInv'
    <3>1. Unreported(c)' = Workers
      BY <1>t, <2>u, <2>p DEF Unreported, Workers
    <3>2. stillProcessing = NumProc
      BY <2>o, <1>i DEF CounterInv
    <3> QED
      BY <1>t, <2>u, <2>o, <2>p, <3>1, <3>2, WorkersFinite DEF CounterInv,
         Quiet, Dispatching
  <2>5. JobsInv'
    BY <1>t, <2>u, <2>o, <2>p, <2>r DEF JobsInv, Dispatching, Resting, Busy
  <2> QED
    BY <2>1, <2>2, <2>3, <2>4, <2>5 DEF ProtocolInv
<1>14. ASSUME NEW c \in Callers, DropResult(c) PROVE ProtocolInv'
  BY <1>14, <1>s, <1>t, <1>l, <1>i, SMTT(30) DEF DropResult, TakeResult,
     callerVars, workerVars, sharedVars, engineVars, dtorVars, ProtocolInv,
     SingleCaller, LoopDone, ThreadsInv, CounterInv, JobsInv, Dispatching,
     Resting, Busy, Quiet, Unreported, Workers
<1>15. ASSUME NEW c \in Callers, Return(c) PROVE ProtocolInv'
  BY <1>15, <1>s, <1>t, <1>l, <1>i, SMTT(30) DEF Return, callerVars,
     workerVars, sharedVars, engineVars, dtorVars, ProtocolInv, SingleCaller,
     LoopDone, ThreadsInv, CounterInv, JobsInv, Dispatching, Resting, Busy,
     Quiet, Unreported, Workers
<1>16. ASSUME NEW w \in Workers, LockFirst(w) PROVE ProtocolInv'
  <2>u. UNCHANGED <<pc, idx, calls, job, shMh, finish, stillProcessing, ready,
                    dpc, didx>>
    BY <1>16 DEF LockFirst, callerVars, ghostVars, workerVars, sharedVars,
       engineVars, dtorVars
  <2>1. SingleCaller'
    BY <1>16, <1>s, <1>t, <1>l, <1>i, <2>u DEF LockFirst, SingleCaller,
       Dispatching, Resting, Busy, Quiet, Workers
  <2>2. LoopDone'
    BY <1>16, <1>s, <1>t, <1>l, <1>i, <2>u DEF LockFirst, LoopDone,
       Dispatching, Resting, Busy, Quiet, Workers
  <2>3. ThreadsInv'
    BY <1>16, <1>s, <1>t, <1>l, <1>i, <2>u DEF LockFirst, ThreadsInv,
       Dispatching, Resting, Busy, Quiet, Workers
  <2>4. CounterInv'
    BY <1>16, <1>s, <1>t, <1>l, <1>i, <2>u DEF LockFirst, CounterInv,
       Dispatching, Resting, Busy, Quiet, Unreported, Workers
  <2>5. JobsInv'
    BY <1>16, <1>s, <1>t, <1>l, <1>i, <2>u DEF LockFirst, JobsInv,
       Dispatching, Resting, Busy, Quiet, Workers
  <2> QED
    BY <2>1, <2>2, <2>3, <2>4, <2>5 DEF ProtocolInv
<1>17. ASSUME NEW w \in Workers, Wait(w) PROVE ProtocolInv'
  <2>u. UNCHANGED <<pc, idx, calls, job, shMh, finish, stillProcessing, ready,
                    dpc, didx>>
    BY <1>17 DEF Wait, callerVars, ghostVars, workerVars, sharedVars,
       engineVars, dtorVars
  <2>1. SingleCaller'
    BY <1>17, <1>s, <1>t, <1>l, <1>i, <2>u DEF Wait, SingleCaller,
       Dispatching, Resting, Busy, Quiet, Workers
  <2>2. LoopDone'
    BY <1>17, <1>s, <1>t, <1>l, <1>i, <2>u DEF Wait, LoopDone, Dispatching,
       Resting, Busy, Quiet, Workers
  <2>3. ThreadsInv'
    BY <1>17, <1>s, <1>t, <1>l, <1>i, <2>u DEF Wait, ThreadsInv, Dispatching,
       Resting, Busy, Quiet, Workers
  <2>4. CounterInv'
    BY <1>17, <1>s, <1>t, <1>l, <1>i, <2>u DEF Wait, CounterInv, Dispatching,
       Resting, Busy, Quiet, Unreported, Workers
  <2>5. JobsInv'
    BY <1>17, <1>s, <1>t, <1>l, <1>i, <2>u DEF Wait, JobsInv, Dispatching,
       Resting, Busy, Quiet, Workers
  <2> QED
    BY <2>1, <2>2, <2>3, <2>4, <2>5 DEF ProtocolInv
<1>18. ASSUME NEW w \in Workers, Wake(w) PROVE ProtocolInv'
  <2>u. UNCHANGED <<pc, idx, calls, job, shMh, finish, stillProcessing, ready,
                    dpc, didx>>
    BY <1>18 DEF Wake, callerVars, ghostVars, workerVars, sharedVars,
       engineVars, dtorVars
  <2>o. /\ wpc[w] = "woken"
        /\ wpc' = [wpc EXCEPT ![w] = IF finish[w] THEN "exited" ELSE "load"]
    BY <1>18 DEF Wake
  <2>p. ASSUME dpc # "alive" PROVE ThreadsInv' /\ CounterInv' /\ JobsInv'
    <3>1. ready /\ Quiet /\ \A c \in Callers : pc[c] = "idle"
      BY <2>p, <1>i DEF SingleCaller, Quiet, Dispatching
    <3>2. wpc' = [wpc EXCEPT ![w] = "exited"]
      BY <2>o, <2>p, <1>i DEF ThreadsInv
    <3>3. ThreadsInv'
      BY <1>t, <1>i, <2>u, <2>p, <3>1, <3>2 DEF ThreadsInv, Quiet,
         Dispatching, Resting
    <3>4. CounterInv' /\ JobsInv'
      BY <1>i, <2>u, <3>1 DEF CounterInv, JobsInv, Quiet, Dispatching
    <3> QED
      BY <3>3, <3>4
  <2>q. ASSUME dpc = "alive" PROVE ThreadsInv' /\ CounterInv' /\ JobsInv'
    <3>1. wpc' = [wpc EXCEPT ![w] = "load"]
      BY <2>o, <2>q, <1>i DEF ThreadsInv
    <3>2. ready /\ ~Quiet
      BY <2>o, <2>q, <1>i DEF ThreadsInv, Resting
    <3>3. ThreadsInv'
      BY <1>t, <1>i, <2>o, <2>u, <2>q, <3>1, <3>2 DEF ThreadsInv, Quiet,
         Resting, Busy
    <3>4. \A c \in Callers : Unreported(c)' = Unreported(c)
      BY <1>t, <2>o, <2>u, <3>1 DEF Unreported, Busy
    <3>5. CounterInv'
      BY <1>i, <2>u, <3>4 DEF CounterInv, Quiet
    <3>6. JobsInv'
      BY <1>t, <1>i, <2>o, <2>u, <3>1 DEF JobsInv, Busy
    <3> QED
      BY <3>3, <3>5, <3>6
  <2>1. SingleCaller'
    BY <1>18, <1>s, <1>t, <1>l, <1>i, <2>u DEF Wake, SingleCaller,
       Dispatching, Resting, Busy, Quiet, Workers
  <2>2. LoopDone'
    BY <1>18, <1>s, <1>t, <1>l, <1>i, <2>u DEF Wake, LoopDone, Dispatching,
       Resting, Busy, Quiet, Workers
  <2>3. ThreadsInv'
    BY <2>p, <2>q
  <2>4. CounterInv'
    BY <2>p, <2>q
  <2>5. JobsInv'
    BY <2>p, <2>q
  <2> QED
    BY <2>1, <2>2, <2>3, <2>4, <2>5 DEF ProtocolInv
<1>19. ASSUME NEW w \in Workers, LoadHandler(w) PROVE ProtocolInv'
  <2>u. UNCHANGED <<pc, idx, calls, shMh, finish, stillProcessing, ready, dpc,
                    didx>>
    BY <1>19 DEF LoadHandler, callerVars, ghostVars, workerVars, sharedVars,
       engineVars, dtorVars
  <2>1. SingleCaller'
    BY <1>19, <1>s, <1>t, <1>l, <1>i, <2>u DEF LoadHandler, SingleCaller,
       Dispatching, Resting, Busy, Quiet, Workers
  <2>2. LoopDone'
    BY <1>19, <1>s, <1>t, <1>l, <1>i, <2>u DEF LoadHandler, LoopDone,
       Dispatching, Resting, Busy, Quiet, Workers
  <2>3. ThreadsInv'
    BY <1>19, <1>s, <1>t, <1>l, <1>i, <2>u DEF LoadHandler, ThreadsInv,
       Dispatching, Resting, Busy, Quiet, Workers
  <2>4. CounterInv'
    BY <1>19, <1>s, <1>t, <1>l, <1>i, <2>u DEF LoadHandler, CounterInv,
       Dispatching, Resting, Busy, Quiet, Unreported, Workers
  <2>5. JobsInv'
    BY <1>19, <1>s, <1>t, <1>l, <1>i, <2>u DEF LoadHandler, JobsInv,
       Dispatching, Resting, Busy, Quiet, Workers
  <2> QED
    BY <2>1, <2>2, <2>3, <2>4, <2>5 DEF ProtocolInv
<1>20. ASSUME NEW w \in Workers, ProcessRule(w) PROVE ProtocolInv'
  <2>u. UNCHANGED <<pc, idx, calls, wpc, job, shMh, finish, stillProcessing,
                    ready, dpc, didx>>
    BY <1>20 DEF ProcessRule, Evaluate, callerVars, ghostVars, workerVars,
       sharedVars, engineVars, dtorVars
  <2>1. SingleCaller'
    BY <1>20, <1>s, <1>t, <1>l, <1>i, <2>u DEF ProcessRule, Evaluate,
       SingleCaller, Dispatching, Resting, Busy, Quiet, Workers
  <2>2. LoopDone'
    BY <1>20, <1>s, <1>t, <1>l, <1>i, <2>u DEF ProcessRule, Evaluate,
       LoopDone, Dispatching, Resting, Busy, Quiet, Workers
  <2>3. ThreadsInv'
    BY <1>20, <1>s, <1>t, <1>l, <1>i, <2>u DEF ProcessRule, Evaluate,
       ThreadsInv, Dispatching, Resting, Busy, Quiet, Workers
  <2>4. CounterInv'
    BY <1>20, <1>s, <1>t, <1>l, <1>i, <2>u DEF ProcessRule, Evaluate,
       CounterInv, Dispatching, Resting, Busy, Quiet, Unreported, Workers
  <2>5. JobsInv'
    BY <1>20, <1>s, <1>t, <1>l, <1>i, <2>u DEF ProcessRule, Evaluate, JobsInv,
       Dispatching, Resting, Busy, Quiet, Workers
  <2> QED
    BY <2>1, <2>2, <2>3, <2>4, <2>5 DEF ProtocolInv
<1>21. ASSUME NEW w \in Workers, Report(w) PROVE ProtocolInv'
  <2>u. UNCHANGED <<idx, calls, job, shMh, finish, ready, dpc, didx>>
    BY <1>21 DEF Report, SignalResult, callerVars, ghostVars, workerVars,
       sharedVars, engineVars, dtorVars
  <2>o. /\ wpc[w] = "process"
        /\ wpc' = [wpc EXCEPT ![w] = "locked"]
        /\ stillProcessing' = stillProcessing - 1
    BY <1>21 DEF Report
  <2>a. dpc = "alive" /\ ready /\ ~Quiet
    BY <2>o, <1>i DEF ThreadsInv, Resting
  <2>b. PICK c \in Callers : pc[c] \in Dispatching
    BY <2>a DEF Quiet
  <2>c. \A d \in Callers : d # c => pc[d] = "idle"
    BY <2>b, <1>i DEF SingleCaller, Dispatching
  <2>d. /\ \A v \in Workers : wpc[v] \in Resting \cup Busy
        /\ \A v \in Workers : v >= idx[c] => wpc[v] \in Resting
        /\ pc[c] \in {"install", "await", "blocked"}
    BY <2>b, <2>o, <1>i DEF ThreadsInv, Dispatching, Resting
  <2>e. /\ IsFiniteSet(Unreported(c))
        /\ stillProcessing = Cardinality(Unreported(c))
        /\ w \in Unreported(c)
    BY <2>b, <2>o, <1>i, UnreportedFinite DEF CounterInv, Unreported, Busy
  <2>f. Unreported(c)' = Unreported(c) \ {w}
    BY <1>t, <2>o, <2>u, <2>d DEF Unreported, Resting, Busy
  <2>g. Cardinality(Unreported(c)') = stillProcessing'
    <3>1. Cardinality(Unreported(c) \ {w}) = Cardinality(Unreported(c)) - 1
      BY <2>e, FS_RemoveElement
    <3> QED
      BY <3>1, <2>e, <2>f, <2>o
  <2>h. pc' = pc \/ (stillProcessing = 1 /\ pc[c] = "blocked"
                     /\ pc' = [pc EXCEPT ![c] = "signalled"])
    BY <1>21, <2>c DEF Report, SignalResult
  <2>i. /\ pc'[c] \in {"install", "await", "blocked", "signalled"}
        /\ \A d \in Callers : d # c => pc'[d] = "idle"
    BY <1>t, <2>c, <2>d, <2>h
  <2>j. ASSUME pc'[c] = "signalled" PROVE \A v \in Workers : wpc'[v] \in Resting
    <3>1. stillProcessing' = 0
      BY <2>h, <2>j, <2>d, <2>o
    <3>2. Unreported(c)' = {}
      BY <3>1, <2>e, <2>f, <2>g, FS_RemoveElement, FS_EmptySet
    <3>3. \A v \in Workers : wpc'[v] \in Resting \cup Busy
      BY <1>t, <2>o, <2>d DEF Resting
    <3> QED
      BY <3>2, <3>3 DEF Unreported
  <2>1. SingleCaller'
    BY <1>t, <1>i, <2>u, <2>a, <2>c, <2>i DEF SingleCaller
  <2>2. LoopDone'
    BY <1>t, <1>i, <2>u, <2>d, <2>h, <2>i DEF LoopDone
  <2>3. ThreadsInv'
    <3>1. ~Quiet'
      BY <2>i DEF Quiet, Dispatching
    <3>2. /\ \A v \in Workers : wpc'[v] \in Resting \cup Busy
          /\ \A v \in Workers : v >= idx[c] => wpc'[v] \in Resting
      BY <1>t, <2>o, <2>d DEF Resting
    <3> QED
      BY <1>i, <2>u, <2>a, <2>i, <2>j, <3>1, <3>2 DEF ThreadsInv, Dispatching
  <2>4. CounterInv'
    BY <2>g, <2>i DEF CounterInv, Quiet, Dispatching
  <2>5. JobsInv'
    BY <1>t, <1>i, <2>u, <2>o, <2>b, <2>i DEF JobsInv, Dispatching, Busy
  <2> QED
    BY <2>1, <2>2, <2>3, <2>4, <2>5 DEF ProtocolInv
<1>22. CASE Destroy
  BY <1>22, <1>s, <1>t, <1>l, <1>i, SMTT(30) DEF Destroy, callerVars,
     workerVars, sharedVars, engineVars, dtorVars, ProtocolInv, SingleCaller,
     LoopDone, ThreadsInv, CounterInv, JobsInv, Dispatching, Resting, Busy,
     Quiet, Unreported, Workers
<1>23. CASE SetFinish
  BY <1>23, <1>s, <1>t, <1>l, <1>i, SMTT(30) DEF SetFinish, callerVars,
     workerVars, sharedVars, engineVars, dtorVars, ProtocolInv, SingleCaller,
     LoopDone, ThreadsInv, CounterInv, JobsInv, Dispatching, Resting, Busy,
     Quiet, Unreported, Workers
<1>24. CASE SignalFinish
  <2>u. UNCHANGED <<pc, idx, calls, job, shMh, finish, stillProcessing, ready,
                    didx>>
    BY <1>24 DEF SignalFinish, ProcessMutexFree, SignalWorker, callerVars,
       ghostVars, workerVars, sharedVars, engineVars, dtorVars
  <2>o. /\ ready /\ Quiet /\ \A c \in Callers : pc[c] = "idle"
        /\ dpc = "signal" /\ didx \in Workers /\ finish[didx]
    BY <1>24, <1>l, <1>i DEF SignalFinish, SingleCaller, ThreadsInv, Quiet,
       Dispatching
  <2>p. wpc' = [wpc EXCEPT ![didx] = "woken"] \/ wpc' = wpc
    BY <1>24, <1>t DEF SignalFinish, SignalWorker
  <2>1. SingleCaller'
    BY <1>24, <1>s, <1>t, <1>l, <1>i, <2>u DEF SignalFinish, ProcessMutexFree,
       SignalWorker, SingleCaller, Dispatching, Resting, Busy, Quiet, Workers
  <2>2. LoopDone'
    BY <1>24, <1>s, <1>t, <1>l, <1>i, <2>u DEF SignalFinish, ProcessMutexFree,
       SignalWorker, LoopDone, Dispatching, Resting, Busy, Quiet, Workers
  <2>3. ThreadsInv'
    <3>1. dpc' = "join"
      BY <1>24 DEF SignalFinish
    <3>2. \A w \in Workers : /\ wpc'[w] \in Resting \cup {"woken", "exited"}
                             /\ wpc'[w] = "woken" => finish[w]
      BY <1>t, <1>i, <2>o, <2>p DEF ThreadsInv
    <3> QED
      BY <2>u, <2>o, <3>1, <3>2 DEF ThreadsInv, Dispatching
  <2>4. CounterInv'
    BY <1>i, <2>u, <2>o DEF CounterInv, Quiet, Dispatching
  <2>5. JobsInv'
    BY <2>u, <2>o DEF JobsInv, Dispatching
  <2> QED
    BY <2>1, <2>2, <2>3, <2>4, <2>5 DEF ProtocolInv
<1>25. CASE Join
  BY <1>25, <1>s, <1>t, <1>l, <1>i, SMTT(30) DEF Join, callerVars, workerVars,
     sharedVars, engineVars, dtorVars, ProtocolInv, SingleCaller, LoopDone,
     ThreadsInv, CounterInv, JobsInv, Dispatching, Resting, Busy, Quiet,
     Unreported, Workers
<1>26. CASE UNCHANGED vars
  BY <1>26, <1>i DEF vars, callerVars, ghostVars, workerVars, sharedVars,
     engineVars, dtorVars, ProtocolInv, SingleCaller, LoopDone, ThreadsInv,
     CounterInv, JobsInv, Dispatching, Resting, Busy, Quiet, Unreported
<1> QED
  BY <1>1, <1>2, <1>3, <1>4, <1>5, <1>6, <1>7, <1>8, <1>9, <1>10, <1>11,
     <1>12, <1>13, <1>14, <1>15, <1>16, <1>17, <1>18, <1>19, <1>20, <1>21,
     <1>22, <1>23, <1>24, <1>25, <1>26 DEF Next, CallerStep, WorkerStep,
     DtorStep, Gone

\* The state finalize builds satisfies the protocol invariant.
LEMMA ProtocolInit == Init => ProtocolInv
  BY ConstantsAssumption DEF Init, ProtocolInv, SingleCaller, LoopDone,
     ThreadsInv, CounterInv, JobsInv, Quiet, Dispatching

-----------------------------------------------------------------------------
\* recursionDepth counts the nested calls: a caller has at most one frame more
\* than that, and none once its call has returned.
DepthInv ==
  /\ recursionDepth <= MaxRecursionDepth
  /\ \A c \in Callers :
       /\ pc[c] \in {"idle", "bounds", "index"} => Len(frames[c]) = 0
       /\ Len(frames[c]) <= recursionDepth + (IF pc[c] = "drain" THEN 1 ELSE 0)

\* Every step preserves the invariant on the recursion.
LEMMA DepthNext ==
  ASSUME ServerUse, TypeInv, ProtocolInv, DepthInv, [Next]_vars
  PROVE  DepthInv'
<1> USE ConstantsAssumption
<1>s. SerializedCalls
  BY DEF ServerUse
<1>t. /\ pc \in [Callers -> CallerStates]
      /\ frames \in [Callers -> Seq(Nat)]
      /\ recursionDepth \in Nat /\ MaxRecursionDepth \in Nat
      /\ \A c \in Callers : Len(frames[c]) \in Nat
  BY DEF TypeInv, TypeOK, CallersOK, EngineOK
<1>p. SingleCaller
  BY DEF ProtocolInv
\* A step that leaves the frames and the depth alone.
<1>f. ASSUME UNCHANGED <<frames, recursionDepth>>,
             \A c \in Callers :
               /\ pc'[c] = "drain" <=> pc[c] = "drain"
               /\ pc'[c] \in {"idle", "bounds", "index"} => pc[c] \in {"idle", "bounds", "index"}
      PROVE  DepthInv'
  BY <1>f DEF DepthInv
<1>1. ASSUME NEW c \in Callers, ProcessRulePkt(c) \/ SetBounds(c) \/ IndexRule(c) PROVE DepthInv'
  <2>1. UNCHANGED <<frames, recursionDepth>>
    BY <1>1 DEF ProcessRulePkt, SetBounds, IndexRule, engineVars
  <2>2. pc[c] \in {"idle", "bounds", "index"} /\ pc'[c] \in {"idle", "bounds", "index"}
    BY <1>1, <1>t DEF ProcessRulePkt, SetBounds, IndexRule, MayEnter
  <2>3. \A d \in Callers : d # c => pc'[d] = pc[d]
    BY <1>1, <1>t DEF ProcessRulePkt, SetBounds, IndexRule
  <2> QED
    BY <2>1, <2>2, <2>3, <1>f
<1>2. ASSUME NEW c \in Callers, Install(c) \/ Await(c) \/ Resume(c) \/ ResetCounter(c)
                                \/ Collect(c) \/ Release(c)
      PROVE  DepthInv'
  <2>1. UNCHANGED <<frames, recursionDepth>>
    BY <1>2 DEF Install, Await, Resume, ResetCounter, Collect, Release,
       engineVars
  <2>2. pc[c] \in Owning /\ pc'[c] \in Owning \cup {"notify"}
    BY <1>2, <1>t DEF Install, Await, Resume, ResetCounter, Collect, Release,
       Owning
  <2>3. \A d \in Callers : d # c => pc'[d] = pc[d]
    BY <1>2, <1>t DEF Install, Await, Resume, ResetCounter, Collect, Release
  <2> QED
    BY <2>1, <2>2, <2>3, <1>f DEF Owning
<1>3. ASSUME NEW w \in Workers, WorkerStep(w) PROVE DepthInv'
  <2>1. UNCHANGED <<frames, recursionDepth>>
    BY <1>3 DEF WorkerStep, LockFirst, Wait, Wake, LoadHandler, ProcessRule,
       Report, callerVars, engineVars
  <2>2. \A c \in Callers : pc'[c] = pc[c] \/ (pc[c] = "blocked" /\ pc'[c] = "signalled")
    BY <1>3, <1>t DEF WorkerStep, LockFirst, Wait, Wake, LoadHandler,
       ProcessRule, Report, SignalResult, callerVars
  <2> QED
    BY <2>1, <2>2, <1>f
<1>4. CASE FinalizeReturns \/ Destroy \/ DtorStep \/ UNCHANGED vars
  <2>1. UNCHANGED <<pc, frames, recursionDepth>>
    BY <1>4 DEF FinalizeReturns, Destroy, DtorStep, SetFinish, SignalFinish,
       Join, vars, callerVars, engineVars
  <2> QED
    BY <2>1, <1>f
<1>5. ASSUME NEW c \in Callers, ProcessPubPkt(c) PROVE DepthInv'
  <2>1. \A d \in Callers : pc[d] = "idle"
    BY <1>5, <1>s DEF ProcessPubPkt, MayEnter
  <2>2. /\ recursionDepth' = 0 /\ frames' = frames
        /\ pc' = [pc EXCEPT ![c] = "install"]
    BY <1>5 DEF ProcessPubPkt, EnterPubPkt
  <2>3. \A d \in Callers : Len(frames[d]) = 0
    BY <2>1 DEF DepthInv
  <2> QED
    BY <1>t, <2>2, <2>3 DEF DepthInv
<1>6. ASSUME NEW c \in Callers, Notify(c) PROVE DepthInv'
  <2>1. pc[c] = "notify" /\ \A d \in Callers : d # c => pc[d] = "idle"
    BY <1>6, <1>p DEF Notify, SingleCaller
  <2>2. /\ recursionDepth' = recursionDepth
        /\ pc' = [pc EXCEPT ![c] = "drain"]
        /\ frames' = [frames EXCEPT ![c] = Append(frames[c], Cardinality(got[c]))]
    BY <1>6 DEF Notify, engineVars
  <2>3. Len(frames'[c]) = Len(frames[c]) + 1
    BY <1>t, <2>2
  <2> QED
    BY <1>t, <2>1, <2>2, <2>3 DEF DepthInv
<1>7. ASSUME NEW c \in Callers, Recurse(c) \/ DropResult(c) PROVE DepthInv'
  <2>1. pc[c] = "drain" /\ \A d \in Callers : d # c => pc[d] = "idle"
    BY <1>7, <1>p DEF Recurse, DropResult, SingleCaller
  <2>2. frames' = [frames EXCEPT ![c] = [frames[c] EXCEPT ![Len(frames[c])] = @ - 1]]
    BY <1>7 DEF Recurse, DropResult, TakeResult
  <2>3. Len(frames'[c]) = Len(frames[c])
    BY <1>t, <2>2
  <2>4. CASE Recurse(c)
    <3>1. /\ recursionDepth' = recursionDepth + 1 /\ recursionDepth < MaxRecursionDepth
          /\ pc' = [pc EXCEPT ![c] = "install"]
      BY <2>4 DEF Recurse, MayRecurse, EnterPubPkt
    <3> QED
      BY <1>t, <2>1, <2>2, <2>3, <3>1 DEF DepthInv
  <2>5. CASE DropResult(c)
    <3>1. UNCHANGED <<pc, recursionDepth>>
      BY <2>5 DEF DropResult, engineVars
    <3> QED
      BY <1>t, <2>1, <2>2, <2>3, <3>1 DEF DepthInv
  <2> QED
    BY <1>7, <2>4, <2>5
<1>8. ASSUME NEW c \in Callers, Return(c) PROVE DepthInv'
  <2>1. /\ pc[c] = "drain" /\ Len(frames[c]) > 0
        /\ \A d \in Callers : d # c => pc[d] = "idle"
    BY <1>8, <1>p DEF Return, SingleCaller, TypeInv, LoopInv, CallerLoop
  <2>2. /\ recursionDepth' = recursionDepth
        /\ pc' = [pc EXCEPT ![c] = IF Len(frames[c]) = 1 THEN "idle" ELSE "drain"]
        /\ frames' = [frames EXCEPT ![c] = SubSeq(frames[c], 1, Len(frames[c]) - 1)]
    BY <1>8, <2>1 DEF Return, engineVars
  <2>3. Len(frames'[c]) = Len(frames[c]) - 1
    <3>1. frames'[c] = SubSeq(frames[c], 1, Len(frames[c]) - 1)
      BY <1>t, <2>2
    <3>2. frames[c] \in Seq(Nat) /\ Len(frames[c]) > 0
      BY <1>t, <2>1
    <3>3. Len(SubSeq(frames[c], 1, Len(frames[c]) - 1)) = Len(frames[c]) - 1
      BY <3>2
    <3> QED
      BY <3>1, <3>3
  <2> QED
    BY <1>t, <2>1, <2>2, <2>3 DEF DepthInv
<1> QED
  BY <1>1, <1>2, <1>3, <1>4, <1>5, <1>6, <1>7, <1>8 DEF Next, CallerStep, Gone

\* However the rules' cycles feed results back, processPubPkt never nests deeper
\* than MAX_RECURSION_DEPTH: one frame per active call.
THEOREM RecursionCorrect == ServerUse => (Spec => []RecursionBounded)
<1> SUFFICES ASSUME ServerUse PROVE Spec => []RecursionBounded
  OBVIOUS
<1>1. Init => DepthInv
  BY ConstantsAssumption DEF Init, DepthInv
<1>2. TypeInv /\ ProtocolInv /\ DepthInv /\ [Next]_vars => DepthInv'
  BY DepthNext
<1>3. TypeInv /\ DepthInv => RecursionBounded
  <2> SUFFICES ASSUME TypeInv, DepthInv, NEW c \in Callers
               PROVE  Len(frames[c]) <= MaxRecursionDepth + 1
    BY DEF RecursionBounded
  <2>1. Len(frames[c]) \in Nat /\ recursionDepth \in Nat /\ MaxRecursionDepth \in Nat
    BY ConstantsAssumption DEF TypeInv, TypeOK, CallersOK, EngineOK
  <2>2. /\ recursionDepth <= MaxRecursionDepth
        /\ Len(frames[c]) <= recursionDepth + 1
    BY <2>1 DEF DepthInv
  <2> QED
    BY <2>1, <2>2
<1>4. TypeInv /\ ProtocolInv /\ [Next]_vars => ProtocolInv'
  BY ProtocolNext
<1> QED
  BY TypeInit, TypeNext, ProtocolInit, <1>1, <1>2, <1>3, <1>4, PTL DEF Spec

-----------------------------------------------------------------------------
(* What the handshake is for: the ranges of processRulePkt give every rule *)
(* to one thread, and when processPubPkt is past its wait every rule that  *)
(* the packet matches has processed it exactly once.                       *)

\* A caller whose packet has not yet been handed to the listeners.
Reporting == Dispatching \cup {"collect", "release", "notify"}

\* The ranges are those of the rules installed, as far as processRulePkt has got.
BoundsInv ==
  /\ indexed \subseteq 0 .. rules - 1
  /\ \A c \in Callers : pc[c] \in {"bounds", "index"} => newRule[c] = rules - 1
  /\ \A w \in Workers :
       (\A c \in Callers : pc[c] = "bounds" => w < idx[c]) =>
         lowerBound[w] = Lower(rules, w) /\ upperBound[w] = Upper(rules, w)
  /\ \A c \in Callers : pc[c] \in Reporting => matching[c] \subseteq indexed

\* How far a thread has got in its range.
ScanInv ==
  \A w \in Workers :
    /\ wpc[w] = "load" => cur[w] = lowerBound[w]
    /\ wpc[w] = "process" => lowerBound[w] <= cur[w]
    /\ wpc[w] \in {"load", "process"} => wend[w] = upperBound[w]

\* Thread w has passed rule r with the packet of c.
Passed(c, w, r) ==
  /\ lowerBound[w] <= r /\ r < upperBound[w]
  /\ w < idx[c]
  /\ wpc[w] \in Resting \/ (wpc[w] = "process" /\ r < cur[w])

\* A rule has processed the packet once if it matches and its thread has passed
\* it, else not at all.
HitsInv ==
  \A c \in Callers : \A r \in RuleIds :
    /\ pc[c] \in Dispatching =>
         hits[c][r] = IF r \in matching[c] /\ \E w \in Workers : Passed(c, w, r)
                      THEN 1 ELSE 0
    /\ pc[c] \in {"collect", "release"} =>
         hits[c][r] = IF r \in matching[c] THEN 1 ELSE 0

\* The inductive invariant of the ranges and of the loops over them.
RangeInv == BoundsInv /\ ScanInv /\ HitsInv

\* The ranges of two threads do not overlap.
LEMMA RangesDisjoint ==
  ASSUME NEW n \in Nat, NEW v \in Workers, NEW w \in Workers, v < w
  PROVE  Upper(n, v) <= Lower(n, w)
<1> DEFINE s == RangeSize(n)
           d == w - (v + 1)
<1>1. s \in Nat /\ v \in Nat /\ w \in Nat /\ d \in Nat
  BY RangeTypes, ConstantsAssumption DEF Workers
<1>2. w = (v + 1) + d
  BY <1>1
<1> HIDE DEF s, d
<1>3. s * ((v + 1) + d) = s * (v + 1) + s * d /\ s * d \in Nat /\ s * (v + 1) \in Nat
  BY <1>1
<1>4. s * (v + 1) <= s * w
  BY <1>2, <1>3
<1> QED
  BY <1>4 DEF Upper, Lower, s

\* Every rule is in the range of a thread.
LEMMA RangesCover ==
  ASSUME NEW n \in Nat, NEW r \in 0 .. n - 1
  PROVE  \E w \in Workers : Lower(n, w) <= r /\ r < Upper(n, w)
<1> DEFINE s == RangeSize(n)
           w == r \div s
<1>1. NumProc \in Nat \ {0} /\ 0 \in Workers
  BY ConstantsAssumption DEF Workers
<1>2. s \in Nat \ {0}
  BY <1>1, RangeTypes
<1>3. s * w <= r /\ r < s * (w + 1) /\ w \in Nat
  BY <1>2
<1>4. n < NumProc * s
  <2> DEFINE q == n \div NumProc
  <2>1. q \in Nat /\ n = NumProc * q + (n % NumProc) /\ (n % NumProc) \in 0 .. NumProc - 1
    BY <1>1
  <2>2. s = q + 1
    BY DEF RangeSize
  <2> HIDE DEF q, s
  <2>3. NumProc * s = NumProc * q + NumProc
    BY <1>1, <2>1, <2>2
  <2> QED
    BY <1>1, <2>1, <2>3
<1>5. w < NumProc
  <2> SUFFICES ASSUME w >= NumProc PROVE FALSE
    BY <1>1, <1>3
  <2> HIDE DEF s, w
  <2>1. w = NumProc + (w - NumProc) /\ w - NumProc \in Nat
    BY <1>1, <1>3
  <2>2. s * w = s * NumProc + s * (w - NumProc) /\ s * (w - NumProc) \in Nat
    BY <1>1, <1>2, <2>1
  <2>3. s * NumProc = NumProc * s
    BY <1>1, <1>2
  <2> QED
    BY <1>1, <1>2, <1>3, <1>4, <2>2, <2>3
<1> QED
  BY <1>1, <1>3, <1>5 DEF Lower, Upper, Workers

-----------------------------------------------------------------------------
\* Every step preserves the range invariant.
LEMMA RangeNext ==
  ASSUME ServerUse, TypeInv, ProtocolInv, RangeInv, [Next]_vars
  PROVE  RangeInv'
<1> USE ConstantsAssumption
<1>s. SerializedCalls
  BY DEF ServerUse
<1>t. /\ pc \in [Callers -> CallerStates]
      /\ idx \in [Callers -> 0 .. NumProc]
      /\ calls \in [Callers -> Nat]
      /\ matching \in [Callers -> SUBSET RuleIds]
      /\ newRule \in [Callers -> 0 .. MaxRules]
      /\ hits \in [Callers -> [RuleIds -> Nat]]
      /\ wpc \in [Workers -> WorkerStates]
      /\ job \in [Workers -> Jobs]
      /\ shMh \in [Workers -> Jobs]
      /\ cur \in [Workers -> Nat]
      /\ wend \in [Workers -> Nat]
      /\ lowerBound \in [Workers -> Nat]
      /\ upperBound \in [Workers -> Nat]
      /\ rules \in 0 .. MaxRules
      /\ indexed \in SUBSET RuleIds
      /\ MaxRules \in Nat
  BY DEF TypeInv, TypeOK, CallersOK, ThreadsOK, EngineOK
<1>l. \A c \in Callers :
        pc[c] \in {"install", "bounds", "collect"} => idx[c] \in Workers
  BY DEF TypeInv, LoopInv, CallerLoop
<1>i. BoundsInv /\ ScanInv /\ HitsInv
  BY DEF RangeInv
<1>p. SingleCaller /\ LoopDone /\ ThreadsInv /\ CounterInv /\ JobsInv
  BY DEF ProtocolInv
<1>1. CASE FinalizeReturns
  BY <1>1, <1>s, <1>t, <1>l, <1>i, SMTT(30) DEF FinalizeReturns, callerVars,
     ghostVars, workerVars, sharedVars, engineVars, dtorVars, RangeInv,
     BoundsInv, ScanInv, HitsInv, Reporting, Passed, Resting, Dispatching
<1>2. ASSUME NEW c \in Callers, ProcessRulePkt(c) PROVE RangeInv'
  <2>u. UNCHANGED <<calls, matching, hits, wpc, job, cur, wend, shMh,
                    lowerBound, upperBound, indexed>>
    BY <1>2 DEF ProcessRulePkt, MayEnter, callerVars, ghostVars, workerVars,
       sharedVars, engineVars, dtorVars
  <2>o. \A d \in Callers : pc[d] = "idle"
    BY <1>2, <1>s DEF ProcessRulePkt, MayEnter
  <2>p. /\ rules' = rules + 1
        /\ newRule' = [newRule EXCEPT ![c] = rules]
        /\ pc' = [pc EXCEPT ![c] = "bounds"]
        /\ idx' = [idx EXCEPT ![c] = 0]
    BY <1>2 DEF ProcessRulePkt
  <2>1. BoundsInv'
    <3>1. indexed' \subseteq 0 .. rules' - 1
      BY <1>t, <1>i, <2>u, <2>p DEF BoundsInv
    <3>2. \A d \in Callers : pc'[d] \in {"bounds", "index"} => newRule'[d] = rules' - 1
      BY <1>t, <2>o, <2>p
    <3>3. \A w \in Workers : pc'[c] = "bounds" /\ ~(w < idx'[c])
      BY <1>t, <2>p DEF Workers
    <3>4. \A d \in Callers : pc'[d] \notin Reporting
      BY <1>t, <2>o, <2>p DEF Reporting, Dispatching
    <3> QED
      BY <3>1, <3>2, <3>3, <3>4 DEF BoundsInv
  <2>2. ScanInv'
    BY <1>2, <1>t, <1>l, <1>i, <2>u DEF ProcessRulePkt, MayEnter, ScanInv
  <2>3. HitsInv'
    BY <1>2, <1>t, <1>l, <1>i, <2>u DEF ProcessRulePkt, MayEnter, HitsInv,
       Passed, Resting, Dispatching
  <2> QED
    BY <2>1, <2>2, <2>3 DEF RangeInv
<1>3. ASSUME NEW c \in Callers, SetBounds(c) PROVE RangeInv'
  <2>u. UNCHANGED <<calls, matching, newRule, hits, wpc, job, cur, wend, shMh,
                    rules, indexed>>
    BY <1>3 DEF SetBounds, ProcessMutexFree, callerVars, ghostVars,
       workerVars, sharedVars, engineVars, dtorVars
  <2>o. /\ pc[c] = "bounds" /\ idx[c] \in Workers /\ newRule[c] = rules - 1
        /\ \A d \in Callers : d # c => pc[d] = "idle"
    BY <1>3, <1>l, <1>i, <1>p DEF SetBounds, SingleCaller, BoundsInv
  <2>p. /\ lowerBound' = [lowerBound EXCEPT ![idx[c]] = Lower(newRule[c] + 1, idx[c])]
        /\ upperBound' = [upperBound EXCEPT ![idx[c]] = Upper(newRule[c] + 1, idx[c])]
        /\ idx' = [idx EXCEPT ![c] = idx[c] + 1]
        /\ pc' = [pc EXCEPT ![c] = IF idx[c] + 1 = NumProc THEN "index" ELSE "bounds"]
    BY <1>3, <2>o DEF SetBounds
  <2>r. \A w \in Workers : wpc[w] \in Resting
    BY <2>o, <1>p DEF SingleCaller, ThreadsInv, Quiet, Dispatching
  <2>d. \A d \in Callers : pc'[d] \notin Reporting /\ (d # c => pc'[d] = "idle")
    BY <1>t, <2>o, <2>p DEF Reporting, Dispatching
  <2>1. BoundsInv'
    <3>1. newRule[c] + 1 = rules
      BY <1>t, <2>o
    <3>2. \A d \in Callers : pc'[d] \in {"bounds", "index"} => newRule'[d] = rules' - 1
      BY <2>u, <2>o, <2>d
    <3>3. ASSUME NEW w \in Workers, pc'[c] = "bounds" => w < idx'[c]
          PROVE  lowerBound'[w] = Lower(rules, w) /\ upperBound'[w] = Upper(rules, w)
      <4>1. CASE w = idx[c]
        BY <4>1, <3>1, <1>t, <2>o, <2>p
      <4>2. CASE w # idx[c]
        <5>a. /\ idx'[c] = idx[c] + 1
              /\ pc'[c] = "bounds" \/ idx[c] + 1 = NumProc
          BY <1>t, <2>o, <2>p
        <5>1. w < idx[c]
          <6>1. w \in Int /\ idx[c] \in Int /\ w < NumProc
            BY <2>o DEF Workers
          <6> QED
            BY <4>2, <5>a, <6>1, <3>3
        <5>2. lowerBound[w] = Lower(rules, w) /\ upperBound[w] = Upper(rules, w)
          BY <5>1, <1>i, <2>o DEF BoundsInv
        <5> QED
          BY <4>2, <5>2, <1>t, <2>o, <2>p
      <4> QED
        BY <4>1, <4>2
    <3> QED
      BY <3>2, <3>3, <1>i, <2>u, <2>d DEF BoundsInv
  <2>2. ScanInv'
    BY <2>u, <2>r DEF ScanInv, Resting
  <2>3. HitsInv'
    BY <2>d DEF HitsInv, Reporting
  <2> QED
    BY <2>1, <2>2, <2>3 DEF RangeInv
<1>4. ASSUME NEW c \in Callers, IndexRule(c) PROVE RangeInv'
  <2>u. UNCHANGED <<idx, calls, matching, newRule, hits, wpc, job, cur, wend,
                    shMh, lowerBound, upperBound, rules>>
    BY <1>4 DEF IndexRule, callerVars, ghostVars, workerVars, sharedVars,
       engineVars, dtorVars
  <2>o. /\ pc[c] = "index" /\ newRule[c] = rules - 1
        /\ \A d \in Callers : d # c => pc[d] = "idle"
    BY <1>4, <1>i, <1>p DEF IndexRule, SingleCaller, BoundsInv
  <2>p. /\ indexed' = indexed \cup {newRule[c]}
        /\ \A d \in Callers : pc'[d] = "idle"
    BY <1>4, <1>t, <2>o DEF IndexRule
  <2>1. BoundsInv'
    <3>1. indexed' \subseteq 0 .. rules - 1
      BY <1>t, <1>i, <2>o, <2>p DEF BoundsInv
    <3>2. \A w \in Workers : lowerBound[w] = Lower(rules, w) /\ upperBound[w] = Upper(rules, w)
      BY <1>i, <2>o DEF BoundsInv
    <3> QED
      BY <3>1, <3>2, <2>u, <2>p DEF BoundsInv, Reporting, Dispatching
  <2>2. ScanInv'
    BY <1>4, <1>t, <1>l, <1>i, <2>u DEF IndexRule, ScanInv
  <2>3. HitsInv'
    BY <1>4, <1>t, <1>l, <1>i, <2>u DEF IndexRule, HitsInv, Passed, Resting,
       Dispatching
  <2> QED
    BY <2>1, <2>2, <2>3 DEF RangeInv
<1>5. ASSUME NEW c \in Callers, ProcessPubPkt(c) PROVE RangeInv'
  <2>u. UNCHANGED <<newRule, wpc, job, cur, wend, shMh, lowerBound,
                    upperBound, rules, indexed>>
    BY <1>5 DEF ProcessPubPkt, MayEnter, EnterPubPkt, callerVars, ghostVars,
       workerVars, sharedVars, engineVars, dtorVars
  <2>o. \A d \in Callers : d # c => pc[d] = "idle"
    BY <1>5, <1>s, <1>p DEF ProcessPubPkt, MayEnter, SingleCaller
  <2>p. /\ pc' = [pc EXCEPT ![c] = "install"]
        /\ idx' = [idx EXCEPT ![c] = 0]
        /\ hits' = [hits EXCEPT ![c] = [r \in RuleIds |-> 0]]
    BY <1>5 DEF ProcessPubPkt, EnterPubPkt
  <2>1. BoundsInv'
    BY <1>5, <1>t, <1>l, <1>i, <2>u DEF ProcessPubPkt, MayEnter, EnterPubPkt,
       BoundsInv, Reporting, Dispatching
  <2>2. ScanInv'
    BY <1>5, <1>t, <1>l, <1>i, <2>u DEF ProcessPubPkt, MayEnter, EnterPubPkt,
       ScanInv
  <2>3. HitsInv'
    <3>1. \A w \in Workers, r \in RuleIds : ~Passed(c, w, r)'
      BY <1>t, <2>p DEF Passed, Workers
    <3>2. \A r \in RuleIds : hits'[c][r] = 0
      BY <1>t, <2>p
    <3> QED
      BY <1>t, <2>o, <2>p, <3>1, <3>2 DEF HitsInv, Dispatching
  <2> QED
    BY <2>1, <2>2, <2>3 DEF RangeInv
<1>6. ASSUME NEW c \in Callers, Install(c) PROVE RangeInv'
  <2>u. UNCHANGED <<calls, matching, newRule, hits, job, cur, wend,
                    lowerBound, upperBound, rules, indexed>>
    BY <1>6 DEF Install, ProcessMutexFree, SignalWorker, callerVars,
       ghostVars, workerVars, sharedVars, engineVars, dtorVars
  <2>o. \A d \in Callers : d # c => pc[d] = "idle"
    BY <1>6, <1>p DEF Install, SingleCaller
  <2>i. idx[c] \in Workers /\ idx[c] \in Int
    BY <1>6, <1>l, <1>t DEF Install
  <2>w. wpc[idx[c]] = "waiting"
    BY <1>6, <2>i, <1>p DEF Install, ProcessMutexFree, ThreadsInv,
       Dispatching, Resting
  <2>p. /\ wpc' = [wpc EXCEPT ![idx[c]] = "woken"]
        /\ idx' = [idx EXCEPT ![c] = idx[c] + 1]
        /\ pc[c] = "install"
        /\ pc'[c] \in {"install", "await"}
        /\ \A d \in Callers : d # c => pc'[d] = "idle"
    BY <1>6, <1>t, <2>o, <2>w DEF Install, SignalWorker
  <2>1. BoundsInv'
    BY <1>6, <1>t, <1>l, <1>i, <2>u DEF Install, ProcessMutexFree,
       SignalWorker, BoundsInv, Reporting, Dispatching
  <2>2. ScanInv'
    BY <1>6, <1>t, <1>l, <1>i, <2>u DEF Install, ProcessMutexFree,
       SignalWorker, ScanInv
  <2>3. HitsInv'
    <3>1. ASSUME NEW w \in Workers, NEW r \in RuleIds
          PROVE  Passed(c, w, r)' <=> Passed(c, w, r)
      <4>1. CASE w = idx[c]
        BY <4>1, <1>t, <2>i, <2>p DEF Passed, Resting
      <4>2. CASE w # idx[c]
        <5>1. idx'[c] = idx[c] + 1 /\ wpc'[w] = wpc[w] /\ w \in Int
          BY <4>2, <1>t, <2>i, <2>p DEF Workers
        <5>2. w < idx'[c] <=> w < idx[c]
          BY <4>2, <5>1, <2>i
        <5> QED
          BY <5>1, <5>2, <2>u DEF Passed
      <4> QED
        BY <4>1, <4>2
    <3>2. ASSUME NEW r \in RuleIds
          PROVE  hits[c][r] = IF r \in matching[c] /\ \E w \in Workers : Passed(c, w, r)'
                              THEN 1 ELSE 0
      BY <3>1, <1>i, <2>p DEF HitsInv, Dispatching
    <3> QED
      BY <2>u, <2>p, <3>2 DEF HitsInv, Dispatching
  <2> QED
    BY <2>1, <2>2, <2>3 DEF RangeInv
<1>7. ASSUME NEW c \in Callers, Await(c) PROVE RangeInv'
  BY <1>7, <1>s, <1>t, <1>l, <1>i, SMTT(30) DEF Await, callerVars, ghostVars,
     workerVars, sharedVars, engineVars, dtorVars, RangeInv, BoundsInv,
     ScanInv, HitsInv, Reporting, Passed, Resting, Dispatching
<1>8. ASSUME NEW c \in Callers, Resume(c) PROVE RangeInv'
  BY <1>8, <1>s, <1>t, <1>l, <1>i, SMTT(30) DEF Resume, callerVars, ghostVars,
     workerVars, sharedVars, engineVars, dtorVars, RangeInv, BoundsInv,
     ScanInv, HitsInv, Reporting, Passed, Resting, Dispatching
<1>9. ASSUME NEW c \in Callers, ResetCounter(c) PROVE RangeInv'
  <2>u. UNCHANGED <<calls, matching, newRule, hits, wpc, job, cur, wend, shMh,
                    lowerBound, upperBound, rules, indexed>>
    BY <1>9 DEF ResetCounter, callerVars, ghostVars, workerVars, sharedVars,
       engineVars, dtorVars
  <2>o. /\ pc[c] = "reset" /\ idx[c] = NumProc
        /\ pc' = [pc EXCEPT ![c] = "collect"]
        /\ \A d \in Callers : d # c => pc[d] = "idle"
    BY <1>9, <1>p DEF ResetCounter, SingleCaller, LoopDone
  <2>r. \A w \in Workers : wpc[w] \in Resting
    BY <2>o, <1>p DEF ThreadsInv, Dispatching
  <2>1. BoundsInv'
    BY <1>9, <1>t, <1>l, <1>i, <2>u DEF ResetCounter, BoundsInv, Reporting,
       Dispatching
  <2>2. ScanInv'
    BY <1>9, <1>t, <1>l, <1>i, <2>u DEF ResetCounter, ScanInv
  <2>3. HitsInv'
    <3>1. ASSUME NEW r \in RuleIds, r \in matching[c]
          PROVE  \E w \in Workers : Passed(c, w, r)
      <4>1. r \in 0 .. rules - 1 /\ rules \in Nat
        BY <3>1, <1>t, <1>i, <2>o DEF BoundsInv, Reporting, Dispatching
      <4>2. PICK w \in Workers : Lower(rules, w) <= r /\ r < Upper(rules, w)
        BY <4>1, RangesCover
      <4>3. lowerBound[w] = Lower(rules, w) /\ upperBound[w] = Upper(rules, w)
        BY <1>i, <2>o DEF BoundsInv
      <4> QED
        BY <4>2, <4>3, <2>o, <2>r DEF Passed, Workers
    <3>2. \A r \in RuleIds : hits[c][r] = IF r \in matching[c] THEN 1 ELSE 0
      BY <3>1, <2>o, <1>i DEF HitsInv, Dispatching
    <3> QED
      BY <3>2, <1>t, <2>u, <2>o DEF HitsInv, Dispatching
  <2> QED
    BY <2>1, <2>2, <2>3 DEF RangeInv
<1>10. ASSUME NEW c \in Callers, Collect(c) PROVE RangeInv'
  BY <1>10, <1>s, <1>t, <1>l, <1>i, SMTT(30) DEF Collect, callerVars,
     ghostVars, workerVars, sharedVars, engineVars, dtorVars, RangeInv,
     BoundsInv, ScanInv, HitsInv, Reporting, Passed, Resting, Dispatching
<1>11. ASSUME NEW c \in Callers, Release(c) PROVE RangeInv'
  BY <1>11, <1>s, <1>t, <1>l, <1>i, SMTT(30) DEF Release, callerVars,
     ghostVars, workerVars, sharedVars, engineVars, dtorVars, RangeInv,
     BoundsInv, ScanInv, HitsInv, Reporting, Passed, Resting, Dispatching
<1>12. ASSUME NEW c \in Callers, Notify(c) PROVE RangeInv'
  BY <1>12, <1>s, <1>t, <1>l, <1>i, SMTT(30) DEF Notify, callerVars,
     ghostVars, workerVars, sharedVars, engineVars, dtorVars, RangeInv,
     BoundsInv, ScanInv, HitsInv, Reporting, Passed, Resting, Dispatching
<1>13. ASSUME NEW c \in Callers, Recurse(c) PROVE RangeInv'
  <2>u. UNCHANGED <<newRule, wpc, job, cur, wend, shMh, lowerBound,
                    upperBound, rules, indexed>>
    BY <1>13 DEF Recurse, EnterPubPkt, TakeResult, callerVars, ghostVars,
       workerVars, sharedVars, engineVars, dtorVars
  <2>o. \A d \in Callers : d # c => pc[d] = "idle"
    BY <1>13, <1>s, <1>p DEF Recurse, SingleCaller
  <2>p. /\ pc' = [pc EXCEPT ![c] = "install"]
        /\ idx' = [idx EXCEPT ![c] = 0]
        /\ hits' = [hits EXCEPT ![c] = [r \in RuleIds |-> 0]]
    BY <1>13 DEF Recurse, EnterPubPkt
  <2>1. BoundsInv'
    BY <1>13, <1>t, <1>l, <1>i, <2>u DEF Recurse, EnterPubPkt, TakeResult,
       BoundsInv, Reporting, Dispatching
  <2>2. ScanInv'
    BY <1>13, <1>t, <1>l, <1>i, <2>u DEF Recurse, EnterPubPkt, TakeResult,
       ScanInv
  <2>3. HitsInv'
    <3>1. \A w \in Workers, r \in RuleIds : ~Passed(c, w, r)'
      BY <1>t, <2>p DEF Passed, Workers
    <3>2. \A r \in RuleIds : hits'[c][r] = 0
      BY <1>t, <2>p
    <3> QED
      BY <1>t, <2>o, <2>p, <3>1, <3>2 DEF HitsInv, Dispatching
  <2> QED
    BY <2>1, <2>2, <2>3 DEF RangeInv
<1>14. ASSUME NEW c \in Callers, DropResult(c) PROVE RangeInv'
  BY <1>14, <1>s, <1>t, <1>l, <1>i, SMTT(30) DEF DropResult, TakeResult,
     callerVars, ghostVars, workerVars, sharedVars, engineVars, dtorVars,
     RangeInv, BoundsInv, ScanInv, HitsInv, Reporting, Passed, Resting,
     Dispatching
<1>15. ASSUME NEW c \in Callers, Return(c) PROVE RangeInv'
  BY <1>15, <1>s, <1>t, <1>l, <1>i, SMTT(30) DEF Return, callerVars,
     ghostVars, workerVars, sharedVars, engineVars, dtorVars, RangeInv,
     BoundsInv, ScanInv, HitsInv, Reporting, Passed, Resting, Dispatching
<1>16. ASSUME NEW w \in Workers, LockFirst(w) PROVE RangeInv'
  <2>u. UNCHANGED <<pc, idx, calls, matching, newRule, hits, job, cur, wend,
                    shMh, lowerBound, upperBound, rules, indexed>>
    BY <1>16 DEF LockFirst, callerVars, ghostVars, workerVars, sharedVars,
       engineVars, dtorVars
  <2>1. BoundsInv'
    BY <1>16, <1>t, <1>l, <1>i, <2>u DEF LockFirst, BoundsInv, Reporting,
       Dispatching
  <2>2. ScanInv'
    BY <1>16, <1>t, <1>l, <1>i, <2>u DEF LockFirst, ScanInv
  <2>3. HitsInv'
    <3>1. \A c \in Callers : pc[c] \notin Dispatching
      BY <1>16, <1>p DEF LockFirst, ThreadsInv, Resting, Busy
    <3> QED
      BY <3>1, <1>i, <2>u DEF HitsInv
  <2> QED
    BY <2>1, <2>2, <2>3 DEF RangeInv
<1>17. ASSUME NEW w \in Workers, Wait(w) PROVE RangeInv'
  BY <1>17, <1>s, <1>t, <1>l, <1>i, SMTT(30) DEF Wait, callerVars, ghostVars,
     workerVars, sharedVars, engineVars, dtorVars, RangeInv, BoundsInv,
     ScanInv, HitsInv, Reporting, Passed, Resting, Dispatching
<1>18. ASSUME NEW w \in Workers, Wake(w) PROVE RangeInv'
  <2>u. UNCHANGED <<pc, idx, calls, matching, newRule, hits, job, shMh,
                    lowerBound, upperBound, rules, indexed>>
    BY <1>18 DEF Wake, callerVars, ghostVars, workerVars, sharedVars,
       engineVars, dtorVars
  <2>1. BoundsInv'
    BY <1>18, <1>t, <1>l, <1>i, <2>u DEF Wake, BoundsInv, Reporting,
       Dispatching
  <2>2. ScanInv'
    BY <1>18, <1>t, <1>l, <1>i, <2>u DEF Wake, ScanInv
  <2>3. HitsInv'
    <3>1. wpc[w] = "woken" /\ wpc' = [wpc EXCEPT ![w] = IF finish[w] THEN "exited" ELSE "load"]
      BY <1>18 DEF Wake
    <3>2. ASSUME NEW c \in Callers, NEW v \in Workers, NEW r \in RuleIds
          PROVE  Passed(c, v, r)' <=> Passed(c, v, r)
      <4>1. CASE v = w
        BY <4>1, <3>1, <1>t DEF Passed, Resting
      <4>2. CASE v # w
        BY <4>2, <1>18, <3>1, <1>t, <2>u DEF Wake, Passed
      <4> QED
        BY <4>1, <4>2
    <3> QED
      BY <3>2, <1>i, <2>u DEF HitsInv
  <2> QED
    BY <2>1, <2>2, <2>3 DEF RangeInv
<1>19. ASSUME NEW w \in Workers, LoadHandler(w) PROVE RangeInv'
  <2>u. UNCHANGED <<pc, idx, calls, matching, newRule, hits, cur, wend, shMh,
                    lowerBound, upperBound, rules, indexed>>
    BY <1>19 DEF LoadHandler, callerVars, ghostVars, workerVars, sharedVars,
       engineVars, dtorVars
  <2>1. BoundsInv'
    BY <1>19, <1>t, <1>l, <1>i, <2>u DEF LoadHandler, BoundsInv, Reporting,
       Dispatching
  <2>2. ScanInv'
    BY <1>19, <1>t, <1>l, <1>i, <2>u DEF LoadHandler, ScanInv
  <2>3. HitsInv'
    <3>1. /\ wpc[w] = "load" /\ cur[w] = lowerBound[w]
          /\ wpc' = [wpc EXCEPT ![w] = "process"]
      BY <1>19, <1>i DEF LoadHandler, ScanInv
    <3>2. ASSUME NEW c \in Callers, NEW v \in Workers, NEW r \in RuleIds
          PROVE  Passed(c, v, r)' <=> Passed(c, v, r)
      <4>1. CASE v = w
        BY <4>1, <3>1, <1>t, <2>u DEF Passed, Resting, RuleIds
      <4>2. CASE v # w
        BY <4>2, <3>1, <1>t, <2>u DEF Passed
      <4> QED
        BY <4>1, <4>2
    <3> QED
      BY <3>2, <1>i, <2>u DEF HitsInv
  <2> QED
    BY <2>1, <2>2, <2>3 DEF RangeInv
<1>20. ASSUME NEW w \in Workers, ProcessRule(w) PROVE RangeInv'
  <2>u. UNCHANGED <<pc, idx, calls, matching, newRule, wpc, job, wend, shMh,
                    lowerBound, upperBound, rules, indexed>>
    BY <1>20 DEF ProcessRule, Evaluate, callerVars, ghostVars, workerVars,
       sharedVars, engineVars, dtorVars
  <2>o. /\ wpc[w] = "process" /\ cur[w] < upperBound[w] /\ lowerBound[w] <= cur[w]
        /\ cur' = [cur EXCEPT ![w] = cur[w] + 1]
        /\ cur[w] \in Nat
    BY <1>20, <1>t, <1>i DEF ProcessRule, ScanInv
  <2>1. BoundsInv'
    BY <1>20, <1>t, <1>l, <1>i, <2>u DEF ProcessRule, Evaluate, BoundsInv,
       Reporting, Dispatching
  <2>2. ScanInv'
    BY <1>20, <1>t, <1>l, <1>i, <2>u DEF ProcessRule, Evaluate, ScanInv
  <2>3. HitsInv'
    <3>1. PICK c \in Callers : pc[c] \in Dispatching
      BY <2>o, <1>p DEF SingleCaller, ThreadsInv, Quiet, Resting
    <3>2. \A d \in Callers : d # c => pc[d] = "idle"
      BY <3>1, <1>p DEF SingleCaller, Dispatching
    <3>3. job[w] = <<c, calls[c]>> /\ shMh[w] = <<c, calls[c]>> /\ w < idx[c]
      <4>1. shMh[w] = <<c, calls[c]>> /\ job[w] = shMh[w]
        BY <3>1, <2>o, <1>p DEF JobsInv, Busy
      <4>2. w >= idx[c] => wpc[w] \in Resting
        BY <3>1, <1>p DEF ThreadsInv
      <4>3. w \in Int /\ idx[c] \in Int
        BY <1>t DEF Workers
      <4> QED
        BY <4>1, <4>2, <4>3, <2>o DEF Resting
    <3>4. Live(job[w]) /\ Live(shMh[w])
      BY <3>1, <3>3 DEF Live, Owning, Dispatching
    <3>5. cur[w] \in matching[c] => cur[w] \in RuleIds
      BY <1>t
    <3>6. IF cur[w] \in matching[c]
          THEN hits' = [hits EXCEPT ![c][cur[w]] = @ + 1]
          ELSE hits' = hits
      BY <1>20, <3>3, <3>4, <3>5 DEF ProcessRule, Lookup, Evaluate, ghostVars
    <3>7. \A v \in Workers : lowerBound[v] = Lower(rules, v) /\ upperBound[v] = Upper(rules, v)
      BY <3>1, <3>2, <1>i DEF BoundsInv, Dispatching
    <3>8. ASSUME NEW v \in Workers, v # w
          PROVE  ~(lowerBound[v] <= cur[w] /\ cur[w] < upperBound[v])
      <4>1. rules \in Nat /\ v \in Nat /\ w \in Nat
        BY <1>t DEF Workers
      <4>2. CASE v < w
        <5>1. Upper(rules, v) <= Lower(rules, w)
          BY <4>1, <4>2, RangesDisjoint
        <5> QED
          BY <5>1, <3>7, <2>o, <1>t
      <4>3. CASE w < v
        <5>1. Upper(rules, w) <= Lower(rules, v)
          BY <4>1, <4>3, RangesDisjoint
        <5> QED
          BY <5>1, <3>7, <2>o, <1>t
      <4> QED
        BY <4>1, <4>2, <4>3, <3>8
    <3>9. ASSUME NEW v \in Workers, NEW r \in RuleIds
          PROVE  Passed(c, v, r)' <=> Passed(c, v, r) \/ (v = w /\ r = cur[w])
      <4>1. CASE v = w
        <5>1. cur'[w] = cur[w] + 1 /\ r \in Int
          BY <1>t, <2>o DEF RuleIds
        <5>2. r < cur'[w] <=> r < cur[w] \/ r = cur[w]
          BY <5>1, <2>o
        <5> QED
          BY <4>1, <5>1, <5>2, <3>3, <2>u, <2>o DEF Passed, Resting
      <4>2. CASE v # w
        BY <4>2, <1>t, <2>u, <2>o DEF Passed
      <4> QED
        BY <4>1, <4>2
    <3>10. \A v \in Workers : cur[w] \in RuleIds => ~Passed(c, v, cur[w])
      BY <3>8, <2>o, <1>t DEF Passed, Resting
    <3>11. ASSUME NEW r \in RuleIds
           PROVE  hits'[c][r] = IF r \in matching[c] /\ \E v \in Workers : Passed(c, v, r)'
                                THEN 1 ELSE 0
      <4>1. hits[c][r] = IF r \in matching[c] /\ \E v \in Workers : Passed(c, v, r)
                         THEN 1 ELSE 0
        BY <3>1, <1>i DEF HitsInv
      <4>2. CASE r = cur[w]
        <5>1. hits[c][r] = 0
          BY <4>1, <4>2, <3>10
        <5>2. \E v \in Workers : Passed(c, v, r)'
          BY <4>2, <3>9
        <5> QED
          BY <5>1, <5>2, <4>2, <3>6, <1>t
      <4>3. CASE r # cur[w]
        BY <4>1, <4>3, <3>6, <3>9, <1>t
      <4> QED
        BY <4>2, <4>3
    <3> QED
      BY <3>1, <3>2, <3>11, <2>u DEF HitsInv, Dispatching
  <2> QED
    BY <2>1, <2>2, <2>3 DEF RangeInv
<1>21. ASSUME NEW w \in Workers, Report(w) PROVE RangeInv'
  <2>u. UNCHANGED <<idx, calls, matching, newRule, hits, job, cur, wend, shMh,
                    lowerBound, upperBound, rules, indexed>>
    BY <1>21 DEF Report, SignalResult, callerVars, ghostVars, workerVars,
       sharedVars, engineVars, dtorVars
  <2>1. BoundsInv'
    BY <1>21, <1>t, <1>l, <1>i, <2>u DEF Report, SignalResult, BoundsInv,
       Reporting, Dispatching
  <2>2. ScanInv'
    BY <1>21, <1>t, <1>l, <1>i, <2>u DEF Report, SignalResult, ScanInv
  <2>3. HitsInv'
    <3>1. /\ wpc[w] = "process" /\ cur[w] >= upperBound[w]
          /\ wpc' = [wpc EXCEPT ![w] = "locked"]
      BY <1>21, <1>i DEF Report, ScanInv
    <3>2. ASSUME NEW c \in Callers, NEW v \in Workers, NEW r \in RuleIds
          PROVE  Passed(c, v, r)' <=> Passed(c, v, r)
      <4>1. CASE v = w
        BY <4>1, <3>1, <1>t, <2>u DEF Passed, Resting, RuleIds
      <4>2. CASE v # w
        BY <4>2, <3>1, <1>t, <2>u DEF Passed
      <4> QED
        BY <4>1, <4>2
    <3>3. \A c \in Callers : \/ pc'[c] = pc[c]
                             \/ pc[c] = "blocked" /\ pc'[c] = "signalled"
      BY <1>21, <1>t DEF Report, SignalResult
    <3> QED
      BY <3>2, <3>3, <1>i, <2>u DEF HitsInv, Dispatching
  <2> QED
    BY <2>1, <2>2, <2>3 DEF RangeInv
<1>22. CASE Destroy
  BY <1>22, <1>s, <1>t, <1>l, <1>i, SMTT(30) DEF Destroy, callerVars,
     ghostVars, workerVars, sharedVars, engineVars, dtorVars, RangeInv,
     BoundsInv, ScanInv, HitsInv, Reporting, Passed, Resting, Dispatching
<1>23. CASE SetFinish
  BY <1>23, <1>s, <1>t, <1>l, <1>i, SMTT(30) DEF SetFinish, callerVars,
     ghostVars, workerVars, sharedVars, engineVars, dtorVars, RangeInv,
     BoundsInv, ScanInv, HitsInv, Reporting, Passed, Resting, Dispatching
<1>24. CASE SignalFinish
  <2>u. UNCHANGED <<pc, idx, calls, matching, newRule, hits, job, cur, wend,
                    shMh, lowerBound, upperBound, rules, indexed>>
    BY <1>24 DEF SignalFinish, ProcessMutexFree, SignalWorker, callerVars,
       ghostVars, workerVars, sharedVars, engineVars, dtorVars
  <2>1. BoundsInv'
    BY <1>24, <1>t, <1>l, <1>i, <2>u DEF SignalFinish, ProcessMutexFree,
       SignalWorker, BoundsInv, Reporting, Dispatching
  <2>2. ScanInv'
    BY <1>24, <1>t, <1>l, <1>i, <2>u DEF SignalFinish, ProcessMutexFree,
       SignalWorker, ScanInv
  <2>3. HitsInv'
    <3>1. \A c \in Callers : pc[c] = "idle"
      BY <1>24, <1>p DEF SignalFinish, SingleCaller
    <3> QED
      BY <3>1, <2>u DEF HitsInv, Dispatching
  <2> QED
    BY <2>1, <2>2, <2>3 DEF RangeInv
<1>25. CASE Join
  BY <1>25, <1>s, <1>t, <1>l, <1>i, SMTT(30) DEF Join, callerVars, ghostVars,
     workerVars, sharedVars, engineVars, dtorVars, RangeInv, BoundsInv,
     ScanInv, HitsInv, Reporting, Passed, Resting, Dispatching
<1>26. CASE UNCHANGED vars
  BY <1>26, <1>i DEF vars, callerVars, ghostVars, workerVars, sharedVars,
     engineVars, dtorVars, RangeInv, BoundsInv, ScanInv, HitsInv, Passed
<1> QED
  BY <1>1, <1>2, <1>3, <1>4, <1>5, <1>6, <1>7, <1>8, <1>9, <1>10, <1>11,
     <1>12, <1>13, <1>14, <1>15, <1>16, <1>17, <1>18, <1>19, <1>20, <1>21,
     <1>22, <1>23, <1>24, <1>25, <1>26 DEF Next, CallerStep, WorkerStep,
     DtorStep, Gone

\* The state finalize builds satisfies the range invariant.
LEMMA RangeInit == Init => RangeInv
  BY ConstantsAssumption DEF Init, RangeInv, BoundsInv, ScanInv, HitsInv,
     Reporting, Dispatching

-----------------------------------------------------------------------------
\* The invariant from which the theorems follow.
BarrierInv == TypeInv /\ ProtocolInv /\ RangeInv

\* It holds in every reachable state.
LEMMA BarrierInvariant == ServerUse => (Spec => []BarrierInv)
<1> SUFFICES ASSUME ServerUse PROVE Spec => []BarrierInv
  OBVIOUS
<1>1. Init => BarrierInv
  BY TypeInit, ProtocolInit, RangeInit DEF BarrierInv
<1>2. BarrierInv /\ [Next]_vars => BarrierInv'
  BY TypeNext, ProtocolNext, RangeNext DEF BarrierInv
<1> QED
  BY <1>1, <1>2, PTL DEF Spec

\* The barrier of processPubPkt (TRexEngine.cc:226): once the caller is past its
\* wait every thread is back at its cond_wait, and every rule the packet matches
\* has processed it exactly once, no other rule at all.
THEOREM BarrierCorrect == ServerUse => (Spec => []BarrierHolds)
<1>1. BarrierInv => BarrierHolds
  <2> SUFFICES ASSUME BarrierInv, NEW c \in Callers,
                      pc[c] \in {"reset", "collect", "release"}
               PROVE  /\ \A w \in Workers : wpc[w] \in {"locked", "waiting"}
                      /\ \A r \in RuleIds :
                           hits[c][r] = IF r \in matching[c] THEN 1 ELSE 0
    BY DEF BarrierHolds
  <2>1. SingleCaller /\ LoopDone /\ ThreadsInv /\ BoundsInv /\ HitsInv
    BY DEF BarrierInv, ProtocolInv, RangeInv
  <2>2. ready /\ dpc = "alive" /\ \A d \in Callers : d # c => pc[d] = "idle"
    BY <2>1 DEF SingleCaller
  <2>3. \A w \in Workers : wpc[w] \in Resting
    BY <2>1, <2>2 DEF ThreadsInv, Quiet, Dispatching
  <2>4. CASE pc[c] = "reset"
    <3>1. ASSUME NEW r \in RuleIds, r \in matching[c]
          PROVE  \E w \in Workers : Passed(c, w, r)
      <4>1. rules \in Nat
        BY DEF BarrierInv, TypeInv, TypeOK, EngineOK
      <4>2. r \in 0 .. rules - 1
        BY <3>1, <2>1, <2>4 DEF BoundsInv, Reporting, Dispatching
      <4>3. PICK w \in Workers : Lower(rules, w) <= r /\ r < Upper(rules, w)
        BY <4>1, <4>2, RangesCover
      <4>4. lowerBound[w] = Lower(rules, w) /\ upperBound[w] = Upper(rules, w)
        BY <2>1, <2>2, <2>4 DEF BoundsInv
      <4>5. w < idx[c]
        BY <2>1, <2>4, ConstantsAssumption DEF LoopDone, Workers
      <4> QED
        BY <4>3, <4>4, <4>5, <2>3 DEF Passed
    <3> QED
      BY <3>1, <2>1, <2>3, <2>4 DEF HitsInv, Dispatching, Resting
  <2>5. CASE pc[c] \in {"collect", "release"}
    BY <2>5, <2>1, <2>3 DEF HitsInv, Resting
  <2> QED
    BY <2>4, <2>5
<1> QED
  BY BarrierInvariant, <1>1, PTL

\* No thread uses a packet or a MatchingHandler that processPubPkt has freed.
THEOREM PacketsOutliveThreads == ServerUse => (Spec => []NoUseAfterFree)
<1>1. BarrierInv => NoUseAfterFree
  <2> SUFFICES ASSUME BarrierInv, NEW w \in Workers, wpc[w] = "process"
               PROVE  Live(job[w]) /\ job[w] = shMh[w]
    BY DEF NoUseAfterFree
  <2>a. SingleCaller /\ ThreadsInv /\ JobsInv
    BY DEF BarrierInv, ProtocolInv
  <2>1. PICK c \in Callers : pc[c] \in Dispatching
    BY <2>a DEF SingleCaller, ThreadsInv, Quiet, Resting
  <2>2. job[w] = <<c, calls[c]>> /\ job[w] = shMh[w]
    BY <2>1, <2>a DEF JobsInv, Busy
  <2> QED
    BY <2>1, <2>2 DEF Live, Owning, Dispatching
<1> QED
  BY BarrierInvariant, <1>1, PTL

\* While no rule is being installed the ranges are those of all the rules.
LEMMA SettledBounds ==
  ASSUME BarrierInv, \A c \in Callers : pc[c] # "bounds"
  PROVE  /\ rules \in Nat
         /\ \A w \in Workers : /\ lowerBound[w] = Lower(rules, w)
                               /\ upperBound[w] = Upper(rules, w)
                               /\ w \in Nat
                               /\ lowerBound[w] \in Nat
                               /\ upperBound[w] \in Nat
<1>1. rules \in Nat
  BY DEF BarrierInv, TypeInv, TypeOK, EngineOK
<1>2. \A w \in Workers : w \in Nat /\ lowerBound[w] \in Nat /\ upperBound[w] \in Nat
  BY ConstantsAssumption DEF BarrierInv, TypeInv, TypeOK, ThreadsOK, Workers
<1> QED
  BY <1>1, <1>2 DEF BarrierInv, RangeInv, BoundsInv

\* Between two calls of processRulePkt every rule a packet can match is in the
\* range of exactly one thread.
THEOREM RangesCorrect == ServerUse => (Spec => []RangesPartitionRules)
<1>1. BarrierInv => RangesPartitionRules
  <2> SUFFICES ASSUME BarrierInv,
                      \A c \in Callers : pc[c] \notin {"bounds", "index"},
                      NEW r \in indexed
               PROVE  \E w \in Workers :
                        /\ lowerBound[w] <= r /\ r < upperBound[w]
                        /\ \A v \in Workers \ {w} :
                             ~(lowerBound[v] <= r /\ r < upperBound[v])
    BY DEF RangesPartitionRules
  <2>1. /\ rules \in Nat
        /\ \A w \in Workers : /\ lowerBound[w] = Lower(rules, w)
                              /\ upperBound[w] = Upper(rules, w)
                              /\ w \in Nat
                              /\ lowerBound[w] \in Nat
                              /\ upperBound[w] \in Nat
    BY SettledBounds
  <2>2. r \in 0 .. rules - 1
    BY DEF BarrierInv, RangeInv, BoundsInv
  <2>3. PICK w \in Workers : lowerBound[w] <= r /\ r < upperBound[w]
    BY <2>1, <2>2, RangesCover
  <2>4. ASSUME NEW v \in Workers, v # w
        PROVE  ~(lowerBound[v] <= r /\ r < upperBound[v])
    <3>1. CASE v < w
      BY <3>1, <2>1, <2>2, <2>3, RangesDisjoint
    <3>2. CASE w < v
      BY <3>2, <2>1, <2>2, <2>3, RangesDisjoint
    <3> QED
      BY <3>1, <3>2, <2>1, <2>4
  <2> QED
    BY <2>3, <2>4
<1> QED
  BY BarrierInvariant, <1>1, PTL

\* No StacksRule, which has no lock, is touched by two threads of processor().
THEOREM RulesExclusive == ServerUse => (Spec => []RuleExclusion)
<1>1. BarrierInv => RuleExclusion
  <2> SUFFICES ASSUME BarrierInv, NEW v \in Workers, NEW w \in Workers, v # w,
                      wpc[v] \in {"load", "process"}, wpc[w] \in {"load", "process"}
               PROVE  wend[v] <= cur[w] \/ wend[w] <= cur[v]
    BY DEF RuleExclusion
  <2>1. PICK c \in Callers : pc[c] \in Dispatching
    BY DEF BarrierInv, ProtocolInv, SingleCaller, ThreadsInv, Quiet, Resting
  <2>2. \A d \in Callers : pc[d] # "bounds"
    BY <2>1 DEF BarrierInv, ProtocolInv, SingleCaller, Dispatching
  <2>3. /\ rules \in Nat
        /\ \A u \in Workers : /\ lowerBound[u] = Lower(rules, u)
                              /\ upperBound[u] = Upper(rules, u)
                              /\ u \in Nat
                              /\ lowerBound[u] \in Nat
                              /\ upperBound[u] \in Nat
    BY <2>2, SettledBounds
  <2>4. \A u \in {v, w} : /\ lowerBound[u] <= cur[u]
                          /\ wend[u] = upperBound[u]
                          /\ cur[u] \in Nat
    BY <2>3 DEF BarrierInv, RangeInv, ScanInv, TypeInv, TypeOK, ThreadsOK
  <2>5. CASE v < w
    <3>1. upperBound[v] <= lowerBound[w]
      BY <2>5, <2>3, RangesDisjoint
    <3> QED
      BY <3>1, <2>3, <2>4
  <2>6. CASE w < v
    <3>1. upperBound[w] <= lowerBound[v]
      BY <2>6, <2>3, RangesDisjoint
    <3> QED
      BY <3>1, <2>3, <2>4
  <2> QED
    BY <2>3, <2>5, <2>6
<1> QED
  BY BarrierInvariant, <1>1, PTL

-----------------------------------------------------------------------------
(* The listeners get exactly the events created for their packet, and      *)
(* TRexEngine with its threads implements AtomicEngine.                    *)

\* The events the threads have created for the packet of caller c.
Tokens(c) == {<<<<c, calls[c]>>, r>> : r \in produced[c]}

\* Where the created events are: in the threads' result sets until processPubPkt
\* collects them, then in its own set.
ResultsInv ==
  /\ \A c \in Callers : pc[c] \in Dispatching => got[c] = {}
  /\ \A c \in Callers : pc[c] \in Dispatching \cup {"collect"} =>
       Tokens(c) = got[c] \cup UNION {result[w] : w \in Workers}
  /\ \A c \in Callers : pc[c] = "collect" =>
       \A w \in Workers : w < idx[c] => result[w] = {}
  /\ (\A c \in Callers : pc[c] \notin Dispatching \cup {"collect"}) =>
       \A w \in Workers : result[w] = {}
  /\ \A c \in Callers : pc[c] \in {"release", "notify"} => got[c] = Tokens(c)
  /\ \A c \in Callers : pc[c] \in Owning => produced[c] \subseteq matching[c]

\* Every step preserves the invariant on the results.
LEMMA ResultsNext ==
  ASSUME ServerUse, BarrierInv, ResultsInv, [Next]_vars
  PROVE  ResultsInv'
<1> USE ConstantsAssumption
<1>s. SerializedCalls
  BY DEF ServerUse
<1>t. /\ pc \in [Callers -> CallerStates]
      /\ idx \in [Callers -> 0 .. NumProc]
      /\ calls \in [Callers -> Nat]
      /\ got \in [Callers -> SUBSET (Jobs \X RuleIds)]
      /\ produced \in [Callers -> SUBSET RuleIds]
      /\ matching \in [Callers -> SUBSET RuleIds]
      /\ result \in [Workers -> SUBSET (Jobs \X RuleIds)]
  BY DEF BarrierInv, TypeInv, TypeOK, CallersOK, ThreadsOK, EngineOK
<1>l. \A c \in Callers : pc[c] = "collect" => idx[c] \in Workers
  BY DEF BarrierInv, TypeInv, LoopInv, CallerLoop
<1>i. ResultsInv
  OBVIOUS
<1>p. SingleCaller /\ ThreadsInv /\ JobsInv
  BY DEF BarrierInv, ProtocolInv
<1>1. CASE FinalizeReturns
  <2>u. UNCHANGED <<pc, idx, calls, matching, got, produced, result>>
    BY <1>1 DEF FinalizeReturns, callerVars, ghostVars, workerVars,
       sharedVars, engineVars, dtorVars
  <2> QED
    BY <1>1, <1>t, <1>i, <2>u DEF FinalizeReturns, ResultsInv, Tokens, Owning,
       Dispatching
<1>2. ASSUME NEW c \in Callers, ProcessRulePkt(c) PROVE ResultsInv'
  <2>u. UNCHANGED <<calls, matching, got, produced, result>>
    BY <1>2 DEF ProcessRulePkt, MayEnter, callerVars, ghostVars, workerVars,
       sharedVars, engineVars, dtorVars
  <2> QED
    BY <1>2, <1>t, <1>i, <2>u DEF ProcessRulePkt, MayEnter, ResultsInv,
       Tokens, Owning, Dispatching
<1>3. ASSUME NEW c \in Callers, SetBounds(c) PROVE ResultsInv'
  <2>u. UNCHANGED <<calls, matching, got, produced, result>>
    BY <1>3 DEF SetBounds, ProcessMutexFree, callerVars, ghostVars,
       workerVars, sharedVars, engineVars, dtorVars
  <2> QED
    BY <1>3, <1>t, <1>i, <2>u DEF SetBounds, ProcessMutexFree, ResultsInv,
       Tokens, Owning, Dispatching
<1>4. ASSUME NEW c \in Callers, IndexRule(c) PROVE ResultsInv'
  <2>u. UNCHANGED <<idx, calls, matching, got, produced, result>>
    BY <1>4 DEF IndexRule, callerVars, ghostVars, workerVars, sharedVars,
       engineVars, dtorVars
  <2> QED
    BY <1>4, <1>t, <1>i, <2>u DEF IndexRule, ResultsInv, Tokens, Owning,
       Dispatching
<1>5. ASSUME NEW c \in Callers, ProcessPubPkt(c) PROVE ResultsInv'
  <2>u. UNCHANGED <<result>>
    BY <1>5 DEF ProcessPubPkt, MayEnter, EnterPubPkt, callerVars, ghostVars,
       workerVars, sharedVars, engineVars, dtorVars
  <2>o. \A d \in Callers : pc[d] \notin Dispatching \cup {"collect"} /\ (d # c => pc[d] = "idle")
    BY <1>5, <1>s, <1>p DEF ProcessPubPkt, MayEnter, SingleCaller, Dispatching
  <2>p. /\ pc' = [pc EXCEPT ![c] = "install"]
        /\ got' = [got EXCEPT ![c] = {}]
        /\ produced' = [produced EXCEPT ![c] = {}]
    BY <1>5 DEF ProcessPubPkt, EnterPubPkt
  <2>e. \A w \in Workers : result[w] = {}
    BY <2>o, <1>i DEF ResultsInv
  <2>f. Tokens(c)' = {} /\ got'[c] = {} /\ produced'[c] = {}
    BY <1>t, <2>p DEF Tokens
  <2> QED
    BY <1>t, <2>u, <2>o, <2>p, <2>e, <2>f DEF ResultsInv, Owning, Dispatching
<1>6. ASSUME NEW c \in Callers, Install(c) PROVE ResultsInv'
  <2>u. UNCHANGED <<calls, matching, got, produced, result>>
    BY <1>6 DEF Install, ProcessMutexFree, SignalWorker, callerVars,
       ghostVars, workerVars, sharedVars, engineVars, dtorVars
  <2> QED
    BY <1>6, <1>t, <1>i, <2>u DEF Install, ProcessMutexFree, SignalWorker,
       ResultsInv, Tokens, Owning, Dispatching
<1>7. ASSUME NEW c \in Callers, Await(c) PROVE ResultsInv'
  <2>u. UNCHANGED <<idx, calls, matching, got, produced, result>>
    BY <1>7 DEF Await, callerVars, ghostVars, workerVars, sharedVars,
       engineVars, dtorVars
  <2> QED
    BY <1>7, <1>t, <1>i, <2>u DEF Await, ResultsInv, Tokens, Owning,
       Dispatching
<1>8. ASSUME NEW c \in Callers, Resume(c) PROVE ResultsInv'
  <2>u. UNCHANGED <<idx, calls, matching, got, produced, result>>
    BY <1>8 DEF Resume, callerVars, ghostVars, workerVars, sharedVars,
       engineVars, dtorVars
  <2> QED
    BY <1>8, <1>t, <1>i, <2>u DEF Resume, ResultsInv, Tokens, Owning,
       Dispatching
<1>9. ASSUME NEW c \in Callers, ResetCounter(c) PROVE ResultsInv'
  <2>u. UNCHANGED <<calls, matching, got, produced, result>>
    BY <1>9 DEF ResetCounter, callerVars, ghostVars, workerVars, sharedVars,
       engineVars, dtorVars
  <2>o. /\ pc[c] = "reset"
        /\ pc' = [pc EXCEPT ![c] = "collect"]
        /\ idx' = [idx EXCEPT ![c] = 0]
        /\ \A d \in Callers : d # c => pc[d] = "idle"
    BY <1>9, <1>p DEF ResetCounter, SingleCaller
  <2>p. /\ pc'[c] = "collect" /\ \A d \in Callers : d # c => pc'[d] = "idle"
        /\ \A w \in Workers : ~(w < idx'[c])
        /\ Tokens(c)' = Tokens(c)
    BY <1>t, <2>u, <2>o DEF Workers, Tokens
  <2> QED
    BY <1>i, <2>u, <2>o, <2>p DEF ResultsInv, Owning, Dispatching
<1>10. ASSUME NEW c \in Callers, Collect(c) PROVE ResultsInv'
  <2>u. UNCHANGED <<calls, matching, produced>>
    BY <1>10 DEF Collect, callerVars, ghostVars, workerVars, sharedVars,
       engineVars, dtorVars
  <2>o. /\ pc[c] = "collect" /\ idx[c] \in Workers /\ idx[c] \in Int
        /\ \A d \in Callers : d # c => pc[d] = "idle"
    BY <1>10, <1>t, <1>l, <1>p DEF Collect, SingleCaller
  <2>p. /\ got' = [got EXCEPT ![c] = got[c] \cup result[idx[c]]]
        /\ result' = [result EXCEPT ![idx[c]] = {}]
        /\ idx' = [idx EXCEPT ![c] = idx[c] + 1]
        /\ pc' = [pc EXCEPT ![c] = IF idx[c] + 1 = NumProc THEN "release" ELSE "collect"]
    BY <1>10, <2>o DEF Collect
  <2>q. /\ \A d \in Callers : d # c => pc'[d] = "idle"
        /\ idx'[c] = idx[c] + 1
        /\ got'[c] = got[c] \cup result[idx[c]]
        /\ pc'[c] \in {"collect", "release"}
        /\ pc'[c] = "release" => idx[c] + 1 = NumProc
        /\ Tokens(c)' = Tokens(c)
    BY <1>t, <2>u, <2>o, <2>p DEF Tokens
  <2>e. ASSUME NEW w \in Workers, w < idx'[c] PROVE result'[w] = {}
    <3>1. CASE w = idx[c]
      BY <3>1, <1>t, <2>o, <2>p
    <3>2. CASE w # idx[c]
      <4>1. w < idx[c]
        BY <2>e, <3>2, <2>o, <2>q DEF Workers
      <4> QED
        BY <3>2, <4>1, <1>t, <1>i, <2>o, <2>p DEF ResultsInv
    <3> QED
      BY <3>1, <3>2
  <2>f. Tokens(c) = got'[c] \cup UNION {result'[w] : w \in Workers}
    <3>1. Tokens(c) = got[c] \cup UNION {result[w] : w \in Workers}
      BY <1>i, <2>o DEF ResultsInv
    <3>2. ASSUME NEW w \in Workers
          PROVE  result[w] \subseteq result[idx[c]] \cup result'[w] /\ result'[w] \subseteq result[w]
      BY <1>t, <2>o, <2>p
    <3> QED
      BY <3>1, <3>2, <2>o, <2>q
  <2>g. pc'[c] = "release" => \A w \in Workers : w < idx'[c]
    BY <2>q DEF Workers
  <2>h. pc'[c] = "release" => \A w \in Workers : result'[w] = {}
    BY <2>e, <2>g
  <2>j. pc'[c] = "release" => got'[c] = Tokens(c)
    BY <2>f, <2>h
  <2>k. produced'[c] \subseteq matching'[c]
    BY <1>i, <2>u, <2>o DEF ResultsInv, Owning
  <2> QED
    BY <2>q, <2>e, <2>f, <2>h, <2>j, <2>k, ZenonT(30) DEF ResultsInv, Owning,
       Dispatching
<1>11. ASSUME NEW c \in Callers, Release(c) PROVE ResultsInv'
  <2>u. UNCHANGED <<idx, calls, matching, got, produced, result>>
    BY <1>11 DEF Release, callerVars, ghostVars, workerVars, sharedVars,
       engineVars, dtorVars
  <2> QED
    BY <1>11, <1>t, <1>i, <2>u DEF Release, ResultsInv, Tokens, Owning,
       Dispatching
<1>12. ASSUME NEW c \in Callers, Notify(c) PROVE ResultsInv'
  <2>u. UNCHANGED <<idx, calls, matching, got, produced, result>>
    BY <1>12 DEF Notify, callerVars, ghostVars, workerVars, sharedVars,
       engineVars, dtorVars
  <2> QED
    BY <1>12, <1>t, <1>i, <2>u DEF Notify, ResultsInv, Tokens, Owning,
       Dispatching
<1>13. ASSUME NEW c \in Callers, Recurse(c) PROVE ResultsInv'
  <2>u. UNCHANGED <<result>>
    BY <1>13 DEF Recurse, EnterPubPkt, TakeResult, callerVars, ghostVars,
       workerVars, sharedVars, engineVars, dtorVars
  <2>o. \A d \in Callers : pc[d] \notin Dispatching \cup {"collect"} /\ (d # c => pc[d] = "idle")
    BY <1>13, <1>s, <1>p DEF Recurse, SingleCaller, Dispatching
  <2>p. /\ pc' = [pc EXCEPT ![c] = "install"]
        /\ got' = [got EXCEPT ![c] = {}]
        /\ produced' = [produced EXCEPT ![c] = {}]
    BY <1>13 DEF Recurse, EnterPubPkt
  <2>e. \A w \in Workers : result[w] = {}
    BY <2>o, <1>i DEF ResultsInv
  <2>f. Tokens(c)' = {} /\ got'[c] = {} /\ produced'[c] = {}
    BY <1>t, <2>p DEF Tokens
  <2> QED
    BY <1>t, <2>u, <2>o, <2>p, <2>e, <2>f DEF ResultsInv, Owning, Dispatching
<1>14. ASSUME NEW c \in Callers, DropResult(c) PROVE ResultsInv'
  <2>u. UNCHANGED <<pc, idx, calls, matching, got, produced, result>>
    BY <1>14 DEF DropResult, TakeResult, callerVars, ghostVars, workerVars,
       sharedVars, engineVars, dtorVars
  <2> QED
    BY <1>14, <1>t, <1>i, <2>u DEF DropResult, TakeResult, ResultsInv, Tokens,
       Owning, Dispatching
<1>15. ASSUME NEW c \in Callers, Return(c) PROVE ResultsInv'
  <2>u. UNCHANGED <<idx, calls, matching, got, produced, result>>
    BY <1>15 DEF Return, callerVars, ghostVars, workerVars, sharedVars,
       engineVars, dtorVars
  <2> QED
    BY <1>15, <1>t, <1>i, <2>u DEF Return, ResultsInv, Tokens, Owning,
       Dispatching
<1>16. ASSUME NEW w \in Workers, LockFirst(w) PROVE ResultsInv'
  <2>u. UNCHANGED <<pc, idx, calls, matching, got, produced, result>>
    BY <1>16 DEF LockFirst, callerVars, ghostVars, workerVars, sharedVars,
       engineVars, dtorVars
  <2> QED
    BY <1>16, <1>t, <1>i, <2>u DEF LockFirst, ResultsInv, Tokens, Owning,
       Dispatching
<1>17. ASSUME NEW w \in Workers, Wait(w) PROVE ResultsInv'
  <2>u. UNCHANGED <<pc, idx, calls, matching, got, produced, result>>
    BY <1>17 DEF Wait, callerVars, ghostVars, workerVars, sharedVars,
       engineVars, dtorVars
  <2> QED
    BY <1>17, <1>t, <1>i, <2>u DEF Wait, ResultsInv, Tokens, Owning,
       Dispatching
<1>18. ASSUME NEW w \in Workers, Wake(w) PROVE ResultsInv'
  <2>u. UNCHANGED <<pc, idx, calls, matching, got, produced, result>>
    BY <1>18 DEF Wake, callerVars, ghostVars, workerVars, sharedVars,
       engineVars, dtorVars
  <2> QED
    BY <1>18, <1>t, <1>i, <2>u DEF Wake, ResultsInv, Tokens, Owning,
       Dispatching
<1>19. ASSUME NEW w \in Workers, LoadHandler(w) PROVE ResultsInv'
  <2>u. UNCHANGED <<pc, idx, calls, matching, got, produced, result>>
    BY <1>19 DEF LoadHandler, callerVars, ghostVars, workerVars, sharedVars,
       engineVars, dtorVars
  <2> QED
    BY <1>19, <1>t, <1>i, <2>u DEF LoadHandler, ResultsInv, Tokens, Owning,
       Dispatching
<1>20. ASSUME NEW w \in Workers, ProcessRule(w) PROVE ResultsInv'
  <2>u. UNCHANGED <<pc, idx, calls, matching, got>>
    BY <1>20 DEF ProcessRule, Evaluate, callerVars, ghostVars, workerVars,
       sharedVars, engineVars, dtorVars
  <2>o. wpc[w] = "process"
    BY <1>20 DEF ProcessRule
  <2>c. PICK c \in Callers : pc[c] \in Dispatching
    BY <2>o, <1>p DEF SingleCaller, ThreadsInv, Quiet, Resting
  <2>d. \A d \in Callers : d # c => pc[d] = "idle"
    BY <2>c, <1>p DEF SingleCaller, Dispatching
  <2>e. shMh[w] = <<c, calls[c]>>
    BY <2>c, <2>o, <1>p DEF JobsInv, Busy
  <2>g. job[w] = <<c, calls[c]>> /\ Live(job[w])
    BY <2>c, <2>e, <2>o, <1>p DEF JobsInv, Live, Owning, Dispatching
  <2>f. \/ UNCHANGED <<produced, result>>
        \/ /\ produced' = [produced EXCEPT ![c] = produced[c] \cup {cur[w]}]
           /\ result' = [result EXCEPT ![w] = result[w] \cup {<<<<c, calls[c]>>, cur[w]>>}]
           /\ cur[w] \in matching[c]
    BY <1>20, <2>e, <2>g DEF ProcessRule, Lookup, Evaluate, ghostVars
  <2>1. CASE UNCHANGED <<produced, result>>
    BY <2>1, <1>i, <2>u DEF ResultsInv, Tokens
  <2>2. ASSUME produced' = [produced EXCEPT ![c] = produced[c] \cup {cur[w]}],
               result' = [result EXCEPT ![w] = result[w] \cup {<<<<c, calls[c]>>, cur[w]>>}],
               cur[w] \in matching[c]
        PROVE  ResultsInv'
    <3> DEFINE x == <<<<c, calls[c]>>, cur[w]>>
    <3>1. Tokens(c)' = Tokens(c) \cup {x}
      <4>1. produced'[c] = produced[c] \cup {cur[w]}
        BY <2>2, <1>t
      <4> QED
        BY <4>1, <2>u DEF Tokens
    <3>2. /\ result'[w] = result[w] \cup {x}
          /\ \A v \in Workers : v # w => result'[v] = result[v]
      BY <2>2, <1>t
    <3>a. Tokens(c) = got[c] \cup UNION {result[v] : v \in Workers}
      BY <2>c, <1>i DEF ResultsInv
    <3> HIDE DEF x
    <3>b. ASSUME NEW y PROVE y \in UNION {result'[v] : v \in Workers}
                             <=> y \in UNION {result[v] : v \in Workers} \/ y = x
      <4>1. y \in UNION {result'[v] : v \in Workers} <=> \E v \in Workers : y \in result'[v]
        BY Zenon
      <4>2. y \in UNION {result[v] : v \in Workers} <=> \E v \in Workers : y \in result[v]
        BY Zenon
      <4>3. (\E v \in Workers : y \in result'[v]) <=> (\E v \in Workers : y \in result[v]) \/ y = x
        BY <3>2
      <4> QED
        BY <4>1, <4>2, <4>3
    <3>3. Tokens(c)' = got[c] \cup UNION {result'[v] : v \in Workers}
      BY <3>1, <3>a, <3>b, Zenon
    <3>4. produced'[c] \subseteq matching[c]
      BY <2>2, <2>c, <1>t, <1>i DEF ResultsInv, Owning, Dispatching
    <3> QED
      BY <3>3, <3>4, <2>u, <2>c, <2>d, <1>i DEF ResultsInv, Owning,
         Dispatching
  <2> QED
    BY <2>f, <2>1, <2>2
<1>21. ASSUME NEW w \in Workers, Report(w) PROVE ResultsInv'
  <2>u. UNCHANGED <<idx, calls, matching, got, produced, result>>
    BY <1>21 DEF Report, SignalResult, callerVars, ghostVars, workerVars,
       sharedVars, engineVars, dtorVars
  <2>p. \A c \in Callers : \/ pc'[c] = pc[c]
                           \/ pc[c] = "blocked" /\ pc'[c] = "signalled"
    BY <1>21, <1>t DEF Report, SignalResult
  <2> QED
    BY <1>i, <2>u, <2>p DEF ResultsInv, Tokens, Owning, Dispatching
<1>22. CASE Destroy
  <2>u. UNCHANGED <<pc, idx, calls, matching, got, produced, result>>
    BY <1>22 DEF Destroy, callerVars, ghostVars, workerVars, sharedVars,
       engineVars, dtorVars
  <2> QED
    BY <1>22, <1>t, <1>i, <2>u DEF Destroy, ResultsInv, Tokens, Owning,
       Dispatching
<1>23. CASE SetFinish
  <2>u. UNCHANGED <<pc, idx, calls, matching, got, produced, result>>
    BY <1>23 DEF SetFinish, callerVars, ghostVars, workerVars, sharedVars,
       engineVars, dtorVars
  <2> QED
    BY <1>23, <1>t, <1>i, <2>u DEF SetFinish, ResultsInv, Tokens, Owning,
       Dispatching
<1>24. CASE SignalFinish
  <2>u. UNCHANGED <<pc, idx, calls, matching, got, produced, result>>
    BY <1>24 DEF SignalFinish, ProcessMutexFree, SignalWorker, callerVars,
       ghostVars, workerVars, sharedVars, engineVars, dtorVars
  <2> QED
    BY <1>24, <1>t, <1>i, <2>u DEF SignalFinish, ProcessMutexFree,
       SignalWorker, ResultsInv, Tokens, Owning, Dispatching
<1>25. CASE Join
  <2>u. UNCHANGED <<pc, idx, calls, matching, got, produced, result>>
    BY <1>25 DEF Join, callerVars, ghostVars, workerVars, sharedVars,
       engineVars, dtorVars
  <2> QED
    BY <1>25, <1>t, <1>i, <2>u DEF Join, ResultsInv, Tokens, Owning,
       Dispatching
<1>26. CASE UNCHANGED vars
  BY <1>26, <1>i DEF vars, callerVars, ghostVars, workerVars, sharedVars,
     engineVars, dtorVars, ResultsInv, Tokens
<1> QED
  BY <1>1, <1>2, <1>3, <1>4, <1>5, <1>6, <1>7, <1>8, <1>9, <1>10, <1>11,
     <1>12, <1>13, <1>14, <1>15, <1>16, <1>17, <1>18, <1>19, <1>20, <1>21,
     <1>22, <1>23, <1>24, <1>25, <1>26 DEF Next, CallerStep, WorkerStep,
     DtorStep, Gone

\* All the invariants together hold in every reachable state.
LEMMA ResultsInvariant == ServerUse => (Spec => [](BarrierInv /\ ResultsInv))
<1> SUFFICES ASSUME ServerUse PROVE Spec => [](BarrierInv /\ ResultsInv)
  OBVIOUS
<1>1. Init => ResultsInv
  BY DEF Init, ResultsInv, Owning, Dispatching
<1>2. BarrierInv /\ ResultsInv /\ [Next]_vars => ResultsInv'
  BY ResultsNext
<1>3. Spec => []BarrierInv
  BY BarrierInvariant
<1> QED
  BY <1>1, <1>2, <1>3, PTL DEF Spec

\* What processPubPkt passes to the listeners is exactly the set of events the
\* threads created for this packet.
THEOREM ListenersCorrect == ServerUse => (Spec => []ListenersGetAllResults)
<1>1. BarrierInv /\ ResultsInv => ListenersGetAllResults
  BY DEF ResultsInv, ListenersGetAllResults, Tokens
<1> QED
  BY ResultsInvariant, <1>1, PTL

-----------------------------------------------------------------------------
\* What the abstract engine shows of one caller.
ViewOf(c) == <<PhaseOf(c),
               IF PhaseOf(c) = "idle" THEN {} ELSE matching[c],
               IF Visible(c) THEN hits[c] ELSE [r \in RuleIds |-> 0],
               IF Visible(c) THEN {r \in RuleIds : <<<<c, calls[c]>>, r>> \in got[c]}
               ELSE {}>>

\* A step that leaves every caller's view and the index alone is a stutter.
LEMMA SameView ==
  ASSUME \A c \in Callers : ViewOf(c)' = ViewOf(c), indexed' = indexed
  PROVE  UNCHANGED AE!avars
  BY Zenon DEF ViewOf, AE!avars

\* The three phases of a call.
LEMMA Phases ==
  ASSUME NEW c \in Callers
  PROVE  /\ pc[c] \in {"idle", "bounds", "index"} =>
              PhaseOf(c) = "idle" /\ ~Visible(c)
         /\ pc[c] \in Owning => PhaseOf(c) = "matched" /\ ~Visible(c)
         /\ pc[c] \in {"notify", "drain"} => PhaseOf(c) = "notified" /\ Visible(c)
  BY DEF PhaseOf, Visible, Owning

\* The same after a step.
LEMMA PhasesNext ==
  ASSUME NEW c \in Callers
  PROVE  /\ pc'[c] \in {"idle", "bounds", "index"} =>
              PhaseOf(c)' = "idle" /\ ~Visible(c)'
         /\ pc'[c] \in Owning => PhaseOf(c)' = "matched" /\ ~Visible(c)'
         /\ pc'[c] \in {"notify", "drain"} => PhaseOf(c)' = "notified" /\ Visible(c)'
  BY DEF PhaseOf, Visible, Owning

\* The state finalize builds maps to an initial state of AtomicEngine.
LEMMA RefinesInit == Init => AE!AInit
<1> SUFFICES ASSUME Init PROVE AE!AInit
  OBVIOUS
<1>1. \A c \in Callers : PhaseOf(c) = "idle" /\ ~Visible(c)
  BY Phases DEF Init
<1> QED
  BY <1>1 DEF Init, AE!AInit, AE!None

\* Every step of the engine is a step of AtomicEngine or invisible to it.
LEMMA RefinesNext ==
  ASSUME ServerUse, BarrierInv, ResultsInv, [Next]_vars
  PROVE  [AE!ANext]_(AE!avars)
<1> USE ConstantsAssumption
<1>s. SerializedCalls
  BY DEF ServerUse
<1>t. /\ pc \in [Callers -> CallerStates]
      /\ calls \in [Callers -> Nat]
      /\ matching \in [Callers -> SUBSET RuleIds]
      /\ got \in [Callers -> SUBSET (Jobs \X RuleIds)]
      /\ hits \in [Callers -> [RuleIds -> Nat]]
      /\ newRule \in [Callers -> 0 .. MaxRules]
  BY DEF BarrierInv, TypeInv, TypeOK, CallersOK
<1>p. SingleCaller /\ ThreadsInv /\ JobsInv
  BY DEF BarrierInv, ProtocolInv
\* A step of c within a phase.
<1>v. ASSUME NEW c \in Callers,
             UNCHANGED <<calls, matching, hits, indexed>>,
             \A d \in Callers : d # c => pc'[d] = pc[d] /\ got'[d] = got[d],
             \/ pc[c] \in {"idle", "bounds", "index"} /\ pc'[c] \in {"idle", "bounds", "index"}
             \/ pc[c] \in Owning /\ pc'[c] \in Owning
             \/ pc[c] \in {"notify", "drain"} /\ pc'[c] \in {"notify", "drain"} /\ got'[c] = got[c]
      PROVE  UNCHANGED AE!avars
  <2>1. ASSUME NEW d \in Callers, d # c PROVE ViewOf(d)' = ViewOf(d)
    BY <1>v, <2>1 DEF ViewOf, Visible, PhaseOf
  <2>2. ViewOf(c)' = ViewOf(c)
    BY <1>v, Phases, PhasesNext DEF ViewOf
  <2> QED
    BY <1>v, <2>1, <2>2, SameView
\* A step that changes nothing the abstract engine shows.
<1>w. ASSUME UNCHANGED <<pc, calls, matching, hits, indexed, got>>
      PROVE  UNCHANGED AE!avars
  BY <1>w, SameView DEF ViewOf, Visible, PhaseOf
<1>1. ASSUME FinalizeReturns PROVE UNCHANGED AE!avars
  BY <1>1, <1>w DEF FinalizeReturns, callerVars, ghostVars, workerVars,
     sharedVars, engineVars, dtorVars
<1>2. ASSUME NEW c \in Callers, ProcessRulePkt(c) PROVE UNCHANGED AE!avars
  <2>1. UNCHANGED <<calls, matching, hits, indexed>>
    BY <1>2 DEF ProcessRulePkt, MayEnter, callerVars, ghostVars, workerVars,
       sharedVars, engineVars, dtorVars
  <2> QED
    BY <1>2, <1>t, <1>s, <1>v, <2>1 DEF ProcessRulePkt, MayEnter, Owning,
       CallerStates
<1>3. ASSUME NEW c \in Callers, SetBounds(c) PROVE UNCHANGED AE!avars
  <2>1. UNCHANGED <<calls, matching, hits, indexed>>
    BY <1>3 DEF SetBounds, callerVars, ghostVars, workerVars, sharedVars,
       engineVars, dtorVars
  <2> QED
    BY <1>3, <1>t, <1>s, <1>v, <2>1 DEF SetBounds, Owning, CallerStates
<1>6. ASSUME NEW c \in Callers, Install(c) PROVE UNCHANGED AE!avars
  <2>1. UNCHANGED <<calls, matching, hits, indexed>>
    BY <1>6 DEF Install, callerVars, ghostVars, workerVars, sharedVars,
       engineVars, dtorVars
  <2> QED
    BY <1>6, <1>t, <1>s, <1>v, <2>1 DEF Install, Owning, CallerStates
<1>7. ASSUME NEW c \in Callers, Await(c) PROVE UNCHANGED AE!avars
  <2>1. UNCHANGED <<calls, matching, hits, indexed>>
    BY <1>7 DEF Await, callerVars, ghostVars, workerVars, sharedVars,
       engineVars, dtorVars
  <2> QED
    BY <1>7, <1>t, <1>s, <1>v, <2>1 DEF Await, Owning, CallerStates
<1>8. ASSUME NEW c \in Callers, Resume(c) PROVE UNCHANGED AE!avars
  <2>1. UNCHANGED <<calls, matching, hits, indexed>>
    BY <1>8 DEF Resume, callerVars, ghostVars, workerVars, sharedVars,
       engineVars, dtorVars
  <2> QED
    BY <1>8, <1>t, <1>s, <1>v, <2>1 DEF Resume, Owning, CallerStates
<1>9. ASSUME NEW c \in Callers, ResetCounter(c) PROVE UNCHANGED AE!avars
  <2>1. UNCHANGED <<calls, matching, hits, indexed>>
    BY <1>9 DEF ResetCounter, callerVars, ghostVars, workerVars, sharedVars,
       engineVars, dtorVars
  <2> QED
    BY <1>9, <1>t, <1>s, <1>v, <2>1 DEF ResetCounter, Owning, CallerStates
<1>10. ASSUME NEW c \in Callers, Collect(c) PROVE UNCHANGED AE!avars
  <2>1. UNCHANGED <<calls, matching, hits, indexed>>
    BY <1>10 DEF Collect, callerVars, ghostVars, workerVars, sharedVars,
       engineVars, dtorVars
  <2> QED
    BY <1>10, <1>t, <1>s, <1>v, <2>1 DEF Collect, Owning, CallerStates
<1>12. ASSUME NEW c \in Callers, Notify(c) PROVE UNCHANGED AE!avars
  <2>1. UNCHANGED <<calls, matching, hits, indexed>>
    BY <1>12 DEF Notify, callerVars, ghostVars, workerVars, sharedVars,
       engineVars, dtorVars
  <2> QED
    BY <1>12, <1>t, <1>s, <1>v, <2>1 DEF Notify, Owning, CallerStates
<1>14. ASSUME NEW c \in Callers, DropResult(c) PROVE UNCHANGED AE!avars
  BY <1>14, <1>w DEF DropResult, callerVars, ghostVars, workerVars,
     sharedVars, engineVars, dtorVars
<1>16. ASSUME NEW w \in Workers, LockFirst(w) PROVE UNCHANGED AE!avars
  BY <1>16, <1>w DEF LockFirst, callerVars, ghostVars, workerVars, sharedVars,
     engineVars, dtorVars
<1>17. ASSUME NEW w \in Workers, Wait(w) PROVE UNCHANGED AE!avars
  BY <1>17, <1>w DEF Wait, callerVars, ghostVars, workerVars, sharedVars,
     engineVars, dtorVars
<1>18. ASSUME NEW w \in Workers, Wake(w) PROVE UNCHANGED AE!avars
  BY <1>18, <1>w DEF Wake, callerVars, ghostVars, workerVars, sharedVars,
     engineVars, dtorVars
<1>19. ASSUME NEW w \in Workers, LoadHandler(w) PROVE UNCHANGED AE!avars
  BY <1>19, <1>w DEF LoadHandler, callerVars, ghostVars, workerVars,
     sharedVars, engineVars, dtorVars
<1>22. ASSUME Destroy PROVE UNCHANGED AE!avars
  BY <1>22, <1>w DEF Destroy, callerVars, ghostVars, workerVars, sharedVars,
     engineVars, dtorVars
<1>23. ASSUME SetFinish PROVE UNCHANGED AE!avars
  BY <1>23, <1>w DEF SetFinish, callerVars, ghostVars, workerVars, sharedVars,
     engineVars, dtorVars
<1>24. ASSUME SignalFinish PROVE UNCHANGED AE!avars
  BY <1>24, <1>w DEF SignalFinish, callerVars, ghostVars, workerVars,
     sharedVars, engineVars, dtorVars
<1>25. ASSUME Join PROVE UNCHANGED AE!avars
  BY <1>25, <1>w DEF Join, callerVars, ghostVars, workerVars, sharedVars,
     engineVars, dtorVars
<1>20. ASSUME NEW w \in Workers, ProcessRule(w) PROVE UNCHANGED AE!avars
  <2>1. PICK c \in Callers : pc[c] \in Dispatching
    BY <1>20, <1>p DEF ProcessRule, SingleCaller, ThreadsInv, Quiet, Resting
  <2>2. shMh[w] = <<c, calls[c]>>
    BY <1>20, <2>1, <1>p DEF ProcessRule, JobsInv, Busy
  <2>3. \A d \in Callers : d # c => hits'[d] = hits[d]
    BY <1>20, <1>t, <2>2 DEF ProcessRule, Evaluate, ghostVars
  <2>4. UNCHANGED <<pc, calls, matching, got, indexed>>
    BY <1>20 DEF ProcessRule, callerVars, engineVars
  <2>5. ASSUME NEW d \in Callers, d # c PROVE ViewOf(d)' = ViewOf(d)
    BY <2>3, <2>4, <2>5 DEF ViewOf, Visible, PhaseOf
  <2>6. ViewOf(c)' = ViewOf(c)
    BY <2>1, <2>4, Phases, PhasesNext DEF ViewOf, Owning, Dispatching
  <2> QED
    BY <2>4, <2>5, <2>6, SameView
<1>21. ASSUME NEW w \in Workers, Report(w) PROVE UNCHANGED AE!avars
  <2>1. UNCHANGED <<calls, matching, got, hits, indexed>>
    BY <1>21 DEF Report, ghostVars
  <2>2. ASSUME NEW c \in Callers PROVE ViewOf(c)' = ViewOf(c)
    <3>1. \/ pc'[c] = pc[c]
          \/ pc[c] = "blocked" /\ pc'[c] = "signalled"
      BY <1>21, <1>t DEF Report, SignalResult
    <3>2. CASE pc'[c] = pc[c]
      BY <3>2, <2>1 DEF ViewOf, Visible, PhaseOf
    <3>3. CASE pc[c] = "blocked" /\ pc'[c] = "signalled"
      BY <3>3, <2>1, Phases, PhasesNext DEF ViewOf, Owning
    <3> QED
      BY <3>1, <3>2, <3>3
  <2> QED
    BY <2>1, <2>2, SameView
<1>26. ASSUME UNCHANGED vars PROVE UNCHANGED AE!avars
  BY <1>26, <1>w DEF vars, callerVars, ghostVars, engineVars
\* When nobody else is inside the engine, the others' views do not change.
<1>o. ASSUME NEW c \in Callers, NEW d \in Callers, d # c,
             pc[d] = "idle", pc'[d] = "idle"
      PROVE  /\ PhaseOf(d) = "idle" /\ PhaseOf(d)' = "idle"
             /\ ~Visible(d) /\ ~Visible(d)'
  BY <1>o, Phases, PhasesNext
\* The lookup of a new packet.
<1>m. ASSUME NEW c \in Callers, EnterPubPkt(c), indexed' = indexed,
             \A d \in Callers : d # c => pc[d] = "idle",
             pc[c] \in {"idle", "drain"}
      PROVE  AE!ANext
  <2>1. PICK m \in SUBSET indexed : matching' = [matching EXCEPT ![c] = m]
    BY <1>m DEF EnterPubPkt
  <2>2. \A d \in Callers : d # c => pc'[d] = "idle"
    BY <1>m, <1>t DEF EnterPubPkt
  <2>3. pc'[c] = "install" /\ matching'[c] = m
    BY <1>m, <1>t, <2>1 DEF EnterPubPkt
  <2>4. PhaseOf(c)' = "matched" /\ ~Visible(c)'
    BY <2>3, PhasesNext DEF Owning
  <2>5. \A d \in Callers : d # c =>
          /\ PhaseOf(d) = "idle" /\ PhaseOf(d)' = "idle"
          /\ ~Visible(d) /\ ~Visible(d)'
    BY <1>m, <1>o, <2>2
  <2>6. PhaseOf(c) = "idle" \/ PhaseOf(c) = "notified"
    BY <1>m, Phases
  <2>7. AE!NobodyInside \/ PhaseOf(c) = "notified"
    BY <2>5, <2>6 DEF AE!NobodyInside
  <2>8. AE!Match(c)
    BY <1>m, <2>3, <2>4, <2>5, <2>7 DEF AE!Match, AE!None
  <2> QED
    BY <2>8 DEF AE!ANext
<1>4. ASSUME NEW c \in Callers, IndexRule(c) PROVE AE!ANext
  <2>1. /\ \A d \in Callers : d # c => pc[d] = "idle"
        /\ pc[c] = "index" /\ newRule[c] \in RuleIds
    BY <1>4, <1>p DEF IndexRule, SingleCaller, BarrierInv, TypeInv, LoopInv,
       CallerLoop
  <2>2. \A d \in Callers : pc'[d] = "idle"
    BY <1>4, <1>t, <2>1 DEF IndexRule
  <2>3. \A d \in Callers : /\ PhaseOf(d) = "idle" /\ PhaseOf(d)' = "idle"
                           /\ ~Visible(d) /\ ~Visible(d)'
    BY <2>1, <2>2, Phases, PhasesNext
  <2>4. indexed' = indexed \cup {newRule[c]}
    BY <1>4 DEF IndexRule
  <2>5. AE!AddRule(newRule[c])
    BY <2>3, <2>4 DEF AE!AddRule, AE!NobodyInside
  <2> QED
    BY <2>1, <2>5 DEF AE!ANext
<1>5. ASSUME NEW c \in Callers, ProcessPubPkt(c) PROVE AE!ANext
  BY <1>5, <1>s, <1>m DEF ProcessPubPkt, MayEnter
<1>11. ASSUME NEW c \in Callers, Release(c) PROVE AE!ANext
  <2>1. /\ pc[c] = "release" /\ pc' = [pc EXCEPT ![c] = "notify"]
        /\ UNCHANGED <<calls, matching, got, hits, indexed>>
        /\ \A d \in Callers : d # c => pc[d] = "idle"
    BY <1>11, <1>p DEF Release, SingleCaller, ghostVars, engineVars
  <2>2. pc'[c] = "notify" /\ \A d \in Callers : d # c => pc'[d] = "idle"
    BY <1>t, <2>1
  <2>3. \A d \in Callers : d # c =>
          /\ PhaseOf(d) = "idle" /\ PhaseOf(d)' = "idle"
          /\ ~Visible(d) /\ ~Visible(d)'
    BY <1>o, <2>1, <2>2
  <2>4. /\ PhaseOf(c) = "matched" /\ ~Visible(c)
        /\ PhaseOf(c)' = "notified" /\ Visible(c)'
    BY <2>1, <2>2, Phases, PhasesNext DEF Owning
  <2>5. hits[c] = [r \in RuleIds |-> IF r \in matching[c] THEN 1 ELSE 0]
    <3>1. \A r \in RuleIds : hits[c][r] = IF r \in matching[c] THEN 1 ELSE 0
      BY <2>1 DEF BarrierInv, RangeInv, HitsInv
    <3> QED
      BY <3>1, <1>t
  <2> DEFINE o == {r \in RuleIds : <<<<c, calls[c]>>, r>> \in got[c]}
  <2>6. o \in SUBSET matching[c]
    <3>1. got[c] = Tokens(c) /\ produced[c] \subseteq matching[c]
      BY <2>1 DEF ResultsInv, Owning
    <3> QED
      BY <3>1 DEF Tokens
  <2>7. AE!EvaluateAll(c)
    <3> DEFINE Outs == [d \in Callers |->
                          IF Visible(d)
                          THEN {r \in RuleIds : <<<<d, calls[d]>>, r>> \in got[d]}
                          ELSE {}]
    <3>1. Outs' = [Outs EXCEPT ![c] = o]
      BY <2>1, <2>3, <2>4
    <3>2. \E x \in SUBSET (IF PhaseOf(c) = "idle" THEN {} ELSE matching[c]) :
            Outs' = [Outs EXCEPT ![c] = x]
      BY <2>4, <2>6, <3>1
    <3>3. [d \in Callers |-> PhaseOf(d)]' = [[d \in Callers |-> PhaseOf(d)] EXCEPT ![c] = "notified"]
      BY <2>3, <2>4
    <3>4. [d \in Callers |-> IF Visible(d) THEN hits[d] ELSE [r \in RuleIds |-> 0]]'
            = [[d \in Callers |-> IF Visible(d) THEN hits[d] ELSE [r \in RuleIds |-> 0]]
                 EXCEPT ![c] = [r \in RuleIds |-> IF r \in matching[c] THEN 1 ELSE 0]]
      BY <2>1, <2>3, <2>4, <2>5
    <3>5. UNCHANGED [d \in Callers |-> IF PhaseOf(d) = "idle" THEN {} ELSE matching[d]]
      BY <2>1, <2>3, <2>4
    <3> QED
      BY <2>1, <2>4, <3>2, <3>3, <3>4, <3>5 DEF AE!EvaluateAll
  <2> QED
    BY <2>7 DEF AE!ANext
<1>13. ASSUME NEW c \in Callers, Recurse(c) PROVE AE!ANext
  <2>1. \A d \in Callers : d # c => pc[d] = "idle"
    BY <1>13, <1>p DEF Recurse, SingleCaller
  <2> QED
    BY <1>13, <1>m, <2>1 DEF Recurse
<1>15. ASSUME NEW c \in Callers, Return(c) PROVE [AE!ANext]_(AE!avars)
  <2>1. /\ pc[c] = "drain"
        /\ UNCHANGED <<calls, matching, got, hits, indexed>>
        /\ \A d \in Callers : d # c => pc[d] = "idle"
        /\ \A d \in Callers : d # c => pc'[d] = "idle"
        /\ pc'[c] \in {"idle", "drain"}
    BY <1>15, <1>p, <1>t DEF Return, SingleCaller, ghostVars, engineVars
  <2>2. CASE pc'[c] = "drain"
    BY <2>1, <2>2, <1>v
  <2>3. CASE pc'[c] = "idle"
    <3>1. \A d \in Callers : d # c =>
            /\ PhaseOf(d) = "idle" /\ PhaseOf(d)' = "idle"
            /\ ~Visible(d) /\ ~Visible(d)'
      BY <1>o, <2>1
    <3>2. /\ PhaseOf(c) = "notified" /\ Visible(c)
          /\ PhaseOf(c)' = "idle" /\ ~Visible(c)'
      BY <2>1, <2>3, Phases, PhasesNext
    <3>3. AE!Finish(c)
      BY <2>1, <3>1, <3>2 DEF AE!Finish, AE!None
    <3> QED
      BY <3>3 DEF AE!ANext
  <2> QED
    BY <2>1, <2>2, <2>3
<1> QED
  BY <1>1, <1>2, <1>3, <1>4, <1>5, <1>6, <1>7, <1>8, <1>9, <1>10, <1>11,
     <1>12,
     <1>13, <1>14, <1>15, <1>16, <1>17, <1>18, <1>19, <1>20, <1>21, <1>22,
     <1>23, <1>24, <1>25, <1>26 DEF Next, CallerStep, WorkerStep, DtorStep,
     Gone

\* TRexEngine implements AtomicEngine: the threads, the counter and the collection
\* loop of processPubPkt are invisible to its callers.
THEOREM EngineIsAtomic == ServerUse => (Spec => ImplementsAtomicEngine)
<1> SUFFICES ASSUME ServerUse PROVE Spec => ImplementsAtomicEngine
  OBVIOUS
<1>1. BarrierInv /\ ResultsInv /\ [Next]_vars => [AE!ANext]_(AE!avars)
  BY RefinesNext
<1>2. Spec => [](BarrierInv /\ ResultsInv)
  BY ResultsInvariant
<1> QED
  BY RefinesInit, <1>1, <1>2, PTL DEF Spec, ImplementsAtomicEngine, AE!ASpec
=============================================================================
