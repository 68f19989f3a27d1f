--------------------------- MODULE EngineDispatch ---------------------------
(***************************************************************************)
(* The thread protocol of TRexEngine (TRex2-lib/src/Engine/TRexEngine.cc). *)
(*                                                                         *)
(* finalize() starts NumProc threads that run processor().  Each of them   *)
(* sleeps on its own condition variable until a call of processPubPkt()    *)
(* stores a packet and its MatchingHandler in the thread's Shared record   *)
(* and signals it; it then evaluates its own range of rules, decrements    *)
(* the shared counter stillProcessing and sleeps again.  The caller waits  *)
(* for the counter to reach 0, resets it, collects the results of every    *)
(* thread, frees the packet and the handler, notifies the listeners and    *)
(* feeds the results back into the engine.                                 *)
(*                                                                         *)
(* Mutexes.  shared[w].processMutex is held across two steps by thread w   *)
(* only, between line 92 (or 36) and the cond_wait of line 41: that is the *)
(* worker state "locked".  resultMutex and the callers' critical sections  *)
(* never span two steps, so neither mutex needs a variable.                *)
(* cond_wait returns only after a signal: a platform on which it may       *)
(* return without one is not modelled.                                     *)
(***************************************************************************)
EXTENDS Integers, Sequences, FiniteSets

CONSTANTS
  NumProc,            \* numProc, the number of processor threads
  Callers,            \* threads that call into the engine
  MaxRules,           \* bound: rules ever installed
  MaxPublications,    \* bound: top-level processPubPkt calls per caller
  MaxRecursionDepth,  \* MAX_RECURSION_DEPTH of Consts.h
  SerializedCalls,    \* TRUE: at most one caller is inside the engine
  StartupSettled      \* TRUE: finalize's usleep outlasts the threads' start

ASSUME ConstantsAssumption ==
  /\ NumProc \in Nat \ {0}
  /\ Callers # {}
  /\ MaxRules \in Nat
  /\ MaxPublications \in Nat
  /\ MaxRecursionDepth \in Nat
  /\ SerializedCalls \in BOOLEAN
  /\ StartupSettled \in BOOLEAN

Workers == 0 .. NumProc - 1

RuleIds == 0 .. MaxRules - 1

\* A packet together with its MatchingHandler: the n-th one of caller c.
\* <<c, 0>> stands for an uninitialised pointer.
Jobs == Callers \X Nat

VARIABLES
  \* ---- caller c ----
  pc,               \* where the caller is in its call
  idx,              \* its loop counter over the threads
  calls,            \* how many packets it has created so far
  published,        \* how many of them were top-level calls
  matching,         \* rules named by the MatchingHandler of its packet
  got,              \* its local set result
  frames,           \* results still to be recursed on, one count per frame
  newRule,          \* id of the rule it is installing
  hits,             \* ghost: how often each rule processed its packet
  produced,         \* ghost: rules that created an event for its packet
  \* ---- thread w and its Shared record ----
  wpc,              \* where the thread is in processor()
  job,              \* the local variable mh
  cur, wend,        \* the locals i and upperBound of its loop
  shMh,             \* Shared.mh and Shared.pkt
  lowerBound, upperBound, finish, result,
  \* ---- the engine ----
  stillProcessing,
  rules,            \* stacksRules->size()
  indexed,          \* rules installed in indexingTable
  recursionDepth, recursionNeeded,
  ready,            \* finalize has returned
  dpc, didx         \* the destructor

callerVars == <<pc, idx, calls, published, matching, got, frames, newRule>>
ghostVars  == <<hits, produced>>
workerVars == <<wpc, job, cur, wend>>
sharedVars == <<shMh, lowerBound, upperBound, finish, result>>
engineVars == <<stillProcessing, rules, indexed, recursionDepth,
                recursionNeeded, ready>>
dtorVars   == <<dpc, didx>>
vars == <<callerVars, ghostVars, workerVars, sharedVars, engineVars, dtorVars>>

CallerStates == {"idle", "install", "await", "blocked", "signalled", "reset",
                 "collect", "release", "notify", "drain", "bounds", "index"}
WorkerStates == {"start", "locked", "waiting", "woken", "load", "process",
                 "exited"}
DtorStates   == {"alive", "finish", "signal", "join", "gone"}

\* Mutant of RangeSize: the rounding is forgotten.
MutRangeSize(n) == n \div NumProc

\* The range of thread w when n rules are installed.
RangeSize(n) == (n \div NumProc) + 1
Lower(n, w)  == RangeSize(n) * w
\* Mutant of Upper: the range takes the first rule of the next thread too.
MutUpper(n, w) == RangeSize(n) * (w + 1) + 1

Upper(n, w)  == RangeSize(n) * (w + 1)

CallersOK ==
  /\ pc \in [Callers -> CallerStates]
  /\ idx \in [Callers -> 0 .. NumProc]
  /\ calls \in [Callers -> Nat]
  /\ published \in [Callers -> 0 .. MaxPublications]
  /\ matching \in [Callers -> SUBSET RuleIds]
  /\ got \in [Callers -> SUBSET (Jobs \X RuleIds)]
  /\ frames \in [Callers -> Seq(Nat)]
  /\ newRule \in [Callers -> 0 .. MaxRules]
  /\ hits \in [Callers -> [RuleIds -> Nat]]
  /\ produced \in [Callers -> SUBSET RuleIds]

ThreadsOK ==
  /\ wpc \in [Workers -> WorkerStates]
  /\ job \in [Workers -> Jobs]
  /\ cur \in [Workers -> Nat]
  /\ wend \in [Workers -> Nat]
  /\ shMh \in [Workers -> Jobs]
  /\ lowerBound \in [Workers -> Nat]
  /\ upperBound \in [Workers -> Nat]
  /\ finish \in [Workers -> BOOLEAN]
  /\ result \in [Workers -> SUBSET (Jobs \X RuleIds)]

EngineOK ==
  /\ stillProcessing \in Int
  /\ rules \in 0 .. MaxRules
  /\ indexed \in SUBSET RuleIds
  /\ recursionDepth \in Nat
  /\ recursionNeeded \in BOOLEAN
  /\ ready \in BOOLEAN
  /\ dpc \in DtorStates
  /\ didx \in 0 .. NumProc

\* The type invariant: every variable has the type of the C++ object it stands
\* for, and no counter leaves its bound.
TypeOK == CallersOK /\ ThreadsOK /\ EngineOK

\* finalize() up to its usleep: the Shared records are set up for an engine
\* without rules and the threads are created.
Init ==
  /\ pc = [c \in Callers |-> "idle"]
  /\ idx = [c \in Callers |-> 0]
  /\ calls = [c \in Callers |-> 0]
  /\ published = [c \in Callers |-> 0]
  /\ matching = [c \in Callers |-> {}]
  /\ got = [c \in Callers |-> {}]
  /\ frames = [c \in Callers |-> <<>>]
  /\ newRule = [c \in Callers |-> 0]
  /\ hits = [c \in Callers |-> [r \in RuleIds |-> 0]]
  /\ produced = [c \in Callers |-> {}]
  /\ wpc = [w \in Workers |-> "start"]
  /\ \E c \in Callers : /\ job = [w \in Workers |-> <<c, 0>>]
                        /\ shMh = [w \in Workers |-> <<c, 0>>]
  /\ cur = [w \in Workers |-> 0]
  /\ wend = [w \in Workers |-> 0]
  /\ lowerBound = [w \in Workers |-> Lower(0, w)]
  /\ upperBound = [w \in Workers |-> Upper(0, w)]
  /\ finish = [w \in Workers |-> FALSE]
  /\ result = [w \in Workers |-> {}]
  /\ stillProcessing = NumProc
  /\ rules = 0
  /\ indexed = {}
  /\ recursionDepth = 0
  /\ recursionNeeded = FALSE
  /\ ready = FALSE
  /\ dpc = "alive"
  /\ didx = 0

\* finalize() returns.  Nothing but the length of the sleep makes it wait for
\* the threads to reach their first cond_wait.
FinalizeReturns ==
  /\ ~ready
  /\ StartupSettled => \A w \in Workers : wpc[w] = "waiting"
  /\ ready' = TRUE
  /\ UNCHANGED <<callerVars, ghostVars, workerVars, sharedVars, stillProcessing,
                 rules, indexed, recursionDepth, recursionNeeded, dtorVars>>

-----------------------------------------------------------------------------
(***************************************************************************)
(* Synchronisation primitives.                                             *)
(***************************************************************************)
\* Nobody holds shared[w].processMutex.
ProcessMutexFree(w) == wpc[w] # "locked"

\* pthread_cond_signal(shared[w].processCond): lost unless w is waiting.
SignalWorker(w) ==
  wpc' = [wpc EXCEPT ![w] = IF @ = "waiting" THEN "woken" ELSE @]

\* pthread_cond_signal(resultCond): wakes one blocked caller, if any.
SignalResult ==
  IF \E c \in Callers : pc[c] = "blocked"
  THEN \E c \in Callers : /\ pc[c] = "blocked"
                          /\ pc' = [pc EXCEPT ![c] = "signalled"]
  ELSE pc' = pc

\* A caller may enter the engine.
MayEnter(c) ==
  /\ ready
  /\ dpc = "alive"
  /\ pc[c] = "idle"
  /\ SerializedCalls => \A d \in Callers : pc[d] = "idle"

\* The states of a caller in which its packet and handler are not yet freed.
Owning == {"install", "await", "blocked", "signalled", "reset", "collect",
           "release"}

\* The packet and the MatchingHandler of job j have not been freed.
Live(j) == pc[j[1]] \in Owning /\ calls[j[1]] = j[2]

-----------------------------------------------------------------------------
(***************************************************************************)
(* processRulePkt.  The rule's id is the number of rules installed before. *)
(* Whether the rule closes a cycle between output and input event types    *)
(* (setRecursionNeeded) is an input.                                       *)
(***************************************************************************)
ProcessRulePkt(c) ==
  /\ MayEnter(c)
  /\ rules < MaxRules
  /\ \E cyclic \in BOOLEAN : recursionNeeded' = (recursionNeeded \/ cyclic)
  /\ rules' = rules + 1
  /\ newRule' = [newRule EXCEPT ![c] = rules]
  /\ pc' = [pc EXCEPT ![c] = "bounds"]
  /\ idx' = [idx EXCEPT ![c] = 0]
  /\ UNCHANGED <<calls, published, matching, got, frames, ghostVars, workerVars,
                 sharedVars, stillProcessing, indexed, recursionDepth, ready,
                 dtorVars>>

\* One iteration of the loop that gives thread idx[c] its new range.
SetBounds(c) ==
  /\ pc[c] = "bounds"
  /\ ProcessMutexFree(idx[c])
  /\ lowerBound' = [lowerBound EXCEPT ![idx[c]] = Lower(newRule[c] + 1, idx[c])]
  /\ upperBound' = [upperBound EXCEPT ![idx[c]] = Upper(newRule[c] + 1, idx[c])]
  /\ idx' = [idx EXCEPT ![c] = @ + 1]
  /\ pc' = [pc EXCEPT ![c] = IF idx[c] + 1 = NumProc THEN "index" ELSE @]
  /\ UNCHANGED <<calls, published, matching, got, frames, newRule, ghostVars,
                 workerVars, shMh, finish, result, engineVars, dtorVars>>

\* indexingTable.installRulePkt makes packets match the rule.
IndexRule(c) ==
  /\ pc[c] = "index"
  /\ indexed' = indexed \cup {newRule[c]}
  /\ pc' = [pc EXCEPT ![c] = "idle"]
  /\ UNCHANGED <<idx, calls, published, matching, got, frames, newRule,
                 ghostVars, workerVars, sharedVars, stillProcessing, rules,
                 recursionDepth, recursionNeeded, ready, dtorVars>>

-----------------------------------------------------------------------------
(***************************************************************************)
(* processPubPkt.                                                          *)
(***************************************************************************)
\* The index lookup: a new packet with the rules it matches.
EnterPubPkt(c) ==
  /\ \E m \in SUBSET indexed : matching' = [matching EXCEPT ![c] = m]
  /\ calls' = [calls EXCEPT ![c] = @ + 1]
  /\ hits' = [hits EXCEPT ![c] = [r \in RuleIds |-> 0]]
  /\ produced' = [produced EXCEPT ![c] = {}]
  /\ got' = [got EXCEPT ![c] = {}]
  /\ idx' = [idx EXCEPT ![c] = 0]
  /\ pc' = [pc EXCEPT ![c] = "install"]

ProcessPubPkt(c) ==
  /\ MayEnter(c)
  /\ published[c] < MaxPublications
  /\ published' = [published EXCEPT ![c] = @ + 1]
  /\ recursionDepth' = 0
  /\ EnterPubPkt(c)
  /\ UNCHANGED <<frames, newRule, workerVars, sharedVars, stillProcessing, rules,
                 indexed, recursionNeeded, ready, dtorVars>>

\* One iteration of the loop that hands the packet to thread idx[c].
Install(c) ==
  /\ pc[c] = "install"
  /\ ProcessMutexFree(idx[c])
  /\ shMh' = [shMh EXCEPT ![idx[c]] = <<c, calls[c]>>]
  /\ SignalWorker(idx[c])
  /\ idx' = [idx EXCEPT ![c] = @ + 1]
  /\ pc' = [pc EXCEPT ![c] = IF idx[c] + 1 = NumProc THEN "await" ELSE @]
  /\ UNCHANGED <<calls, published, matching, got, frames, newRule, ghostVars,
                 job, cur, wend, lowerBound, upperBound, finish, result,
                 engineVars, dtorVars>>

\* Mutant of Await: the caller does not wait.
MutAwait(c) ==
  /\ pc[c] = "await"
  /\ pc' = [pc EXCEPT ![c] = "reset"]
  /\ UNCHANGED <<idx, calls, published, matching, got, frames, newRule, ghostVars,
                 workerVars, sharedVars, engineVars, dtorVars>>

\* The counter is tested once, and the caller sleeps at most once.
Await(c) ==
  /\ pc[c] = "await"
  /\ pc' = [pc EXCEPT ![c] = IF stillProcessing # 0 THEN "blocked" ELSE "reset"]
  /\ UNCHANGED <<idx, calls, published, matching, got, frames, newRule, ghostVars,
                 workerVars, sharedVars, engineVars, dtorVars>>

\* pthread_cond_wait returns.
Resume(c) ==
  /\ pc[c] = "signalled"
  /\ pc' = [pc EXCEPT ![c] = "reset"]
  /\ UNCHANGED <<idx, calls, published, matching, got, frames, newRule, ghostVars,
                 workerVars, sharedVars, engineVars, dtorVars>>

\* Mutant of ResetCounter: the counter is left at 0.
MutResetCounter(c) ==
  /\ pc[c] = "reset"
  /\ idx' = [idx EXCEPT ![c] = 0]
  /\ pc' = [pc EXCEPT ![c] = "collect"]
  /\ UNCHANGED <<calls, published, matching, got, frames, newRule, ghostVars,
                 workerVars, sharedVars, engineVars, dtorVars>>

\* The counter is reset after resultMutex has been released.
ResetCounter(c) ==
  /\ pc[c] = "reset"
  /\ stillProcessing' = NumProc
  /\ idx' = [idx EXCEPT ![c] = 0]
  /\ pc' = [pc EXCEPT ![c] = "collect"]
  /\ UNCHANGED <<calls, published, matching, got, frames, newRule, ghostVars,
                 workerVars, sharedVars, rules, indexed, recursionDepth,
                 recursionNeeded, ready, dtorVars>>

\* Mutant of Collect: shared[i].result is not cleared.
MutCollect(c) ==
  /\ pc[c] = "collect"
  /\ got' = [got EXCEPT ![c] = @ \cup result[idx[c]]]
  /\ idx' = [idx EXCEPT ![c] = @ + 1]
  /\ pc' = [pc EXCEPT ![c] = IF idx[c] + 1 = NumProc THEN "release" ELSE @]
  /\ UNCHANGED <<calls, published, matching, frames, newRule, ghostVars,
                 workerVars, sharedVars, engineVars, dtorVars>>

\* One iteration of the loop that moves the results of thread idx[c].
Collect(c) ==
  /\ pc[c] = "collect"
  /\ got' = [got EXCEPT ![c] = @ \cup result[idx[c]]]
  /\ result' = [result EXCEPT ![idx[c]] = {}]
  /\ idx' = [idx EXCEPT ![c] = @ + 1]
  /\ pc' = [pc EXCEPT ![c] = IF idx[c] + 1 = NumProc THEN "release" ELSE @]
  /\ UNCHANGED <<calls, published, matching, frames, newRule, ghostVars,
                 workerVars, shMh, lowerBound, upperBound, finish, engineVars,
                 dtorVars>>

\* The caller drops its reference to the packet and deletes the handler.
Release(c) ==
  /\ pc[c] = "release"
  /\ pc' = [pc EXCEPT ![c] = "notify"]
  /\ UNCHANGED <<idx, calls, published, matching, got, frames, newRule, ghostVars,
                 workerVars, sharedVars, engineVars, dtorVars>>

\* Every listener handles the set got[c]; the loop over the results starts.
Notify(c) ==
  /\ pc[c] = "notify"
  /\ frames' = [frames EXCEPT ![c] = Append(@, Cardinality(got[c]))]
  /\ pc' = [pc EXCEPT ![c] = "drain"]
  /\ UNCHANGED <<idx, calls, published, matching, got, newRule, ghostVars,
                 workerVars, sharedVars, engineVars, dtorVars>>

\* The number of results left in the innermost frame of the recursion.
Pending(c) == frames[c][Len(frames[c])]

\* The condition under which a result is fed back into the engine.
MayRecurse == recursionNeeded /\ recursionDepth < MaxRecursionDepth

\* The innermost frame of caller c has one result less.
TakeResult(c) ==
  frames' = [frames EXCEPT ![c] = [frames[c] EXCEPT ![Len(frames[c])] = @ - 1]]

\* Mutant of Recurse: the depth is not counted.
MutRecurse(c) ==
  /\ pc[c] = "drain"
  /\ Pending(c) > 0
  /\ MayRecurse
  /\ TakeResult(c)
  /\ EnterPubPkt(c)
  /\ UNCHANGED <<published, newRule, workerVars, sharedVars, engineVars, dtorVars>>

\* A copy of the next result is processed by a nested call.
Recurse(c) ==
  /\ pc[c] = "drain"
  /\ Pending(c) > 0
  /\ MayRecurse
  /\ recursionDepth' = recursionDepth + 1
  /\ TakeResult(c)
  /\ EnterPubPkt(c)
  /\ UNCHANGED <<published, newRule, workerVars, sharedVars, stillProcessing,
                 rules, indexed, recursionNeeded, ready, dtorVars>>

\* Mutant of DropResult: one result too many is released.
MutDropResult(c) ==
  /\ pc[c] = "drain"
  /\ Pending(c) >= 0
  /\ ~MayRecurse
  /\ TakeResult(c)
  /\ UNCHANGED <<pc, idx, calls, published, matching, got, newRule, ghostVars,
                 workerVars, sharedVars, engineVars, dtorVars>>

\* The next result is only released.
DropResult(c) ==
  /\ pc[c] = "drain"
  /\ Pending(c) > 0
  /\ ~MayRecurse
  /\ TakeResult(c)
  /\ UNCHANGED <<pc, idx, calls, published, matching, got, newRule, ghostVars,
                 workerVars, sharedVars, engineVars, dtorVars>>

\* The innermost call returns.
Return(c) ==
  /\ pc[c] = "drain"
  /\ Pending(c) = 0
  /\ frames' = [frames EXCEPT ![c] = SubSeq(@, 1, Len(@) - 1)]
  /\ pc' = [pc EXCEPT ![c] = IF Len(frames[c]) = 1 THEN "idle" ELSE @]
  /\ UNCHANGED <<idx, calls, published, matching, got, newRule, ghostVars,
                 workerVars, sharedVars, engineVars, dtorVars>>

-----------------------------------------------------------------------------
(***************************************************************************)
(* processor(), the body of thread w.                                      *)
(***************************************************************************)
\* First iteration: the thread locks its processMutex.
LockFirst(w) ==
  /\ wpc[w] = "start"
  /\ wpc' = [wpc EXCEPT ![w] = "locked"]
  /\ UNCHANGED <<callerVars, ghostVars, job, cur, wend, sharedVars, engineVars,
                 dtorVars>>

\* pthread_cond_wait releases processMutex.
Wait(w) ==
  /\ wpc[w] = "locked"
  /\ wpc' = [wpc EXCEPT ![w] = "waiting"]
  /\ UNCHANGED <<callerVars, ghostVars, job, cur, wend, sharedVars, engineVars,
                 dtorVars>>

\* Mutant of Wake: the loop starts at the second rule of the range.
MutWake(w) ==
  /\ wpc[w] = "woken"
  /\ cur' = [cur EXCEPT ![w] = lowerBound[w] + 1]
  /\ wend' = [wend EXCEPT ![w] = upperBound[w]]
  /\ wpc' = [wpc EXCEPT ![w] = IF finish[w] THEN "exited" ELSE "load"]
  /\ UNCHANGED <<callerVars, ghostVars, job, sharedVars, engineVars, dtorVars>>

\* pthread_cond_wait returns: the range and finish are read under the mutex.
Wake(w) ==
  /\ wpc[w] = "woken"
  /\ cur' = [cur EXCEPT ![w] = lowerBound[w]]
  /\ wend' = [wend EXCEPT ![w] = upperBound[w]]
  /\ wpc' = [wpc EXCEPT ![w] = IF finish[w] THEN "exited" ELSE "load"]
  /\ UNCHANGED <<callerVars, ghostVars, job, sharedVars, engineVars, dtorVars>>

\* s->mh is read after the mutex has been released.
LoadHandler(w) ==
  /\ wpc[w] = "load"
  /\ job' = [job EXCEPT ![w] = shMh[w]]
  /\ wpc' = [wpc EXCEPT ![w] = "process"]
  /\ UNCHANGED <<callerVars, ghostVars, cur, wend, sharedVars, engineVars,
                 dtorVars>>

\* What the lookups of rule i in handler j can answer: a freed handler
\* answers anything.
Lookup(j, i) == IF Live(j) THEN {i \in matching[j[1]]} ELSE BOOLEAN

\* Rule i of thread w gets the packet, which is read again from Shared, and
\* creates a composite event or not.
Evaluate(w, i) ==
  LET p == shMh[w]
  IN  IF Live(p) /\ i \in RuleIds
      THEN /\ hits' = [hits EXCEPT ![p[1]][i] = @ + 1]
           /\ \/ UNCHANGED <<produced, result>>
              \/ /\ produced' = [produced EXCEPT ![p[1]] = @ \cup {i}]
                 /\ result' = [result EXCEPT ![w] = @ \cup {<<p, i>>}]
      ELSE UNCHANGED <<ghostVars, result>>

\* One iteration of the loop over the range.
ProcessRule(w) ==
  /\ wpc[w] = "process"
  /\ cur[w] < wend[w]
  /\ \E found \in Lookup(job[w], cur[w]) :
       IF found THEN Evaluate(w, cur[w]) ELSE UNCHANGED <<ghostVars, result>>
  /\ cur' = [cur EXCEPT ![w] = @ + 1]
  /\ UNCHANGED <<callerVars, wpc, job, wend, shMh, lowerBound, upperBound, finish,
                 engineVars, dtorVars>>

\* Mutant of Report: the last thread does not find the counter at 0.
MutReport(w) ==
  /\ wpc[w] = "process"
  /\ cur[w] >= wend[w]
  /\ wpc' = [wpc EXCEPT ![w] = "locked"]
  /\ stillProcessing' = stillProcessing - 1
  /\ IF stillProcessing = 0 THEN SignalResult ELSE pc' = pc
  /\ UNCHANGED <<idx, calls, published, matching, got, frames, newRule, ghostVars,
                 job, cur, wend, sharedVars, rules, indexed, recursionDepth,
                 recursionNeeded, ready, dtorVars>>

\* The thread takes processMutex, counts itself out and, as the last one,
\* signals the caller.
Report(w) ==
  /\ wpc[w] = "process"
  /\ cur[w] >= wend[w]
  /\ wpc' = [wpc EXCEPT ![w] = "locked"]
  /\ stillProcessing' = stillProcessing - 1
  /\ IF stillProcessing = 1 THEN SignalResult ELSE pc' = pc
  /\ UNCHANGED <<idx, calls, published, matching, got, frames, newRule, ghostVars,
                 job, cur, wend, sharedVars, rules, indexed, recursionDepth,
                 recursionNeeded, ready, dtorVars>>

-----------------------------------------------------------------------------
(***************************************************************************)
(* ~TRexEngine, run when no call is in progress.                           *)
(***************************************************************************)
Destroy ==
  /\ ready
  /\ dpc = "alive"
  /\ \A c \in Callers : pc[c] = "idle"
  /\ dpc' = "finish"
  /\ UNCHANGED <<callerVars, ghostVars, workerVars, sharedVars, engineVars, didx>>

\* finish is written without the mutex.
SetFinish ==
  /\ dpc = "finish"
  /\ finish' = [finish EXCEPT ![didx] = TRUE]
  /\ dpc' = "signal"
  /\ UNCHANGED <<callerVars, ghostVars, workerVars, shMh, lowerBound, upperBound,
                 result, engineVars, didx>>

\* Mutant of SignalFinish: processMutex is not taken before the signal.
MutSignalFinish ==
  /\ dpc = "signal"
  /\ SignalWorker(didx)
  /\ dpc' = "join"
  /\ UNCHANGED <<callerVars, ghostVars, job, cur, wend, sharedVars, engineVars,
                 didx>>

SignalFinish ==
  /\ dpc = "signal"
  /\ ProcessMutexFree(didx)
  /\ SignalWorker(didx)
  /\ dpc' = "join"
  /\ UNCHANGED <<callerVars, ghostVars, job, cur, wend, sharedVars, engineVars,
                 didx>>

\* pthread_join returns; after the last thread the shared state is deleted.
Join ==
  /\ dpc = "join"
  /\ wpc[didx] = "exited"
  /\ didx' = didx + 1
  /\ dpc' = IF didx + 1 = NumProc THEN "gone" ELSE "finish"
  /\ UNCHANGED <<callerVars, ghostVars, workerVars, sharedVars, engineVars>>

\* The engine has been destroyed; nothing happens any more.
Gone == dpc = "gone" /\ UNCHANGED vars

-----------------------------------------------------------------------------
CallerStep(c) ==
  \/ SetBounds(c) \/ IndexRule(c)
  \/ Install(c) \/ Await(c) \/ Resume(c) \/ ResetCounter(c) \/ Collect(c)
  \/ Release(c) \/ Notify(c) \/ Recurse(c) \/ DropResult(c) \/ Return(c)

WorkerStep(w) ==
  \/ LockFirst(w) \/ Wait(w) \/ Wake(w) \/ LoadHandler(w) \/ ProcessRule(w)
  \/ Report(w)

DtorStep == SetFinish \/ SignalFinish \/ Join

Next ==
  \/ FinalizeReturns
  \/ \E c \in Callers : ProcessRulePkt(c) \/ ProcessPubPkt(c) \/ CallerStep(c)
  \/ \E w \in Workers : WorkerStep(w)
  \/ Destroy \/ DtorStep \/ Gone

Spec == Init /\ [][Next]_vars

\* Every thread that can run eventually does: the scheduler is fair and every
\* lock acquisition is eventually served.  Nobody has to publish, to install a
\* rule or to destroy the engine.
Fairness ==
  /\ WF_vars(FinalizeReturns)
  /\ \A c \in Callers : WF_vars(CallerStep(c))
  /\ \A w \in Workers : WF_vars(WorkerStep(w))
  /\ WF_vars(DtorStep)

FairSpec == Spec /\ Fairness

-----------------------------------------------------------------------------
(***************************************************************************)
(* Properties.                                                             *)
(***************************************************************************)
\* Once the caller is past its wait (TRexEngine.cc:226, "Waits until all
\* processes finish"), every thread is back at its cond_wait and every rule
\* the packet matched has processed it exactly once, no other rule at all.
BarrierHolds ==
  \A c \in Callers : pc[c] \in {"reset", "collect", "release"} =>
    /\ \A w \in Workers : wpc[w] \in {"locked", "waiting"}
    /\ \A r \in RuleIds : hits[c][r] = IF r \in matching[c] THEN 1 ELSE 0

\* A thread never works with a packet or a MatchingHandler that processPubPkt
\* has freed, and s->mh and s->pkt do not change under it.
NoUseAfterFree ==
  \A w \in Workers : wpc[w] = "process" => Live(job[w]) /\ job[w] = shMh[w]

\* What processPubPkt passes to the listeners is exactly the set of events the
\* threads created for this packet: none lost, none left over from another one.
ListenersGetAllResults ==
  \A c \in Callers : pc[c] = "notify" =>
    got[c] = {<<<<c, calls[c]>>, r>> : r \in produced[c]}

\* While packets can be matched, every rule a packet can match is in the range
\* of exactly one thread: processRulePkt's ranges leave out no rule and give no
\* rule to two threads.
RangesPartitionRules ==
  (\A c \in Callers : pc[c] \notin {"bounds", "index"}) =>
    \A r \in indexed : \E w \in Workers :
      /\ lowerBound[w] <= r /\ r < upperBound[w]
      /\ \A v \in Workers \ {w} : ~(lowerBound[v] <= r /\ r < upperBound[v])

\* No StacksRule is touched by two threads: it has no lock of its own.
RuleExclusion ==
  \A v, w \in Workers :
    (v # w /\ wpc[v] \in {"load", "process"} /\ wpc[w] \in {"load", "process"}) =>
      wend[v] <= cur[w] \/ wend[w] <= cur[v]

\* Recursion is never deeper than MAX_RECURSION_DEPTH, whatever cycles the
\* rules form.
RecursionBounded == \A c \in Callers : Len(frames[c]) <= MaxRecursionDepth + 1

\* Every call into the engine returns: no wakeup is lost, the recursion ends.
EveryCallReturns == \A c \in Callers : (pc[c] # "idle") ~> (pc[c] = "idle")

\* The destructor joins all the threads.
DestructionEnds == (dpc # "alive") ~> (dpc = "gone")
=============================================================================
