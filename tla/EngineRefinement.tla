-------------------------- MODULE EngineRefinement --------------------------
(***************************************************************************)
(* TRexEngine, called by one thread at a time, implements AtomicEngine.    *)
(***************************************************************************)
EXTENDS EngineDispatch

\* A caller is between the start of a call and its listeners' notification,
\* or past it.
PhaseOf(c) ==
  CASE pc[c] \in {"idle", "bounds", "index"} -> "idle"
    [] pc[c] \in Owning                      -> "matched"
    [] OTHER                                 -> "notified"

Visible(c) == PhaseOf(c) = "notified"

AE == INSTANCE AtomicEngine WITH
  phase     <- [c \in Callers |-> PhaseOf(c)],
  want      <- [c \in Callers |-> IF PhaseOf(c) = "idle" THEN {} ELSE matching[c]],
  seen      <- [c \in Callers |-> IF Visible(c) THEN hits[c]
                                  ELSE [r \in RuleIds |-> 0]],
  out       <- [c \in Callers |-> IF Visible(c)
                                  THEN {r \in RuleIds : <<<<c, calls[c]>>, r>> \in got[c]}
                                  ELSE {}],
  installed <- indexed

\* TRexEngine's callers see an engine that evaluates each packet in one step:
\* the threads, the counter and the collection loop are invisible.
ImplementsAtomicEngine == AE!ASpec
=============================================================================
