---------------------------- MODULE AtomicEngine ----------------------------
(***************************************************************************)
(* What TRexEngine promises its callers, without threads: a packet is      *)
(* evaluated in one step by every rule that it matches, once by each, and  *)
(* the listeners get exactly the events those rules create for it.  Calls  *)
(* do not overlap, and a rule is installed between packets.                *)
(***************************************************************************)
EXTENDS Naturals

CONSTANTS Callers, RuleIds

VARIABLES
  phase,      \* of each caller: "idle", "matched" or "notified"
  want,       \* the rules its packet matches
  seen,       \* how often each rule has processed the packet
  out,        \* the rules whose events the listeners get
  installed   \* the rules known to the index

avars == <<phase, want, seen, out, installed>>

None == [r \in RuleIds |-> 0]

AInit ==
  /\ phase = [c \in Callers |-> "idle"]
  /\ want = [c \in Callers |-> {}]
  /\ seen = [c \in Callers |-> None]
  /\ out = [c \in Callers |-> {}]
  /\ installed = {}

NobodyInside == \A c \in Callers : phase[c] = "idle"

AddRule(r) ==
  /\ NobodyInside
  /\ installed' = installed \cup {r}
  /\ UNCHANGED <<phase, want, seen, out>>

\* The packet and the rules it matches; also a result that is fed back.
Match(c) ==
  /\ NobodyInside \/ phase[c] = "notified"
  /\ \E m \in SUBSET installed : want' = [want EXCEPT ![c] = m]
  /\ phase' = [phase EXCEPT ![c] = "matched"]
  /\ seen' = [seen EXCEPT ![c] = None]
  /\ out' = [out EXCEPT ![c] = {}]
  /\ UNCHANGED installed

EvaluateAll(c) ==
  /\ phase[c] = "matched"
  /\ phase' = [phase EXCEPT ![c] = "notified"]
  /\ seen' = [seen EXCEPT ![c] = [r \in RuleIds |-> IF r \in want[c] THEN 1 ELSE 0]]
  /\ \E o \in SUBSET want[c] : out' = [out EXCEPT ![c] = o]
  /\ UNCHANGED <<want, installed>>

Finish(c) ==
  /\ phase[c] = "notified"
  /\ phase' = [phase EXCEPT ![c] = "idle"]
  /\ want' = [want EXCEPT ![c] = {}]
  /\ seen' = [seen EXCEPT ![c] = None]
  /\ out' = [out EXCEPT ![c] = {}]
  /\ UNCHANGED installed

ANext ==
  \/ \E r \in RuleIds : AddRule(r)
  \/ \E c \in Callers : Match(c) \/ EvaluateAll(c) \/ Finish(c)

ASpec == AInit /\ [][ANext]_avars
=============================================================================
