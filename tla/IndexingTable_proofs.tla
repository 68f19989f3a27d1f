------------------------ MODULE IndexingTable_proofs ------------------------
(***************************************************************************)
(* The index finds exactly the predicates that a packet matches, for every *)
(* set of rules without string constraints and whatever they share.        *)
(***************************************************************************)
EXTENDS IndexingTable, FiniteSetTheorems, TLAPS

\* s is a sequence, whatever its elements are.
IsSequence(s) == Len(s) \in Nat /\ s = [i \in 1 .. Len(s) |-> s[i]]

\* The constraints the indexes of numbers and of booleans are made for.  Those of
\* strings are left out: their index takes different values for equal.
Indexable(c) ==
  \/ c.type \in {"int", "float"} /\ c.op \in {"EQ", "NE", "LT", "GT", "LE", "GE"}
  \/ c.type = "bool" /\ c.op \in {"EQ", "NE"}

SameConstraint(c, d) == c.type = d.type /\ c.name = d.name /\ c.op = d.op /\ c.val = d.val

\* No predicate states a constraint twice: the table would connect it once and
\* constraintsNum would count it twice.
RulesOK ==
  \A rule \in RulePkts :
    /\ IsSequence(rule)
    /\ \A i \in 1 .. Len(rule) :
         /\ IsSequence(rule[i].constraints)
         /\ \A j \in 1 .. Len(rule[i].constraints) :
              /\ Indexable(rule[i].constraints[j])
              /\ \A m \in 1 .. Len(rule[i].constraints) :
                   SameConstraint(rule[i].constraints[j], rule[i].constraints[m]) => j = m

\* A packet has one attribute of a name: they are the keys of its contentMap.
PacketsOK ==
  \A pkt \in PubPkts :
    /\ IsSequence(pkt.attributes)
    /\ \A i, m \in 1 .. Len(pkt.attributes) :
         pkt.attributes[i].name = pkt.attributes[m].name => i = m

\* Table constraint t stands for constraint c on event type et.
Stands(t, et, c) == t.eventType = et /\ SameConstraint(t, c)

\* A table constraint, as a record of the right fields.
EntryShape(t) ==
  t = [eventType |-> t.eventType, type |-> t.type, name |-> t.name, op |-> t.op,
       val |-> t.val, preds |-> t.preds, indexed |-> t.indexed]

TableInv ==
  /\ IsSequence(table)
  /\ \A k \in 1 .. Len(table) : EntryShape(table[k])
  /\ \A p \in todo : p[1] \in 1 .. Len(rules[Len(rules)]) /\ rules # <<>>
                     /\ p[2] \in 1 .. Len(rules[Len(rules)][p[1]].constraints)

\* Constraint j of predicate tp has been installed.
Installed(tp, j) == tp[1] = Len(rules) => <<tp[2], j>> \notin todo

\* Every constraint that is installed has its predicate at the table constraint
\* that stands for it, and a table constraint has no other predicates.
LinkInv ==
  /\ \A tp \in Preds : \A j \in 1 .. Len(Pred(tp).constraints) :
       Installed(tp, j) =>
         \E k \in 1 .. Len(table) :
           Stands(table[k], Pred(tp).eventType, Pred(tp).constraints[j]) /\ tp \in table[k].preds
  /\ \A k \in 1 .. Len(table) : \A tp \in table[k].preds :
       \E j \in 1 .. Len(Pred(tp).constraints) :
         Stands(table[k], Pred(tp).eventType, Pred(tp).constraints[j])

IndexInv == TypeOK /\ TableInv /\ LinkInv /\ ConstraintsShared

-----------------------------------------------------------------------------
(* Sequences.                                                              *)

\* A sequence is a sequence over its elements.
LEMMA SequenceIn ==
  ASSUME NEW s, IsSequence(s)
  PROVE  s \in Seq({s[i] : i \in 1 .. Len(s)})
BY DEF IsSequence

\* And the other way round.
LEMMA SequenceOf ==
  ASSUME NEW S, NEW s \in Seq(S)
  PROVE  IsSequence(s)
BY DEF IsSequence

\* Appending changes no earlier element.
LEMMA SequenceAppend ==
  ASSUME NEW s, IsSequence(s), NEW e
  PROVE  /\ IsSequence(Append(s, e))
         /\ Len(Append(s, e)) = Len(s) + 1
         /\ \A i \in 1 .. Len(s) : Append(s, e)[i] = s[i]
         /\ Append(s, e)[Len(s) + 1] = e
<1> DEFINE S == {s[i] : i \in 1 .. Len(s)} \cup {e}
<1>1. s \in Seq(S) /\ e \in S
  BY DEF IsSequence
<1> HIDE DEF S
<1>2. /\ Append(s, e) \in Seq(S)
      /\ Len(Append(s, e)) = Len(s) + 1
      /\ \A i \in 1 .. Len(s) : Append(s, e)[i] = s[i]
      /\ Append(s, e)[Len(s) + 1] = e
  BY <1>1
<1> QED
  BY <1>2, SequenceOf

\* The empty sequence is the one of length 0.
LEMMA SequenceEmpty ==
  ASSUME NEW s, IsSequence(s)
  PROVE  s = <<>> <=> Len(s) = 0
BY SequenceIn

-----------------------------------------------------------------------------
(* Predicates.                                                             *)

\* A predicate is known by its rule and its place in it.
LEMMA PredsDef ==
  \A tp : tp \in Preds <=>
    \E r \in 1 .. Len(rules) : \E i \in 1 .. Len(rules[r]) : tp = <<r, i>>
BY DEF Preds

\* Installing a rule adds its predicates and leaves the others as they are.
LEMMA PredsGrow ==
  ASSUME NEW rule \in RulePkts, rules \in Seq(RulePkts), rules' = Append(rules, rule)
  PROVE  /\ rules' \in Seq(RulePkts) /\ Len(rules') = Len(rules) + 1
         /\ rules'[Len(rules')] = rule
         /\ \A tp \in Preds : /\ tp \in Preds' /\ Pred(tp)' = Pred(tp)
                               /\ tp[1] \in 1 .. Len(rules)
         /\ \A i \in 1 .. Len(rule) : <<Len(rules'), i>> \in Preds'
         /\ \A tp \in Preds' : tp \notin Preds =>
              /\ tp[1] = Len(rules') /\ tp[2] \in 1 .. Len(rule)
              /\ Pred(tp)' = rule[tp[2]]
<1>1. /\ rules' \in Seq(RulePkts) /\ Len(rules') = Len(rules) + 1 /\ Len(rules) \in Nat
      /\ \A r \in 1 .. Len(rules) : rules'[r] = rules[r]
      /\ rules'[Len(rules) + 1] = rule
  OBVIOUS
<1>2. \A tp : tp \in Preds' <=>
        \E r \in 1 .. Len(rules') : \E i \in 1 .. Len(rules'[r]) : tp = <<r, i>>
  BY SMTT(60) DEF Preds
<1>3. ASSUME NEW tp \in Preds
      PROVE  tp \in Preds' /\ Pred(tp)' = Pred(tp) /\ tp[1] \in 1 .. Len(rules)
  <2>1. PICK r \in 1 .. Len(rules) : \E i \in 1 .. Len(rules[r]) : tp = <<r, i>>
    BY PredsDef
  <2>2. r \in 1 .. Len(rules') /\ rules'[r] = rules[r]
    BY <1>1
  <2> QED
    BY <1>2, <2>1, <2>2 DEF Pred
<1>4. ASSUME NEW i \in 1 .. Len(rule)
      PROVE  <<Len(rules'), i>> \in Preds'
  BY <1>1, <1>2
<1>5. ASSUME NEW tp \in Preds', tp \notin Preds
      PROVE  /\ tp[1] = Len(rules') /\ tp[2] \in 1 .. Len(rule)
             /\ Pred(tp)' = rule[tp[2]]
  <2>1. PICK r \in 1 .. Len(rules') : \E i \in 1 .. Len(rules'[r]) : tp = <<r, i>>
    BY <1>2
  <2>2. r = Len(rules')
    BY <1>1, <1>5, <2>1, PredsDef
  <2> QED
    BY <1>1, <2>1, <2>2 DEF Pred
<1> QED
  BY <1>1, <1>3, <1>4, <1>5

-----------------------------------------------------------------------------
(* Types, for all rules.                                                   *)

\* The empty index.
LEMMA InitIndex == Init => TypeOK /\ TableInv
<1> SUFFICES ASSUME Init PROVE TypeOK /\ TableInv
  OBVIOUS
<1>1. Preds = {} /\ Len(<<>>) = 0
  BY DEF Init, Preds
<1>2. TypeOK
  BY <1>1, BoundAssumption DEF Init, TypeOK
<1>3. TableInv
  BY <1>1 DEF Init, TableInv, IsSequence
<1> QED
  BY <1>2, <1>3

\* The table constraint that a step of InstallConstraint creates or connects.
LEMMA EntryFacts ==
  ASSUME NEW et, NEW c, NEW tp
  PROVE  LET t == NewConstraint(et, c, tp) IN
           EntryShape(t) /\ Stands(t, et, c) /\ t.preds = {tp}
BY DEF NewConstraint, EntryShape, Stands, SameConstraint

\* connectPredicate adds the predicate to one table constraint.
LEMMA ConnectedFacts ==
  ASSUME NEW t, EntryShape(t), NEW tp
  PROVE  LET u == Connected(t, tp) IN
           /\ EntryShape(u) /\ u.preds = t.preds \cup {tp} /\ u.indexed = t.indexed
           /\ u.eventType = t.eventType /\ SameConstraint(u, t)
<1> DEFINE a == t.eventType
           b == t.type
           n == t.name
           o == t.op
           v == t.val
           q == t.preds
           x == t.indexed
           u == Connected(t, tp)
<1>1. t = [eventType |-> a, type |-> b, name |-> n, op |-> o, val |-> v, preds |-> q,
           indexed |-> x]
  BY DEF EntryShape
<1> HIDE DEF a, b, n, o, v, q, x
<1>2. u = [eventType |-> a, type |-> b, name |-> n, op |-> o, val |-> v,
           preds |-> q \cup {tp}, indexed |-> x]
  BY <1>1 DEF Connected, q
<1> HIDE DEF u
<1>3. /\ u.eventType = a /\ u.type = b /\ u.name = n /\ u.op = o /\ u.val = v
      /\ u.preds = q \cup {tp} /\ u.indexed = x
  BY <1>2
<1>4. EntryShape(u)
  BY <1>2, <1>3 DEF EntryShape
<1> QED
  BY <1>3, <1>4 DEF u, a, b, n, o, v, q, x, SameConstraint

\* A step of InstallConstraint, with the names of the code.
LEMMA InstallStep ==
  ASSUME TypeOK, TableInv, InstallConstraint
  PROVE  \E p \in todo, tp \in Preds :
           LET et == Pred(tp).eventType
               c  == Pred(tp).constraints[p[2]]
           IN  /\ tp = <<Len(rules), p[1]>> /\ p[2] \in 1 .. Len(Pred(tp).constraints)
               /\ todo' = todo \ {p}
               /\ UNCHANGED <<rules, last, mh>>
               /\ \/ Found(et, c) = {} /\ table' = Append(table, NewConstraint(et, c, tp))
                  \/ \E k \in Found(et, c) :
                       table' = [table EXCEPT ![k] = Connected(table[k], tp)]
<1>1. PICK p \in todo :
        LET tp == <<Len(rules), p[1]>>
            et == Pred(tp).eventType
            c  == Pred(tp).constraints[p[2]]
        IN  /\ todo' = todo \ {p}
            /\ UNCHANGED <<rules, last, mh>>
            /\ \/ Found(et, c) = {} /\ table' = Append(table, NewConstraint(et, c, tp))
               \/ \E k \in Found(et, c) :
                    table' = [table EXCEPT ![k] = Connected(table[k], tp)]
  BY DEF InstallConstraint
<1>2. <<Len(rules), p[1]>> \in Preds
  BY DEF TypeOK
<1>3. p[2] \in 1 .. Len(Pred(<<Len(rules), p[1]>>).constraints)
  BY DEF TableInv, Pred
<1> QED
  BY <1>1, <1>2, <1>3

\* The table after a step of InstallConstraint: entry k is new, or it was found
\* and has got predicate tp; the others are as they were.
TableStep(p, tp, k) ==
  LET et == Pred(tp).eventType
      c  == Pred(tp).constraints[p[2]]
      e  == table'[k]
  IN  /\ tp = <<Len(rules), p[1]>> /\ p[2] \in 1 .. Len(Pred(tp).constraints)
      /\ todo' = todo \ {p}
      /\ UNCHANGED <<rules, last, mh>>
      /\ IsSequence(table') /\ EntryShape(e) /\ k \in 1 .. Len(table')
      /\ \A i \in 1 .. Len(table') : i # k => i \in 1 .. Len(table) /\ table'[i] = table[i]
      /\ \A i \in 1 .. Len(table) : i \in 1 .. Len(table')
      /\ \/ /\ k \notin 1 .. Len(table) /\ Found(et, c) = {}
            /\ Stands(e, et, c) /\ e.preds = {tp}
            /\ (OpTable(c.type, c.op) # "" /\ ~Occupied(et, c) => e.indexed)
         \/ /\ k \in Found(et, c) /\ k \in 1 .. Len(table)
            /\ e.eventType = table[k].eventType /\ SameConstraint(e, table[k])
            /\ e.preds = table[k].preds \cup {tp} /\ (table[k].indexed => e.indexed)

\* installConstraint: the constraint gets one entry that stands for it, old or new.
LEMMA TableStepFacts ==
  ASSUME TypeOK, TableInv, InstallConstraint
  PROVE  \E p \in todo, tp \in Preds, k \in Nat : TableStep(p, tp, k)
<1>1. PICK p \in todo, tp \in Preds :
        LET et == Pred(tp).eventType
            c  == Pred(tp).constraints[p[2]]
        IN  /\ tp = <<Len(rules), p[1]>> /\ p[2] \in 1 .. Len(Pred(tp).constraints)
            /\ todo' = todo \ {p}
            /\ UNCHANGED <<rules, last, mh>>
            /\ \/ Found(et, c) = {} /\ table' = Append(table, NewConstraint(et, c, tp))
               \/ \E k \in Found(et, c) :
                    table' = [table EXCEPT ![k] = Connected(table[k], tp)]
  BY InstallStep
<1> DEFINE et == Pred(tp).eventType
           c  == Pred(tp).constraints[p[2]]
<1>2. IsSequence(table) /\ Len(table) \in Nat
  BY DEF TableInv, IsSequence
<1>3. ASSUME Found(et, c) = {}, table' = Append(table, NewConstraint(et, c, tp))
      PROVE  \E k \in Nat : TableStep(p, tp, k)
  <2> DEFINE e == NewConstraint(et, c, tp)
  <2>1. /\ EntryShape(e) /\ e.preds = {tp} /\ Stands(e, et, c)
        /\ (OpTable(c.type, c.op) # "" /\ ~Occupied(et, c) => e.indexed)
    BY EntryFacts DEF NewConstraint
  <2> HIDE DEF e
  <2>2. /\ IsSequence(table') /\ Len(table') = Len(table) + 1
        /\ \A i \in 1 .. Len(table) : table'[i] = table[i]
        /\ table'[Len(table) + 1] = e
    BY <1>2, <1>3, SequenceAppend DEF e
  <2>3. /\ Len(table) + 1 \in 1 .. Len(table') /\ Len(table) + 1 \notin 1 .. Len(table)
        /\ \A i \in 1 .. Len(table') : i # Len(table) + 1 => i \in 1 .. Len(table)
        /\ \A i \in 1 .. Len(table) : i \in 1 .. Len(table')
    BY <1>2, <2>2
  <2> HIDE DEF et, c
  <2>4. /\ EntryShape(table'[Len(table) + 1]) /\ table'[Len(table) + 1].preds = {tp}
        /\ Stands(table'[Len(table) + 1], et, c)
        /\ (OpTable(c.type, c.op) # "" /\ ~Occupied(et, c) => table'[Len(table) + 1].indexed)
    BY <2>1, <2>2, ZenonT(60)
  <2>5. TableStep(p, tp, Len(table) + 1)
    BY <1>1, <1>3, <2>2, <2>3, <2>4 DEF TableStep, et, c
  <2> QED
    BY <1>2, <2>5
<1>4. ASSUME NEW k \in Found(et, c), table' = [table EXCEPT ![k] = Connected(table[k], tp)]
      PROVE  TableStep(p, tp, k) /\ k \in Nat
  <2> DEFINE e == Connected(table[k], tp)
  <2>1. k \in 1 .. Len(table)
    BY DEF Found
  <2>2. /\ EntryShape(e) /\ e.preds = table[k].preds \cup {tp} /\ e.indexed = table[k].indexed
        /\ e.eventType = table[k].eventType /\ SameConstraint(e, table[k])
    BY <2>1, ConnectedFacts DEF TableInv
  <2>3. table' = [table EXCEPT ![k] = e]
    BY <1>4
  <2> HIDE DEF e
  <2>4. /\ IsSequence(table') /\ Len(table') = Len(table)
        /\ \A i \in 1 .. Len(table) : table'[i] = IF i = k THEN e ELSE table[i]
    <3> DEFINE S == {table[i] : i \in 1 .. Len(table)} \cup {e}
    <3>1. table \in Seq(S) /\ e \in S
      BY <1>2 DEF IsSequence
    <3> HIDE DEF S
    <3>2. table' \in Seq(S) /\ Len(table') = Len(table)
      BY <2>1, <2>3, <3>1
    <3>3. \A i \in 1 .. Len(table) : table'[i] = IF i = k THEN e ELSE table[i]
      BY <2>1, <2>3, <3>1
    <3> QED
      BY <3>2, <3>3, SequenceOf
  <2>5. table'[k] = e /\ k \in Found(et, c) /\ k \in Nat /\ k \in 1 .. Len(table')
    BY <1>2, <2>1, <2>4
  <2>6. /\ EntryShape(table'[k]) /\ table'[k].preds = table[k].preds \cup {tp}
        /\ (table[k].indexed => table'[k].indexed)
        /\ table'[k].eventType = table[k].eventType /\ SameConstraint(table'[k], table[k])
    BY <2>2, <2>5
  <2>7. /\ \A i \in 1 .. Len(table') : i # k => i \in 1 .. Len(table) /\ table'[i] = table[i]
        /\ \A i \in 1 .. Len(table) : i \in 1 .. Len(table')
    BY <2>4
  <2> HIDE DEF et, c
  <2> QED
    BY <1>1, <2>1, <2>4, <2>5, <2>6, <2>7 DEF TableStep, et, c
<1> QED
  BY <1>1, <1>3, <1>4

\* Every step keeps types and shape.
LEMMA TypeNext ==
  ASSUME TypeOK, TableInv, [Next]_vars
  PROVE  TypeOK' /\ TableInv'
<1>1. CASE InstallRulePkt
  <2>1. PICK rule \in RulePkts :
          /\ rules' = Append(rules, rule)
          /\ todo' = UNION {{<<i, j>> : j \in 1 .. Len(rule[i].constraints)}
                              : i \in 1 .. Len(rule)}
    BY <1>1 DEF InstallRulePkt
  <2>2. /\ rules' \in Seq(RulePkts) /\ Len(rules') = Len(rules) + 1
        /\ rules'[Len(rules')] = rule
        /\ \A tp \in Preds : tp \in Preds'
        /\ \A i \in 1 .. Len(rule) : <<Len(rules'), i>> \in Preds'
    BY <2>1, PredsGrow DEF TypeOK
  <2>3. \A p \in todo' : /\ p[1] \in 1 .. Len(rule)
                          /\ p[2] \in 1 .. Len(rule[p[1]].constraints)
    BY <2>1
  <2>4. Len(rules) \in Nat /\ Len(rules') <= MaxRules /\ rules' # <<>>
    BY <1>1, <2>2, BoundAssumption DEF InstallRulePkt, TypeOK
  <2>5. table' = table /\ mh' = {}
    BY <1>1 DEF InstallRulePkt
  <2>6. TypeOK'
    BY <2>2, <2>3, <2>4, <2>5 DEF TypeOK
  <2>7. TableInv'
    BY <2>2, <2>3, <2>4, <2>5 DEF TableInv, EntryShape
  <2> QED
    BY <2>6, <2>7
<1>2. CASE InstallConstraint
  <2>1. PICK p \in todo, tp \in Preds, k \in Nat : TableStep(p, tp, k)
    BY <1>2, TableStepFacts
  <2>2. /\ UNCHANGED <<rules, last, mh>> /\ todo' = todo \ {p} /\ IsSequence(table')
        /\ EntryShape(table'[k])
        /\ \A i \in 1 .. Len(table') : i # k => i \in 1 .. Len(table) /\ table'[i] = table[i]
    BY <2>1 DEF TableStep
  <2>3. Preds' = Preds
    BY <2>2 DEF Preds
  <2>4. table'[k].preds # {} /\ table'[k].preds \subseteq Preds
    BY <2>1 DEF TableStep, TypeOK
  <2>5. TypeOK'
    BY <2>2, <2>3, <2>4 DEF TypeOK
  <2>6. TableInv'
    BY <2>2 DEF TableInv
  <2> QED
    BY <2>5, <2>6
<1>3. CASE ProcessMessage
  <2>1. UNCHANGED <<rules, todo, table>> /\ mh' \subseteq Preds
    BY <1>3 DEF ProcessMessage, Matching
  <2>2. Preds' = Preds
    BY <2>1 DEF Preds
  <2> QED
    BY <2>1, <2>2 DEF TypeOK, TableInv, EntryShape
<1>4. CASE UNCHANGED vars
  <2>1. UNCHANGED <<rules, todo, table, mh>> /\ Preds' = Preds
    BY <1>4 DEF vars, Preds
  <2> QED
    BY <2>1 DEF TypeOK, TableInv, EntryShape
<1> QED
  BY <1>1, <1>2, <1>3, <1>4 DEF Next

-----------------------------------------------------------------------------
(* Sharing, for rules without string constraints.                          *)

\* Every map of an OperatorsTable holds the constraints of one operator.
LEMMA OpTableFacts ==
  ASSUME NEW c, Indexable(c)
  PROVE  OpTable(c.type, c.op) = c.op /\ c.op # "" /\ c.type # "string"
BY DEF Indexable, OpTable

\* Table constraints are such as the rules state.
LEMMA EntriesIndexable ==
  ASSUME RulesOK, TypeOK, LinkInv, NEW k \in 1 .. Len(table)
  PROVE  Indexable(table[k])
<1>1. PICK tp \in table[k].preds : tp \in Preds
  BY DEF TypeOK
<1>2. PICK j \in 1 .. Len(Pred(tp).constraints) :
        Stands(table[k], Pred(tp).eventType, Pred(tp).constraints[j])
  BY <1>1 DEF LinkInv
<1>3. Indexable(Pred(tp).constraints[j])
  <2>1. PICK r \in 1 .. Len(rules) : \E i \in 1 .. Len(rules[r]) : tp = <<r, i>>
    BY <1>1, PredsDef
  <2>2. rules[r] \in RulePkts
    BY DEF TypeOK
  <2> QED
    BY <2>1, <2>2 DEF RulesOK, Pred
<1> QED
  BY <1>2, <1>3 DEF Stands, SameConstraint, Indexable

\* getConstraint returns the table constraint that stands for c, if there is one.
LEMMA FoundFacts ==
  ASSUME RulesOK, TypeOK, LinkInv, NEW et, NEW c, Indexable(c)
  PROVE  /\ \A k \in 1 .. Len(table) : k \in Found(et, c) <=> Stands(table[k], et, c)
         /\ Found(et, c) = {} => ~Occupied(et, c)
<1>1. OpTable(c.type, c.op) = c.op /\ c.type # "string"
  BY OpTableFacts
<1>2. \A k \in 1 .. Len(table) : k \in Found(et, c) <=> Stands(table[k], et, c)
  BY <1>1 DEF Found, Equal, Stands, SameConstraint
<1>3. ASSUME Found(et, c) = {}, Occupied(et, c) PROVE FALSE
  <2>1. PICK k \in 1 .. Len(table) :
          /\ table[k].eventType = et /\ table[k].type = c.type /\ table[k].name = c.name
          /\ OpTable(c.type, table[k].op) = OpTable(c.type, c.op) /\ table[k].val = c.val
    BY <1>3 DEF Occupied
  <2>2. OpTable(c.type, table[k].op) = table[k].op
    BY <2>1, EntriesIndexable, OpTableFacts
  <2>3. Stands(table[k], et, c)
    BY <1>1, <2>1, <2>2 DEF Stands, SameConstraint
  <2> QED
    BY <1>2, <1>3, <2>3
<1> QED
  BY <1>2, <1>3

\* RulesOK speaks of every installed predicate.
LEMMA ConstraintsIndexable ==
  ASSUME RulesOK, TypeOK, NEW tp \in Preds
  PROVE  /\ IsSequence(Pred(tp).constraints)
         /\ \A j \in 1 .. Len(Pred(tp).constraints) :
              /\ Indexable(Pred(tp).constraints[j])
              /\ \A m \in 1 .. Len(Pred(tp).constraints) :
                   SameConstraint(Pred(tp).constraints[j], Pred(tp).constraints[m]) => j = m
<1>1. PICK r \in 1 .. Len(rules) : \E i \in 1 .. Len(rules[r]) : tp = <<r, i>>
  BY PredsDef
<1>2. PICK i \in 1 .. Len(rules[r]) : tp = <<r, i>>
  BY <1>1
<1>3. rules[r] \in RulePkts /\ Pred(tp) = rules[r][i]
  BY <1>2 DEF TypeOK, Pred
<1> QED
  BY <1>3 DEF RulesOK

\* A new rule has its constraints in todo; the links of the others are kept.
LEMMA LinkInstallRule ==
  ASSUME IndexInv, InstallRulePkt
  PROVE  LinkInv' /\ ConstraintsShared'
<1>1. PICK rule \in RulePkts :
        /\ rules' = Append(rules, rule)
        /\ todo' = UNION {{<<i, j>> : j \in 1 .. Len(rule[i].constraints)}
                            : i \in 1 .. Len(rule)}
  BY DEF InstallRulePkt
<1>2. todo = {} /\ table' = table /\ Len(rules) \in Nat
  BY DEF InstallRulePkt, IndexInv, TypeOK
<1>3. /\ Len(rules') = Len(rules) + 1
      /\ \A tp \in Preds : Pred(tp)' = Pred(tp) /\ tp[1] \in 1 .. Len(rules)
      /\ \A tp \in Preds' : tp \notin Preds =>
           /\ tp[1] = Len(rules') /\ tp[2] \in 1 .. Len(rule) /\ Pred(tp)' = rule[tp[2]]
  BY <1>1, PredsGrow DEF IndexInv, TypeOK
<1>4. ASSUME NEW tp \in Preds', NEW j \in 1 .. Len(Pred(tp)'.constraints), Installed(tp, j)'
      PROVE  \E k \in 1 .. Len(table) :
               /\ Stands(table[k], Pred(tp)'.eventType, Pred(tp)'.constraints[j])
               /\ tp \in table[k].preds
  <2>1. CASE tp \in Preds
    <3>1. Installed(tp, j) /\ Pred(tp)' = Pred(tp)
      BY <1>2, <1>3, <2>1 DEF Installed
    <3> QED
      BY <1>4, <2>1, <3>1 DEF IndexInv, LinkInv
  <2>2. CASE tp \notin Preds
    <3>1. tp[1] = Len(rules') /\ tp[2] \in 1 .. Len(rule) /\ Pred(tp)' = rule[tp[2]]
      BY <1>3, <2>2
    <3>2. <<tp[2], j>> \in todo'
      BY <1>1, <1>4, <3>1
    <3> QED
      BY <1>4, <3>1, <3>2 DEF Installed
  <2> QED
    BY <2>1, <2>2
<1>5. ASSUME NEW k \in 1 .. Len(table), NEW tp \in table[k].preds
      PROVE  \E j \in 1 .. Len(Pred(tp)'.constraints) :
               Stands(table[k], Pred(tp)'.eventType, Pred(tp)'.constraints[j])
  <2>1. tp \in Preds
    BY DEF IndexInv, TypeOK
  <2>2. Pred(tp)' = Pred(tp)
    BY <1>3, <2>1
  <2> QED
    BY <2>2 DEF IndexInv, LinkInv
<1>6. LinkInv'
  BY <1>2, <1>4, <1>5 DEF LinkInv
<1> QED
  BY <1>2, <1>6 DEF IndexInv, ConstraintsShared

\* installConstraint keeps the links and makes one more.
LEMMA LinkInstallConstraint ==
  ASSUME RulesOK, IndexInv, InstallConstraint
  PROVE  LinkInv' /\ ConstraintsShared'
<1>1. PICK p \in todo, tp \in Preds, k \in Nat : TableStep(p, tp, k)
  BY TableStepFacts DEF IndexInv
<1> DEFINE et == Pred(tp).eventType
           c  == Pred(tp).constraints[p[2]]
           e  == table'[k]
<1>2. /\ tp = <<Len(rules), p[1]>> /\ p[2] \in 1 .. Len(Pred(tp).constraints)
      /\ todo' = todo \ {p} /\ rules' = rules /\ k \in 1 .. Len(table')
      /\ \A i \in 1 .. Len(table') : i # k => i \in 1 .. Len(table) /\ table'[i] = table[i]
      /\ \A i \in 1 .. Len(table) : i \in 1 .. Len(table')
  BY <1>1 DEF TableStep
<1>3. Indexable(c) /\ OpTable(c.type, c.op) # ""
  BY <1>2, ConstraintsIndexable, OpTableFacts DEF IndexInv
<1>4. /\ \A i \in 1 .. Len(table) : i \in Found(et, c) <=> Stands(table[i], et, c)
      /\ Found(et, c) = {} => ~Occupied(et, c)
  BY <1>3, FoundFacts DEF IndexInv
<1>5. \/ /\ k \notin 1 .. Len(table) /\ Found(et, c) = {}
         /\ Stands(e, et, c) /\ e.preds = {tp} /\ e.indexed
      \/ /\ k \in 1 .. Len(table) /\ Stands(table[k], et, c)
         /\ e.eventType = table[k].eventType /\ SameConstraint(e, table[k])
         /\ e.preds = table[k].preds \cup {tp} /\ e.indexed
  BY <1>1, <1>3, <1>4 DEF TableStep, IndexInv, ConstraintsShared
<1>6. Stands(e, et, c) /\ tp \in e.preds /\ e.indexed
  BY <1>5 DEF Stands, SameConstraint
<1>7. Preds' = Preds /\ \A q : Pred(q)' = Pred(q)
  BY <1>2 DEF Preds, Pred
<1> HIDE DEF et, c, e
\* An entry that stood before stands after the step, with its predicates.
<1>8. ASSUME NEW i \in 1 .. Len(table)
      PROVE  /\ i \in 1 .. Len(table') /\ table'[i].eventType = table[i].eventType
             /\ SameConstraint(table'[i], table[i]) /\ table[i].preds \subseteq table'[i].preds
  <2>1. CASE i = k
    BY <1>2, <1>5, <2>1 DEF e
  <2>2. CASE i # k
    BY <1>2, <2>2 DEF SameConstraint
  <2> QED
    BY <2>1, <2>2
<1>9. ASSUME NEW q \in Preds, NEW j \in 1 .. Len(Pred(q).constraints), Installed(q, j)'
      PROVE  \E i \in 1 .. Len(table') :
               Stands(table'[i], Pred(q).eventType, Pred(q).constraints[j])
                 /\ q \in table'[i].preds
  <2>1. CASE Installed(q, j)
    <3>1. PICK i \in 1 .. Len(table) :
            Stands(table[i], Pred(q).eventType, Pred(q).constraints[j]) /\ q \in table[i].preds
      BY <2>1 DEF IndexInv, LinkInv
    <3> QED
      BY <1>8, <3>1 DEF Stands, SameConstraint
  <2>2. CASE ~Installed(q, j)
    <3>1. q[1] = Len(rules) /\ <<q[2], j>> = p
      BY <1>2, <1>9, <2>2 DEF Installed
    <3>2. PICK r \in 1 .. Len(rules) : \E i \in 1 .. Len(rules[r]) : q = <<r, i>>
      BY PredsDef
    <3>3. q = tp /\ j = p[2]
      BY <1>2, <3>1, <3>2
    <3> QED
      BY <1>2, <1>6, <3>3 DEF e, et, c
  <2> QED
    BY <2>1, <2>2
<1>10. ASSUME NEW i \in 1 .. Len(table'), NEW q \in table'[i].preds
       PROVE  \E j \in 1 .. Len(Pred(q).constraints) :
                Stands(table'[i], Pred(q).eventType, Pred(q).constraints[j])
  <2>1. CASE i = k /\ q = tp
    BY <1>2, <1>6, <2>1 DEF e, et, c
  <2>2. CASE i \in 1 .. Len(table) /\ q \in table[i].preds
    <3>1. PICK j \in 1 .. Len(Pred(q).constraints) :
            Stands(table[i], Pred(q).eventType, Pred(q).constraints[j])
      BY <2>2 DEF IndexInv, LinkInv
    <3> QED
      BY <1>8, <2>2, <3>1 DEF Stands, SameConstraint
  <2> QED
    BY <1>2, <1>5, <2>1, <2>2 DEF e
<1>11. LinkInv'
  BY <1>7, <1>9, <1>10 DEF LinkInv
<1>12. \A i \in 1 .. Len(table') : table'[i].indexed
  BY <1>2, <1>6 DEF e, IndexInv, ConstraintsShared
<1>13. ASSUME NEW i \in 1 .. Len(table'), NEW m \in 1 .. Len(table'),
              table'[i].eventType = table'[m].eventType, SameConstraint(table'[i], table'[m])
       PROVE  i = m
  <2>1. CASE i \in 1 .. Len(table) /\ m \in 1 .. Len(table)
    <3>1. table[i].eventType = table[m].eventType /\ SameConstraint(table[i], table[m])
      BY <1>8, <1>13, <2>1 DEF SameConstraint
    <3> QED
      BY <2>1, <3>1 DEF IndexInv, ConstraintsShared, SameConstraint
  <2>2. ASSUME k \notin 1 .. Len(table), NEW n \in 1 .. Len(table),
               table'[n].eventType = e.eventType, SameConstraint(table'[n], e)
        PROVE  FALSE
    <3>1. Stands(table[n], et, c)
      BY <1>6, <1>8, <2>2 DEF Stands, SameConstraint
    <3> QED
      BY <1>4, <1>5, <2>2, <3>1
  <2>3. SameConstraint(table'[m], table'[i])
    BY <1>13 DEF SameConstraint
  <2> QED
    BY <1>2, <1>13, <2>1, <2>2, <2>3 DEF e
<1> QED
  BY <1>11, <1>12, <1>13 DEF ConstraintsShared, SameConstraint

\* Every step keeps the links and the sharing.
LEMMA IndexNext ==
  ASSUME RulesOK, IndexInv, [Next]_vars
  PROVE  IndexInv'
<1>1. TypeOK' /\ TableInv'
  BY TypeNext DEF IndexInv
<1>2. ASSUME UNCHANGED <<rules, todo, table>> PROVE LinkInv' /\ ConstraintsShared'
  <2>1. Preds' = Preds /\ \A q : Pred(q)' = Pred(q)
    BY <1>2 DEF Preds, Pred
  <2>2. \A q, j : Installed(q, j)' = Installed(q, j)
    BY <1>2 DEF Installed
  <2> QED
    BY <1>2, <2>1, <2>2 DEF IndexInv, LinkInv, ConstraintsShared
<1>3. CASE ProcessMessage \/ UNCHANGED vars
  BY <1>1, <1>2, <1>3 DEF ProcessMessage, vars, IndexInv
<1>4. CASE InstallRulePkt
  BY <1>1, <1>4, LinkInstallRule DEF IndexInv
<1>5. CASE InstallConstraint
  BY <1>1, <1>5, LinkInstallConstraint DEF IndexInv
<1> QED
  BY <1>3, <1>4, <1>5 DEF Next

-----------------------------------------------------------------------------
(* The counters.                                                           *)

\* The attribute and the table constraint of every time predicate tp is counted.
Counted(pkt, tp) ==
  {n \in (1 .. Len(pkt.attributes)) \X (1 .. Len(table)) : Counts(pkt, tp, n[1], n[2])}

\* A predicate is counted for its own constraints, as often as one holds.
LEMMA CountedFor ==
  ASSUME RulesOK, IndexInv, NEW pkt \in PubPkts, NEW tp \in Preds, NEW x \in Counted(pkt, tp)
  PROVE  /\ Pred(tp).eventType = pkt.eventType
         /\ \E j \in 1 .. Len(Pred(tp).constraints) :
              Stands(table[x[2]], Pred(tp).eventType, Pred(tp).constraints[j])
         /\ \A j \in 1 .. Len(Pred(tp).constraints) :
              Stands(table[x[2]], Pred(tp).eventType, Pred(tp).constraints[j]) =>
                Satisfied(Pred(tp).constraints[j], pkt)
<1>1. /\ x[1] \in 1 .. Len(pkt.attributes) /\ x[2] \in 1 .. Len(table)
      /\ table[x[2]].eventType = pkt.eventType /\ tp \in table[x[2]].preds
      /\ Reached(table[x[2]], pkt.attributes[x[1]])
  BY DEF Counted, Counts
<1>2. PICK j \in 1 .. Len(Pred(tp).constraints) :
        Stands(table[x[2]], Pred(tp).eventType, Pred(tp).constraints[j])
  BY <1>1 DEF IndexInv, LinkInv
<1>3. Pred(tp).eventType = pkt.eventType
  BY <1>1, <1>2 DEF Stands
<1>4. OpTable(table[x[2]].type, table[x[2]].op) = table[x[2]].op
  BY <1>1, EntriesIndexable, OpTableFacts DEF IndexInv
<1>5. ASSUME NEW m \in 1 .. Len(Pred(tp).constraints),
             Stands(table[x[2]], Pred(tp).eventType, Pred(tp).constraints[m])
      PROVE  Satisfied(Pred(tp).constraints[m], pkt)
  BY <1>1, <1>4, <1>5 DEF Reached, Stands, SameConstraint, Satisfied
<1> QED
  BY <1>2, <1>3, <1>5

\* An installed constraint that holds is counted.
LEMMA SatisfiedCounted ==
  ASSUME RulesOK, IndexInv, todo = {}, NEW pkt \in PubPkts, NEW tp \in Preds,
         Pred(tp).eventType = pkt.eventType,
         NEW j \in 1 .. Len(Pred(tp).constraints), Satisfied(Pred(tp).constraints[j], pkt)
  PROVE  \E x \in Counted(pkt, tp) :
           Stands(table[x[2]], Pred(tp).eventType, Pred(tp).constraints[j])
<1>1. Installed(tp, j)
  BY DEF Installed
<1>2. PICK k \in 1 .. Len(table) :
        Stands(table[k], Pred(tp).eventType, Pred(tp).constraints[j]) /\ tp \in table[k].preds
  BY <1>1 DEF IndexInv, LinkInv
<1>3. PICK i \in 1 .. Len(pkt.attributes) :
        /\ pkt.attributes[i].type = Pred(tp).constraints[j].type
        /\ pkt.attributes[i].name = Pred(tp).constraints[j].name
        /\ Holds(Pred(tp).constraints[j].op, pkt.attributes[i].val, Pred(tp).constraints[j].val)
  BY DEF Satisfied
<1>4. OpTable(table[k].type, table[k].op) = table[k].op /\ table[k].indexed
  BY EntriesIndexable, OpTableFacts DEF IndexInv, ConstraintsShared
<1>5. Counts(pkt, tp, i, k)
  BY <1>2, <1>3, <1>4 DEF Counts, Reached, Stands, SameConstraint
<1>6. <<i, k>> \in Counted(pkt, tp)
  BY <1>5 DEF Counted
<1> QED
  BY <1>2, <1>6

\* No constraint of a predicate is counted twice, because the table has one entry
\* for it and the packet one attribute of its name.
LEMMA CountedOnce ==
  ASSUME RulesOK, PacketsOK, IndexInv, NEW pkt \in PubPkts, NEW tp \in Preds,
         NEW x \in Counted(pkt, tp), NEW y \in Counted(pkt, tp),
         NEW j \in 1 .. Len(Pred(tp).constraints),
         Stands(table[x[2]], Pred(tp).eventType, Pred(tp).constraints[j]),
         Stands(table[y[2]], Pred(tp).eventType, Pred(tp).constraints[j])
  PROVE  x = y
<1>1. /\ x \in (1 .. Len(pkt.attributes)) \X (1 .. Len(table))
      /\ y \in (1 .. Len(pkt.attributes)) \X (1 .. Len(table))
  BY DEF Counted
<1>2. /\ table[x[2]].name = pkt.attributes[x[1]].name
      /\ table[y[2]].name = pkt.attributes[y[1]].name
  BY DEF Counted, Counts, Reached
<1>3. x[2] = y[2]
  BY <1>1 DEF Stands, SameConstraint, IndexInv, ConstraintsShared
<1>4. x[1] = y[1]
  BY <1>1, <1>2, <1>3 DEF PacketsOK
<1> QED
  BY <1>1, <1>3, <1>4

\* predCount reaches constraintsNum exactly when every constraint holds.
LEMMA CountIsMatch ==
  ASSUME RulesOK, PacketsOK, IndexInv, todo = {}, NEW pkt \in PubPkts, NEW tp \in Preds,
         Pred(tp).constraints # <<>>
  PROVE  PredCount(pkt, tp) >= Len(Pred(tp).constraints) <=> Matches(Pred(tp), pkt)
<1> DEFINE C == Counted(pkt, tp)
           n == Len(Pred(tp).constraints)
           J == 1 .. n
           Of(x, j) == Stands(table[x[2]], Pred(tp).eventType, Pred(tp).constraints[j])
           f == [x \in C |-> CHOOSE j \in J : Of(x, j)]
<1>1. n \in Nat /\ n # 0
  BY ConstraintsIndexable, SequenceEmpty DEF IndexInv, IsSequence
<1>2. IsFiniteSet(J) /\ Cardinality(J) = n
  BY <1>1, FS_Interval, SMTT(60)
<1>3. \A x \in C : \E j \in J : Of(x, j)
  BY CountedFor
<1>4. \A x \in C : f[x] \in J /\ Of(x, f[x])
  BY <1>3
<1>5. \A x, y \in C : \A j \in J : Of(x, j) /\ Of(y, j) => x = y
  BY CountedOnce
<1>6. \A x \in C : \A i, j \in J : Of(x, i) /\ Of(x, j) => i = j
  <2> SUFFICES ASSUME NEW x \in C, NEW i \in J, NEW j \in J, Of(x, i), Of(x, j)
               PROVE  i = j
    OBVIOUS
  <2>1. SameConstraint(Pred(tp).constraints[i], Pred(tp).constraints[j])
    BY DEF Stands, SameConstraint
  <2> QED
    BY <2>1, ConstraintsIndexable DEF IndexInv
<1>7. PredCount(pkt, tp) = Cardinality(C)
  BY DEF PredCount, Counted
<1>8. Pred(tp).eventType = pkt.eventType \/ C = {}
  BY CountedFor
<1>9. \A x \in C : \A j \in J : Of(x, j) => Satisfied(Pred(tp).constraints[j], pkt)
  BY CountedFor
<1>10. Matches(Pred(tp), pkt) => \A j \in J : \E x \in C : Of(x, j)
  BY SatisfiedCounted DEF Matches
<1> HIDE DEF C, J, Of
<1>11. f \in [C -> J] /\ \A x, y \in C : f[x] = f[y] => x = y
  BY <1>4, <1>5
<1> HIDE DEF f
<1>12. f \in Injection(C, J)
  BY <1>11 DEF Injection, IsInjective
<1>13. /\ IsFiniteSet(C) /\ Cardinality(C) <= n
       /\ Cardinality(C) = n <=> f \in Surjection(C, J)
  BY <1>2, <1>12, FS_Injection
<1>14. Cardinality(C) \in Nat
  BY <1>13, FS_CardinalityType
<1>15. Cardinality(C) >= n <=> f \in Surjection(C, J)
  BY <1>1, <1>13, <1>14
<1>16. f \in Surjection(C, J) <=> \A j \in J : \E x \in C : f[x] = j
  BY <1>11 DEF Surjection
<1>17. ASSUME \A j \in J : \E x \in C : f[x] = j PROVE Matches(Pred(tp), pkt)
  <2>1. \A j \in J : Satisfied(Pred(tp).constraints[j], pkt)
    BY <1>4, <1>9, <1>17
  <2>2. 1 \in J
    BY <1>1 DEF J
  <2>3. C # {}
    BY <1>17, <2>2
  <2> QED
    BY <1>8, <2>1, <2>3 DEF Matches, J
<1>18. ASSUME Matches(Pred(tp), pkt) PROVE \A j \in J : \E x \in C : f[x] = j
  BY <1>4, <1>6, <1>10, <1>18
<1> QED
  BY <1>7, <1>15, <1>16, <1>17, <1>18

\* What processMessage answers once all constraints are installed.
LEMMA MatchingExact ==
  ASSUME RulesOK, PacketsOK, IndexInv, todo = {}, NEW pkt \in PubPkts
  PROVE  Matching(pkt) = {tp \in Preds : Matches(Pred(tp), pkt)}
<1>1. ASSUME NEW tp \in Preds, Pred(tp).constraints = <<>>
      PROVE  Matches(Pred(tp), pkt) <=> Pred(tp).eventType = pkt.eventType
  <2>1. Len(Pred(tp).constraints) = 0
    BY <1>1
  <2> QED
    BY <2>1 DEF Matches
<1> QED
  BY <1>1, CountIsMatch DEF Matching

-----------------------------------------------------------------------------
(* The theorems.                                                           *)

\* A packet is processed only between two installations.
MatchInv == IndexInv /\ MatchesExactly /\ (last # <<>> => todo = {})

\* Every step keeps the answer right.
LEMMA MatchNext ==
  ASSUME RulesOK, PacketsOK, MatchInv, [Next]_vars
  PROVE  MatchInv'
<1>1. IndexInv'
  BY IndexNext DEF MatchInv
<1>2. CASE InstallRulePkt
  BY <1>1, <1>2 DEF InstallRulePkt, MatchInv, MatchesExactly
<1>3. CASE InstallConstraint
  <2>1. last' = last /\ todo # {}
    BY <1>3 DEF InstallConstraint
  <2> QED
    BY <1>1, <2>1 DEF MatchInv, MatchesExactly
<1>4. CASE ProcessMessage
  <2>1. PICK pkt \in PubPkts : last' = <<pkt>> /\ mh' = Matching(pkt)
    BY <1>4 DEF ProcessMessage
  <2>2. todo = {} /\ UNCHANGED <<rules, todo, table>>
    BY <1>4 DEF ProcessMessage
  <2>3. Preds' = Preds /\ \A tp : Pred(tp)' = Pred(tp)
    BY <2>2 DEF Preds, Pred
  <2>4. mh' = {tp \in Preds : Matches(Pred(tp), pkt)}
    BY <2>1, <2>2, MatchingExact DEF MatchInv
  <2>5. last'[1] = pkt
    BY <2>1
  <2>6. MatchesExactly'
    BY <2>3, <2>4, <2>5 DEF MatchesExactly
  <2> QED
    BY <1>1, <2>2, <2>6 DEF MatchInv
<1>5. CASE UNCHANGED vars
  <2>1. UNCHANGED <<rules, todo, table, last, mh>>
    BY <1>5 DEF vars
  <2>2. Preds' = Preds /\ \A tp : Pred(tp)' = Pred(tp)
    BY <2>1 DEF Preds, Pred
  <2> QED
    BY <1>1, <2>1, <2>2 DEF MatchInv, MatchesExactly
<1> QED
  BY <1>2, <1>3, <1>4, <1>5 DEF Next

\* No packet has been processed at the beginning.
LEMMA InitMatch == Init => MatchInv
<1> SUFFICES ASSUME Init PROVE MatchInv
  OBVIOUS
<1>1. Preds = {} /\ Len(table) = 0
  BY DEF Init, Preds
<1> QED
  BY <1>1, InitIndex DEF Init, MatchInv, IndexInv, LinkInv, ConstraintsShared, MatchesExactly

\* The table links installed predicates only, and processMessage fills the
\* MatchingHandler with installed predicates only, whatever the rules are.
THEOREM IndexTypeCorrect == Spec => []TypeOK
<1>1. Init => TypeOK /\ TableInv
  BY InitIndex
<1>2. TypeOK /\ TableInv /\ [Next]_vars => (TypeOK /\ TableInv)'
  BY TypeNext
<1> QED
  BY <1>1, <1>2, PTL DEF Spec

\* Rules without string constraints share every constraint they have in common,
\* and getConstraint never leaves one outside its map.
THEOREM SharingComplete == RulesOK => (Spec => []ConstraintsShared)
<1> SUFFICES ASSUME RulesOK PROVE Spec => []ConstraintsShared
  OBVIOUS
<1>1. Init => IndexInv
  BY InitMatch DEF MatchInv
<1>2. IndexInv /\ [Next]_vars => IndexInv'
  BY IndexNext
<1>3. IndexInv => ConstraintsShared
  BY DEF IndexInv
<1> QED
  BY <1>1, <1>2, <1>3, PTL DEF Spec

\* For rules without string constraints and packets with one attribute of a name,
\* processMessage finds exactly the predicates all of whose constraints hold.
THEOREM IndexExact == RulesOK /\ PacketsOK => (Spec => []MatchesExactly)
<1> SUFFICES ASSUME RulesOK, PacketsOK PROVE Spec => []MatchesExactly
  OBVIOUS
<1>1. Init => MatchInv
  BY InitMatch
<1>2. MatchInv /\ [Next]_vars => MatchInv'
  BY MatchNext
<1>3. MatchInv => MatchesExactly
  BY DEF MatchInv
<1> QED
  BY <1>1, <1>2, <1>3, PTL DEF Spec

=============================================================================
