---------------------------- MODULE SubMatching ----------------------------
(***************************************************************************)
(* How the server compares a subscription with a publication and with      *)
(* another subscription (Util/TRexUtils.cpp).  A string value is a         *)
(* sequence of character codes.  The combinations of operator and type for *)
(* which the code throws are no inputs of the model.                       *)
(***************************************************************************)
EXTENDS Integers, Sequences, SequencesExt

\* strcmp(a, b) < 0.
StrLess(a, b) ==
  \/ IsStrictPrefix(a, b)
  \/ \E i \in DOMAIN a \intersect DOMAIN b :
       a[i] < b[i] /\ \A j \in 1 .. i - 1 : a[j] = b[j]

\* strstr(a, b) # NULL.
StrContains(a, b) ==
  \E i \in 0 .. Len(a) - Len(b) : SubSeq(a, i + 1, i + Len(b)) = b

Less(type, a, b) == IF type = "STRING" THEN StrLess(a, b) ELSE a < b

MatchesConstraint(constr, attr) ==
  /\ constr.name = attr.name
  /\ constr.type = attr.type
  /\ CASE constr.op = "EQ" -> attr.val = constr.val
       [] constr.op = "NE" -> attr.val # constr.val
       [] constr.op = "LT" -> Less(constr.type, attr.val, constr.val)
       [] constr.op = "GT" -> Less(constr.type, constr.val, attr.val)
       [] constr.op = "LE" -> ~Less(constr.type, constr.val, attr.val)
       [] constr.op = "GE" -> ~Less(constr.type, attr.val, constr.val)
       [] constr.op = "IN" -> StrContains(attr.val, constr.val)

\* The attribute of a name is the first one with that name: std::map::insert
\* keeps the pair that contentMap already has.
AttributeOf(pub, name) ==
  SelectInSeq(pub.attributes, LAMBDA a : a.name = name)

Matches(sub, pub) ==
  /\ pub.eventType = sub.eventType
  /\ \A i \in DOMAIN sub.constraints :
       LET k == AttributeOf(pub, sub.constraints[i].name)
       IN k # 0 /\ MatchesConstraint(sub.constraints[i], pub.attributes[k])

\* As many constraints, and each of the first among those of the second.
Equals(sub1, sub2) ==
  /\ sub1.eventType = sub2.eventType
  /\ Len(sub1.constraints) = Len(sub2.constraints)
  /\ \A i \in DOMAIN sub1.constraints : \E j \in DOMAIN sub2.constraints :
       sub1.constraints[i] = sub2.constraints[j]

============================================================================
