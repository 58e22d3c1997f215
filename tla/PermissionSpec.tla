---------------------------- MODULE PermissionSpec ----------------------------
(***************************************************************************)
(* The policy of the permission layer (spec section 4.2).  A record is     *)
(* addressed by (principal, feed type) and holds, for each position of a  *)
(* feed's enumerable parameters, the set of values allowed there.  A      *)
(* check is deny by default and the AND of its positions: it holds iff a  *)
(* record exists, the record covers every position, and every value is    *)
(* allowed at its position.  grant replaces a record wholesale, revoke    *)
(* removes it (a no-op when absent).  answer records what the last        *)
(* operation returned.                                                    *)
(***************************************************************************)
EXTENDS Integers, Sequences

CONSTANTS
  Principals,   \* principal identifiers
  FeedIds,      \* feed-type ids
  Grants,       \* the records an admin may grant: sequences of value sets
  Enumerables,  \* the enumerable parameter tuples consumers ask about
  NoRecord      \* "no record for this (principal, feed type)"

VARIABLES records, answer

vars == <<records, answer>>

(* A policy check never raises: raised is always "none".                   *)
Answer(op, a, f, e, r) ==
  [op |-> op, who |-> a, fid |-> f, enum |-> e, result |-> r, raised |-> "none"]

Init ==
  /\ records = [a \in Principals |-> [f \in FeedIds |-> NoRecord]]
  /\ answer = Answer("none", NoRecord, NoRecord, <<>>, "none")

(* The policy: deny by default, AND over the enumerable positions.         *)
Allowed(rec, e) ==
  /\ rec # NoRecord
  /\ Len(e) <= Len(rec)
  /\ \A i \in 1..Len(e) : e[i] \in rec[i]

Grant(a, f, s) ==
  /\ records' = [records EXCEPT ![a][f] = s]
  /\ answer' = Answer("grant", a, f, <<>>, "none")

Revoke(a, f) ==
  /\ records' = [records EXCEPT ![a][f] = NoRecord]
  /\ answer' = Answer("revoke", a, f, <<>>, "none")

Check(a, f, e) ==
  /\ answer' = Answer("check", a, f, e, Allowed(records[a][f], e))
  /\ UNCHANGED records

Next ==
  \E a \in Principals, f \in FeedIds :
    \/ \E s \in Grants : Grant(a, f, s)
    \/ Revoke(a, f)
    \/ \E e \in Enumerables : Check(a, f, e)

Spec == Init /\ [][Next]_vars
=============================================================================
