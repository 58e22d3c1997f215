--------------------------- MODULE PermissionProofs ---------------------------
(***************************************************************************)
(* Proof that PermissionManager implements the policy of spec section 4.2 *)
(* under the refinement mapping of module Permission, for every set of    *)
(* principals, feed ids, granted lists and requested tuples, provided     *)
(* every requested enumerable value is one the policy speaks of.          *)
(***************************************************************************)
EXTENDS Permission, SequenceTheorems, TLAPS

USE PermissionAssumption

(* Consumers ask only about values bits stand for: no negative value.      *)
EnumerablesInPolicy ==
  \A e \in Enumerables : \A i \in 1..Len(e) : e[i] \in EnumValues

(* The table's shape, which the mapping needs.                             *)
TableOK ==
  /\ permissions = [a \in DOMAIN permissions |-> permissions[a]]
  /\ \A a \in DOMAIN permissions :
       /\ permissions[a] = [f \in DOMAIN permissions[a] |-> permissions[a][f]]
       /\ \A f \in DOMAIN permissions[a] : permissions[a][f] \in MaskLists

-----------------------------------------------------------------------------
LEMMA InitTable == Init => TableOK
BY DEF Init, TableOK

LEMMA TableStep == TableOK /\ [Next]_vars => TableOK'
<1> SUFFICES ASSUME TableOK, [Next]_vars PROVE TableOK'
  OBVIOUS
<1>1. ASSUME NEW a \in Principals, NEW f \in FeedIds, NEW m \in MaskLists,
             Grant(a, f, m)
      PROVE  TableOK'
  BY <1>1 DEF Grant, TableOK, FeedsOf
<1>2. ASSUME NEW a \in Principals, NEW f \in FeedIds, Revoke(a, f)
      PROVE  TableOK'
  BY <1>2 DEF Revoke, TableOK
<1>3. ASSUME NEW a \in Principals, NEW f \in FeedIds, NEW e \in Enumerables,
             CheckAccess(a, f, e)
      PROVE  TableOK'
  BY <1>3 DEF CheckAccess, TableOK
<1>4. CASE UNCHANGED vars
  BY <1>4 DEF vars, TableOK
<1>. QED
  BY <1>1, <1>2, <1>3, <1>4 DEF Next

-----------------------------------------------------------------------------
(* A granted list stands for a record of the policy, never for NoRecord.   *)
LEMMA RecordOfType ==
  ASSUME NEW m \in MaskLists
  PROVE  /\ RecordOf(m) \in Seq(SUBSET EnumValues)
         /\ RecordOf(m) # NoRecord
         /\ Len(RecordOf(m)) = Len(m)
<1>1. m \in Seq(Int) /\ Len(m) \in Nat
  BY LenProperties
<1>2. RecordOf(m) \in [1..Len(m) -> SUBSET EnumValues]
  BY <1>1 DEF RecordOf, MaskBits
<1>3. RecordOf(m) \in Seq(SUBSET EnumValues) /\ Len(RecordOf(m)) = Len(m)
  BY <1>1, <1>2, LenProperties
<1>. QED
  BY <1>3

(* The loop of check_access allows exactly what the policy allows, and     *)
(* never raises, when every value is one the policy speaks of.             *)
LEMMA LoopIsPolicy ==
  ASSUME NEW m \in MaskLists, NEW e \in Enumerables, EnumerablesInPolicy
  PROVE  /\ ~LoopRaises(m, e)
         /\ LoopAllows(m, e) = AbstractPermission!Allowed(RecordOf(m), e)
<1>1. m \in Seq(Int) /\ e \in Seq(Int) /\ Len(m) \in Nat /\ Len(e) \in Nat
  BY LenProperties
<1>2. \A i \in 1..Len(e) : e[i] \in EnumValues /\ e[i] \in Nat
  BY DEF EnumerablesInPolicy
<1>3. ~LoopRaises(m, e)
  BY <1>2 DEF LoopRaises
<1>4. RecordOf(m) # NoRecord /\ Len(RecordOf(m)) = Len(m)
  BY RecordOfType
<1>5. \A i \in 1..Len(e) : i <= Len(m) =>
        (e[i] \in RecordOf(m)[i] <=> Passes(m, e, i))
  BY <1>1, <1>2 DEF RecordOf, MaskBits, Passes, IsAuthorizedForParameter
<1>6. LoopAllows(m, e) <=> (Len(e) <= Len(m) /\ \A i \in 1..Len(e) : Passes(m, e, i))
  <2>1. LoopAllows(m, e) => Len(e) <= Len(m)
    <3>. SUFFICES ASSUME LoopAllows(m, e), Len(e) > Len(m) PROVE FALSE
      BY <1>1
    <3>1. Len(e) \in 1..Len(e)
      BY <1>1
    <3>. QED
      BY <3>1 DEF LoopAllows, Passes
  <2>. QED
    BY <2>1 DEF LoopAllows
<1>7. AbstractPermission!Allowed(RecordOf(m), e) <=>
        (Len(e) <= Len(m) /\ \A i \in 1..Len(e) : e[i] \in RecordOf(m)[i])
  BY <1>4 DEF AbstractPermission!Allowed
<1>8. (Len(e) <= Len(m) /\ \A i \in 1..Len(e) : e[i] \in RecordOf(m)[i]) <=>
        (Len(e) <= Len(m) /\ \A i \in 1..Len(e) : Passes(m, e, i))
  BY <1>1, <1>5
<1>9. LoopAllows(m, e) <=> AbstractPermission!Allowed(RecordOf(m), e)
  BY <1>6, <1>7, <1>8
<1>. QED
  BY <1>3, <1>9 DEF LoopAllows, AbstractPermission!Allowed

-----------------------------------------------------------------------------
(* The state main() starts from maps to the policy's initial state.        *)
LEMMA InitMaps == Init => AbstractPermission!Init
BY DEF Init, AbstractPermission!Init, recordsBar, FeedsOf, PResult,
       AbstractPermission!Answer

(* Every call maps to the policy operation of the same name.               *)
LEMMA StepMaps ==
  ASSUME EnumerablesInPolicy, TableOK, [Next]_vars
  PROVE  [AbstractPermission!Next]_<<recordsBar, pret>>
<1>1. ASSUME NEW a \in Principals, NEW f \in FeedIds, NEW m \in MaskLists,
             Grant(a, f, m)
      PROVE  AbstractPermission!Grant(a, f, RecordOf(m))
  <2>1. \A x \in Principals : FeedsOf(x)' = IF x = a THEN FeedsOf(a) \cup {f} ELSE FeedsOf(x)
    BY <1>1 DEF Grant, FeedsOf
  <2>2. \A x \in Principals : \A g \in (FeedsOf(x))' :
          permissions'[x][g] = IF x = a /\ g = f THEN m ELSE permissions[x][g]
    BY <1>1, <2>1 DEF Grant, FeedsOf
  <2>3. \A x \in Principals, g \in FeedIds :
          recordsBar'[x][g] = IF x = a /\ g = f THEN RecordOf(m) ELSE recordsBar[x][g]
    BY <2>1, <2>2 DEF recordsBar
  <2>6. recordsBar' = [x \in Principals |-> [g \in FeedIds |->
                          IF x = a /\ g = f THEN RecordOf(m) ELSE recordsBar[x][g]]]
    BY <2>3 DEF recordsBar
  <2>5. recordsBar' = [recordsBar EXCEPT ![a][f] = RecordOf(m)]
    BY <2>6 DEF recordsBar
  <2>4. pret' = AbstractPermission!Answer("grant", a, f, <<>>, "none")
    BY <1>1 DEF Grant, PResult, AbstractPermission!Answer
  <2>. QED
    BY <2>5, <2>4 DEF AbstractPermission!Grant
<1>2. ASSUME NEW a \in Principals, NEW f \in FeedIds, Revoke(a, f)
      PROVE  AbstractPermission!Revoke(a, f)
  <2>1. \A x \in Principals : FeedsOf(x)' = IF x = a THEN FeedsOf(a) \ {f} ELSE FeedsOf(x)
    BY <1>2 DEF Revoke, FeedsOf
  <2>2. \A x \in Principals : \A g \in (FeedsOf(x))' : permissions'[x][g] = permissions[x][g]
    BY <1>2, <2>1 DEF Revoke, FeedsOf
  <2>3. \A x \in Principals, g \in FeedIds :
          recordsBar'[x][g] = IF x = a /\ g = f THEN NoRecord ELSE recordsBar[x][g]
    BY <2>1, <2>2 DEF recordsBar
  <2>6. recordsBar' = [x \in Principals |-> [g \in FeedIds |->
                          IF x = a /\ g = f THEN NoRecord ELSE recordsBar[x][g]]]
    BY <2>3 DEF recordsBar
  <2>5. recordsBar' = [recordsBar EXCEPT ![a][f] = NoRecord]
    BY <2>6 DEF recordsBar
  <2>4. pret' = AbstractPermission!Answer("revoke", a, f, <<>>, "none")
    BY <1>2 DEF Revoke, PResult, AbstractPermission!Answer
  <2>. QED
    BY <2>5, <2>4 DEF AbstractPermission!Revoke
<1>3. ASSUME NEW a \in Principals, NEW f \in FeedIds, NEW e \in Enumerables,
             CheckAccess(a, f, e)
      PROVE  AbstractPermission!Check(a, f, e)
  <2>1. recordsBar' = recordsBar
    BY <1>3 DEF CheckAccess, recordsBar, FeedsOf
  <2>2. CASE f \in FeedsOf(a)
    <3>. DEFINE m == permissions[a][f]
    <3>1. m \in MaskLists /\ recordsBar[a][f] = RecordOf(m)
      BY <2>2 DEF TableOK, FeedsOf, recordsBar
    <3>2. ~LoopRaises(m, e) /\ LoopAllows(m, e) = AbstractPermission!Allowed(RecordOf(m), e)
      BY <3>1, LoopIsPolicy
    <3>5. ~LoopRaises(permissions[a][f], e)
      BY <3>2
    <3>6. (f \in FeedsOf(a) /\ LoopAllows(permissions[a][f], e)) = LoopAllows(m, e)
      BY <2>2 DEF LoopAllows
    <3>3. pret' = PResult("check", a, f, e, LoopAllows(m, e), "none")
      BY <1>3, <3>5, <3>6, Zenon DEF CheckAccess
    <3>4. pret' = AbstractPermission!Answer("check", a, f, e, AbstractPermission!Allowed(recordsBar[a][f], e))
      BY <3>1, <3>2, <3>3 DEF PResult, AbstractPermission!Answer
    <3>. QED
      BY <2>1, <3>4 DEF AbstractPermission!Check
  <2>3. CASE f \notin FeedsOf(a)
    <3>1. recordsBar[a][f] = NoRecord
      BY <2>3 DEF recordsBar
    <3>2. pret' = AbstractPermission!Answer("check", a, f, e, AbstractPermission!Allowed(recordsBar[a][f], e))
      BY <1>3, <2>3, <3>1 DEF CheckAccess, PResult, AbstractPermission!Answer, AbstractPermission!Allowed
    <3>. QED
      BY <2>1, <3>2 DEF AbstractPermission!Check
  <2>. QED
    BY <2>2, <2>3
<1>4. CASE UNCHANGED vars
  BY <1>4 DEF vars, recordsBar, FeedsOf
<1>. QED
  BY <1>1, <1>2, <1>3, <1>4 DEF Next, AbstractPermission!Next

(* For every instance in which consumers ask only about values that bits   *)
(* stand for, PermissionManager's grant, revoke and check_access implement *)
(* the deny-by-default, AND-of-positions policy of spec section 4.2.       *)
THEOREM PermissionRefinement ==
  ASSUME EnumerablesInPolicy
  PROVE  Spec => ImplementsPermissionSpec
<1>1. Spec => []TableOK
  BY InitTable, TableStep, PTL DEF Spec
<1>2. TableOK /\ [Next]_vars => [AbstractPermission!Next]_<<recordsBar, pret>>
  BY StepMaps
<1>. QED
  BY <1>1, <1>2, InitMaps, PTL DEF Spec, ImplementsPermissionSpec,
     AbstractPermission!Spec, AbstractPermission!vars
=============================================================================
