--------------------------- MODULE RateLimitProofs ---------------------------
(***************************************************************************)
(* Theorems about RateLimit: what the device can spend in any window, for  *)
(* any number of concurrent calls and any limit, window and retention.     *)
(***************************************************************************)
EXTENDS RateLimit, FiniteSetTheorems, TLAPS

CallRow == [pc : {"idle", "counted", "charged"}, at : Nat]

LEMMA TypeInit == Init => TypeOK
  BY RateLimitAssumption DEF Init, TypeOK

LEMMA TypeStep == TypeOK /\ [Next]_vars => TypeOK'
<1> SUFFICES ASSUME TypeOK, [Next]_vars
             PROVE  TypeOK'
  OBVIOUS
<1> USE RateLimitAssumption DEF TypeOK
<1>1. CASE \E w \in WireCalls : WireAdmit(w)
  BY <1>1 DEF WireAdmit, Calls
<1>2. CASE \E m \in ManualCalls : ManualCount(m) \/ ManualCharge(m)
  BY <1>2 DEF ManualCount, ManualCharge, Calls
<1>3. CASE \E c \in Calls : Commit(c)
  <2>1. PICK c \in Calls : Commit(c)
    BY <1>3
  <2>2. [id |-> nextId, at |-> call[c].at] \in RateRow
    BY DEF RateRow
  <2>3. QED
    BY <2>1, <2>2 DEF Commit
<1>4. CASE \E c \in Calls : Rollback(c)
  BY <1>4 DEF Rollback
<1>5. CASE PruneBatch
  BY <1>5 DEF PruneBatch
<1>6. CASE \E l \in 0..MaxLimit : SetLimit(l)
  BY <1>6 DEF SetLimit
<1>7. CASE Tick
  BY <1>7 DEF Tick
<1>8. CASE UNCHANGED vars
  BY <1>8 DEF vars
<1>9. QED
  BY <1>1, <1>2, <1>3, <1>4, <1>5, <1>6, <1>7, <1>8 DEF Next

(* The limiter's rows and the calls in flight stay well typed.             *)
THEOREM RateTypeCorrect == Spec => []TypeOK
  BY TypeInit, TypeStep, PTL DEF Spec

-----------------------------------------------------------------------------
(* The bound at one placement x of the window.                             *)
BoundAt(x) ==
  Cardinality(RecordedIn(x)) + Cardinality(PendingIn(x)) <= MaxLimit + Cardinality(ManualCalls)

(* OverrunBounded made inductive: it holds of windows still to come; the   *)
(* device row lets one wire call at a time past the count; and the prune   *)
(* leaves every row a count could still need, since the retention is no    *)
(* shorter than the window.                                                *)
LockInv ==
  /\ \A w \in WireCalls : call[w].pc # "counted"
  /\ \A v, w \in WireCalls : call[v].pc = "charged" /\ call[w].pc = "charged" => v = w

KeptInv ==
  /\ IsFiniteSet(recorded)
  /\ rows \subseteq recorded
  /\ \A r \in recorded : now <= r.at + Retention => r \in rows

RateInv == LockInv /\ KeptInv /\ \A x \in Nat : BoundAt(x)

LEMMA FiniteCalls == IsFiniteSet(Calls) /\ \A x : IsFiniteSet(PendingIn(x))
<1>1. IsFiniteSet(Calls)
  BY FS_Union, RateLimitAssumption DEF Calls
<1>2. QED
  BY <1>1, FS_Subset DEF PendingIn

LEMMA FiniteRecorded == IsFiniteSet(recorded) => \A x : IsFiniteSet(RecordedIn(x))
  BY FS_Subset DEF RecordedIn

LEMMA ManualNat == Cardinality(ManualCalls) \in Nat
  BY FS_CardinalityType, RateLimitAssumption

LEMMA RateInit == Init => RateInv
<1> SUFFICES ASSUME Init PROVE RateInv
  OBVIOUS
<1>1. LockInv
  BY DEF Init, LockInv, Calls
<1>2. KeptInv
  BY FS_EmptySet DEF Init, KeptInv
<1>3. ASSUME NEW x \in Nat PROVE BoundAt(x)
  <2>1. RecordedIn(x) = {} /\ PendingIn(x) = {}
    BY DEF Init, RecordedIn, PendingIn
  <2>2. QED
    BY <2>1, FS_EmptySet, ManualNat, RateLimitAssumption DEF BoundAt
<1>4. QED
  BY <1>1, <1>2, <1>3 DEF RateInv

(* When a count admits a call, every window that holds the present moment  *)
(* has recorded less than the limit.                                       *)
LEMMA CountIsEnough ==
  ASSUME TypeOK, KeptInv, Admits, NEW x \in Nat, InWindow(now, x)
  PROVE  Cardinality(RecordedIn(x)) < MaxLimit
<1>1. RecordedIn(x) \subseteq Used
  <2> SUFFICES ASSUME NEW r \in RecordedIn(x)
               PROVE  r \in Used
    OBVIOUS
  <2>1. r \in recorded /\ r \in RateRow /\ x <= r.at
    BY DEF RecordedIn, InWindow, TypeOK
  <2>2. r.at \in Nat /\ now \in Nat /\ now <= r.at + Window
    BY <2>1, RateLimitAssumption DEF RateRow, TypeOK, InWindow
  <2>3. QED
    BY <2>1, <2>2, RateLimitAssumption DEF KeptInv, Used
<1>2. IsFiniteSet(Used)
  BY FS_Subset DEF KeptInv, Used
<1>3. Cardinality(RecordedIn(x)) <= Cardinality(Used)
  BY <1>1, <1>2, FS_Subset
<1>4. Cardinality(RecordedIn(x)) \in Nat /\ Cardinality(Used) \in Nat
  BY <1>1, <1>2, FS_Subset, FS_CardinalityType
<1>5. QED
  BY <1>3, <1>4, RateLimitAssumption DEF Admits, TypeOK

(* Windows that do not hold the present moment are untouched by a call     *)
(* that is counted now; the others have room for it.                       *)
LEMMA Counted ==
  ASSUME TypeOK, RateInv, Admits, NEW c \in Calls, NEW pc \in {"counted", "charged"},
         call[c].pc = "idle", call' = [call EXCEPT ![c] = [pc |-> pc, at |-> now]],
         UNCHANGED recorded,
         Cardinality({d \in Calls : call'[d].pc # "idle"}) <= Cardinality(ManualCalls) + 1
  PROVE  \A x \in Nat : BoundAt(x)'
<1> SUFFICES ASSUME NEW x \in Nat PROVE BoundAt(x)'
  OBVIOUS
<1> DEFINE busy == {d \in Calls : call'[d].pc # "idle"}
<1>0. RecordedIn(x)' = RecordedIn(x)
  BY DEF RecordedIn
<1>1. CASE InWindow(now, x)
  <2>1. Cardinality(RecordedIn(x)) < MaxLimit
    BY <1>1, CountIsEnough DEF RateInv
  <2>2. PendingIn(x)' \subseteq busy /\ IsFiniteSet(busy)
    BY FiniteCalls, FS_Subset DEF PendingIn
  <2>3. Cardinality(PendingIn(x)') <= Cardinality(busy)
    BY <2>2, FS_Subset
  <2>4. /\ Cardinality(PendingIn(x)') \in Nat /\ Cardinality(busy) \in Nat
        /\ Cardinality(RecordedIn(x)) \in Nat
    BY <2>2, FS_Subset, FS_CardinalityType, FiniteRecorded DEF RateInv, KeptInv
  <2>5. QED
    BY <1>0, <2>1, <2>3, <2>4, ManualNat, RateLimitAssumption DEF BoundAt
<1>2. CASE ~InWindow(now, x)
  <2>1. PendingIn(x)' = PendingIn(x)
    <3>1. \A d \in Calls : d # c => call'[d] = call[d]
      BY DEF TypeOK
    <3>2. call'[c].at = now /\ call[c].pc = "idle"
      BY DEF TypeOK
    <3>3. c \notin PendingIn(x)' /\ c \notin PendingIn(x)
      BY <1>2, <3>2 DEF PendingIn, InWindow
    <3>4. QED
      BY <3>1, <3>3 DEF PendingIn, InWindow
  <2>2. QED
    BY <1>0, <2>1 DEF RateInv, BoundAt
<1>3. QED
  BY <1>1, <1>2

(* The calls in flight are manual ones and at most one wire call.          *)
LEMMA BusyBound ==
  ASSUME NEW k \in [Calls -> CallRow],
         \A w \in WireCalls : k[w].pc # "counted",
         \A v, w \in WireCalls : k[v].pc = "charged" /\ k[w].pc = "charged" => v = w
  PROVE  Cardinality({d \in Calls : k[d].pc # "idle"}) <= Cardinality(ManualCalls) + 1
<1> DEFINE busy == {d \in Calls : k[d].pc # "idle"}
<1>1. IsFiniteSet(ManualCalls)
  BY RateLimitAssumption
<1>2. CASE \A w \in WireCalls : k[w].pc = "idle"
  <2>1. busy \subseteq ManualCalls
    BY <1>2 DEF Calls
  <2>2. QED
    BY <1>1, <2>1, FS_Subset, FS_CardinalityType, ManualNat
<1>3. CASE \E w \in WireCalls : k[w].pc # "idle"
  <2>1. PICK w \in WireCalls : k[w].pc # "idle"
    BY <1>3
  <2>2. \A v \in WireCalls : k[v].pc # "idle" => k[v].pc = "charged"
    BY DEF CallRow, Calls
  <2>3. busy \subseteq ManualCalls \cup {w}
    BY <2>1, <2>2 DEF Calls
  <2>4. /\ IsFiniteSet(ManualCalls \cup {w})
        /\ Cardinality(ManualCalls \cup {w}) \in {Cardinality(ManualCalls), Cardinality(ManualCalls) + 1}
    BY <1>1, FS_AddElement
  <2>5. Cardinality(busy) <= Cardinality(ManualCalls \cup {w})
    BY <2>3, <2>4, FS_Subset
  <2>6. Cardinality(busy) \in Nat /\ Cardinality(ManualCalls \cup {w}) \in Nat
    BY <2>3, <2>4, FS_Subset, FS_CardinalityType
  <2>7. QED
    BY <2>4, <2>5, <2>6, ManualNat
<1>4. QED
  BY <1>2, <1>3

LEMMA RateStep == TypeOK /\ RateInv /\ [Next]_vars => RateInv'
<1> SUFFICES ASSUME TypeOK, RateInv, [Next]_vars
             PROVE  RateInv'
  OBVIOUS
<1>t. TypeOK'
  BY TypeStep
<1>1. ASSUME NEW w \in WireCalls, WireAdmit(w)
      PROVE  RateInv'
  <2>1. \A d \in Calls : d # w => call'[d] = call[d]
    BY <1>1 DEF WireAdmit, TypeOK
  <2>2. LockInv'
    <3>1. \A v \in WireCalls : v # w => call'[v].pc \notin {"charged", "counted"}
      BY <1>1, <2>1 DEF WireAdmit, ExclusiveHeld, RateInv, LockInv, Calls
    <3>2. call'[w].pc = "charged"
      BY <1>1 DEF WireAdmit, TypeOK, Calls
    <3>3. QED
      BY <3>1, <3>2 DEF LockInv
  <2>3. KeptInv'
    BY <1>1 DEF WireAdmit, RateInv, KeptInv
  <2>4. \A x \in Nat : BoundAt(x)'
    <3>1. Cardinality({d \in Calls : call'[d].pc # "idle"}) <= Cardinality(ManualCalls) + 1
      BY <1>t, <2>2, BusyBound DEF TypeOK, LockInv, CallRow
    <3>2. QED
      BY <1>1, <3>1, Counted DEF WireAdmit, Calls
  <2>5. QED
    BY <2>2, <2>3, <2>4 DEF RateInv
<1>2. ASSUME NEW m \in ManualCalls, ManualCount(m)
      PROVE  RateInv'
  <2>1. \A d \in Calls : d # m => call'[d] = call[d]
    BY <1>2 DEF ManualCount, TypeOK
  <2>2. LockInv'
    BY <2>1, RateLimitAssumption DEF RateInv, LockInv, Calls
  <2>3. KeptInv'
    BY <1>2 DEF ManualCount, RateInv, KeptInv
  <2>4. \A x \in Nat : BoundAt(x)'
    <3>1. Cardinality({d \in Calls : call'[d].pc # "idle"}) <= Cardinality(ManualCalls) + 1
      BY <1>t, <2>2, BusyBound DEF TypeOK, LockInv, CallRow
    <3>2. QED
      BY <1>2, <3>1, Counted DEF ManualCount, Calls
  <2>5. QED
    BY <2>2, <2>3, <2>4 DEF RateInv
<1>3. ASSUME NEW m \in ManualCalls, ManualCharge(m)
      PROVE  RateInv'
  <2>1. /\ \A d \in Calls : d # m => call'[d] = call[d]
        /\ call'[m].at = call[m].at /\ call'[m].pc = "charged" /\ call[m].pc = "counted"
    BY <1>3 DEF ManualCharge, TypeOK, Calls
  <2>2. LockInv'
    BY <2>1, RateLimitAssumption DEF RateInv, LockInv, Calls
  <2>3. KeptInv'
    BY <1>3 DEF ManualCharge, RateInv, KeptInv
  <2>4. ASSUME NEW x \in Nat PROVE BoundAt(x)'
    <3>1. PendingIn(x)' = PendingIn(x)
      BY <2>1 DEF PendingIn, InWindow
    <3>2. RecordedIn(x)' = RecordedIn(x)
      BY <1>3 DEF ManualCharge, RecordedIn
    <3>3. QED
      BY <3>1, <3>2 DEF RateInv, BoundAt
  <2>5. QED
    BY <2>2, <2>3, <2>4 DEF RateInv
<1>4. ASSUME NEW c \in Calls, Commit(c)
      PROVE  RateInv'
  <2> DEFINE r == [id |-> nextId, at |-> call[c].at]
  <2>1. /\ \A d \in Calls : d # c => call'[d] = call[d]
        /\ call'[c].pc = "idle" /\ call[c].pc = "charged"
    BY <1>4 DEF Commit, TypeOK
  <2>2. LockInv'
    BY <2>1 DEF RateInv, LockInv, Calls
  <2>3. KeptInv'
    BY <1>4, FS_AddElement DEF Commit, RateInv, KeptInv
  <2>4. ASSUME NEW x \in Nat PROVE BoundAt(x)'
    <3>1. /\ IsFiniteSet(RecordedIn(x)) /\ IsFiniteSet(PendingIn(x))
          /\ Cardinality(RecordedIn(x)) \in Nat /\ Cardinality(PendingIn(x)) \in Nat
      BY FiniteRecorded, FiniteCalls, FS_CardinalityType DEF RateInv, KeptInv
    <3>2. PendingIn(x)' = PendingIn(x) \ {c}
      BY <2>1 DEF PendingIn, InWindow
    <3>3. CASE InWindow(call[c].at, x)
      <4>1. c \in PendingIn(x)
        BY <2>1, <3>3 DEF PendingIn
      <4>2. Cardinality(PendingIn(x)') = Cardinality(PendingIn(x)) - 1
        BY <3>1, <3>2, <4>1, FS_RemoveElement
      <4>3. RecordedIn(x)' = RecordedIn(x) \cup {r}
        BY <1>4, <3>3 DEF Commit, RecordedIn, InWindow
      <4>4. Cardinality(RecordedIn(x)') \in {Cardinality(RecordedIn(x)), Cardinality(RecordedIn(x)) + 1}
        BY <3>1, <4>3, FS_AddElement
      <4>5. QED
        BY <3>1, <4>2, <4>4, ManualNat, RateLimitAssumption DEF RateInv, BoundAt
    <3>4. CASE ~InWindow(call[c].at, x)
      <4>1. c \notin PendingIn(x)
        BY <3>4 DEF PendingIn
      <4>2. PendingIn(x)' = PendingIn(x)
        BY <3>2, <4>1
      <4>3. RecordedIn(x)' = RecordedIn(x)
        BY <1>4, <3>4 DEF Commit, RecordedIn, InWindow
      <4>4. QED
        BY <4>2, <4>3 DEF RateInv, BoundAt
    <3>5. QED
      BY <3>3, <3>4
  <2>5. QED
    BY <2>2, <2>3, <2>4 DEF RateInv
<1>5. ASSUME NEW c \in Calls, Rollback(c)
      PROVE  RateInv'
  <2>1. /\ \A d \in Calls : d # c => call'[d] = call[d]
        /\ call'[c].pc = "idle"
    BY <1>5 DEF Rollback, TypeOK
  <2>2. LockInv'
    BY <2>1 DEF RateInv, LockInv, Calls
  <2>3. KeptInv'
    BY <1>5 DEF Rollback, RateInv, KeptInv
  <2>4. ASSUME NEW x \in Nat PROVE BoundAt(x)'
    <3>1. PendingIn(x)' \subseteq PendingIn(x) /\ IsFiniteSet(PendingIn(x))
      BY <2>1, FiniteCalls DEF PendingIn, InWindow
    <3>2. /\ Cardinality(PendingIn(x)') <= Cardinality(PendingIn(x))
          /\ Cardinality(PendingIn(x)') \in Nat /\ Cardinality(PendingIn(x)) \in Nat
      BY <3>1, FS_Subset, FS_CardinalityType
    <3>3. RecordedIn(x)' = RecordedIn(x) /\ Cardinality(RecordedIn(x)) \in Nat
      BY <1>5, FiniteRecorded, FS_CardinalityType DEF Rollback, RecordedIn, RateInv, KeptInv
    <3>4. QED
      BY <3>2, <3>3, ManualNat, RateLimitAssumption DEF RateInv, BoundAt
  <2>5. QED
    BY <2>2, <2>3, <2>4 DEF RateInv
<1>6. ASSUME UNCHANGED <<call, recorded>>
      PROVE  LockInv' /\ \A x \in Nat : BoundAt(x)'
  BY <1>6 DEF RateInv, LockInv, BoundAt, PendingIn, RecordedIn, InWindow
<1>7. CASE PruneBatch
  <2>1. PICK gone \in SUBSET Expired : rows' = rows \ gone
    BY <1>7 DEF PruneBatch
  <2>2. ASSUME NEW q \in recorded, now <= q.at + Retention
        PROVE  q \in rows'
    <3>1. q \in RateRow /\ q \in rows
      BY <2>2 DEF TypeOK, RateInv, KeptInv
    <3>2. q \notin Expired
      BY <2>2, <3>1, RateLimitAssumption DEF Expired, RateRow, TypeOK
    <3>3. QED
      BY <2>1, <3>1, <3>2
  <2>3. KeptInv'
    BY <1>7, <2>1, <2>2 DEF PruneBatch, RateInv, KeptInv
  <2>4. QED
    BY <1>6, <1>7, <2>3 DEF PruneBatch, RateInv
<1>8. CASE \E l \in 0..MaxLimit : SetLimit(l)
  BY <1>6, <1>8 DEF SetLimit, RateInv, KeptInv
<1>9. CASE Tick
  <2>1. ASSUME NEW q \in recorded, now' <= q.at + Retention
        PROVE  q \in rows
    <3>1. q \in RateRow
      BY DEF TypeOK
    <3>2. now <= q.at + Retention
      BY <1>9, <2>1, <3>1, RateLimitAssumption DEF Tick, RateRow, TypeOK
    <3>3. QED
      BY <3>2 DEF RateInv, KeptInv
  <2>2. KeptInv'
    BY <1>9, <2>1 DEF Tick, RateInv, KeptInv
  <2>3. QED
    BY <1>6, <1>9, <2>2 DEF Tick, RateInv
<1>10. CASE UNCHANGED vars
  BY <1>6, <1>10 DEF vars, RateInv, KeptInv
<1>11. QED
  BY <1>1, <1>2, <1>3, <1>4, <1>5, <1>7, <1>8, <1>9, <1>10 DEF Next

(* The overrun of the limit is at most one call per concurrent manual      *)
(* request, in every window, whatever is pruned and whenever the limit is  *)
(* changed.                                                                *)
THEOREM OverrunIsBounded == Spec => []OverrunBounded
<1>1. TypeOK /\ RateInv => OverrunBounded
  BY DEF RateInv, OverrunBounded, BoundAt, TypeOK
<1>2. QED
  BY <1>1, RateInit, RateStep, RateTypeCorrect, PTL DEF Spec

(* A device nobody updates by hand never exceeds its limit, in any window. *)
THEOREM WireNeverOverruns ==
  ASSUME ManualCalls = {}
  PROVE  Spec => []LimitRespected
<1>1. TypeOK /\ RateInv => LimitRespected
  <2> SUFFICES ASSUME TypeOK, RateInv, NEW x \in 0..now
               PROVE  Cardinality(RecordedIn(x)) <= MaxLimit
    BY DEF LimitRespected
  <2>1. x \in Nat /\ Cardinality(ManualCalls) = 0
    BY FS_EmptySet DEF TypeOK
  <2>2. Cardinality(RecordedIn(x)) \in Nat /\ Cardinality(PendingIn(x)) \in Nat
    BY FiniteRecorded, FiniteCalls, FS_CardinalityType DEF RateInv, KeptInv
  <2>3. QED
    BY <2>1, <2>2, RateLimitAssumption DEF RateInv, BoundAt
<1>2. QED
  BY <1>1, RateInit, RateStep, RateTypeCorrect, PTL DEF Spec
=============================================================================
