------------------------- MODULE HealthSweepProofs -------------------------
(***************************************************************************)
(* A sweep's summary tells what the sweep did, for any population, batch    *)
(* size and number of sweeps, unless another writer came between its count  *)
(* and its fetch.                                                           *)
(*                                                                         *)
(* The strengthening follows the count to the fetch: until somebody else's  *)
(* statement lands, the number a sweep counted is the size of the set its   *)
(* fetch will select from, so that batch and expectation are the same.  It  *)
(* holds however much time passes, because that set is bounded by the       *)
(* sweep's own `now` and not by the clock.                                  *)
(***************************************************************************)
EXTENDS HealthSweep, Integers, FiniteSetTheorems, TLAPS

SweepRecord == [pc : {"idle", "pressed", "claimed", "counted", "fetched"}, due : Nat,
                batch : SUBSET Hostnames, raced : BOOLEAN,
                fresh : SUBSET Hostnames, grace : SUBSET Hostnames]

SweepType ==
  /\ rows \subseteq Hostnames /\ fresh \subseteq Hostnames /\ grace \subseteq Hostnames
  /\ sweep \in [Sweeps -> SweepRecord]

CountIsCurrent ==
  \A s \in Sweeps : sweep[s].pc = "counted" /\ ~sweep[s].raced
                      => sweep[s].due = Cardinality(Fetchable(s))

SummaryInv == SweepType /\ CountIsCurrent

LEMMA IdleType == Idle \in SweepRecord
  BY DEF Idle, SweepRecord

LEMMA DueIsFinite ==
  ASSUME rows \subseteq Hostnames, NEW s \in Sweeps
  PROVE  /\ DueNow(s) \subseteq Hostnames /\ Fetchable(s) \subseteq Hostnames
         /\ \A S \in SUBSET Hostnames : IsFiniteSet(S) /\ Cardinality(S) \in Nat
<1>1. DueNow(s) \subseteq Hostnames /\ Fetchable(s) \subseteq Hostnames
  BY DEF DueNow, Fetchable, Reach
<1>2. IsFiniteSet(Hostnames)
  BY HealthSweepAssumption DEF HealthSweepAssumption
<1>3. \A S \in SUBSET Hostnames : IsFiniteSet(S)
  BY <1>2, FS_Subset
<1>4. \A S \in SUBSET Hostnames : Cardinality(S) \in Nat
  BY <1>3, FS_CardinalityType
<1> QED BY <1>1, <1>3, <1>4

(* A writer's statement marks every sweep that stands between its count and *)
(* its fetch, and changes nothing else of any sweep but what the fetch will *)
(* see of the rows the statement touched.                                   *)
LEMMA RaceMarks ==
  ASSUME NEW r \in [Sweeps -> SweepRecord], NEW R, NEW G,
         fresh' \subseteq Hostnames, grace' \subseteq Hostnames
  PROVE  /\ Race(r, R, G) \in [Sweeps -> SweepRecord]
         /\ \A s \in Sweeps : Race(r, R, G)[s].pc = r[s].pc
         /\ \A s \in Sweeps : r[s].pc = "counted" => Race(r, R, G)[s].raced
         /\ \A s \in Sweeps : r[s].pc # "counted" => Race(r, R, G)[s] = r[s]
<1>1. ASSUME NEW s \in Sweeps, r[s].pc = "counted"
      PROVE  /\ Race(r, R, G)[s] \in SweepRecord
             /\ Race(r, R, G)[s].pc = r[s].pc /\ Race(r, R, G)[s].raced
  <2> DEFINE f == (r[s].fresh \ R) \cup (Seen(s, fresh') \cap R)
             g == (r[s].grace \ G) \cup (Seen(s, grace') \cap G)
  <2>1. r[s] \in SweepRecord
    OBVIOUS
  <2>2. f \in SUBSET Hostnames /\ g \in SUBSET Hostnames
    BY <2>1 DEF Seen, SweepRecord
  <2>3. Race(r, R, G)[s] = [r[s] EXCEPT !.raced = TRUE, !.fresh = f, !.grace = g]
    BY <1>1, <2>1 DEF Race, SweepRecord
  <2> HIDE DEF f, g
  <2> QED BY <2>1, <2>2, <2>3 DEF SweepRecord
<1>2. ASSUME NEW s \in Sweeps, r[s].pc # "counted" PROVE Race(r, R, G)[s] = r[s]
  BY <1>2 DEF Race
<1>3. DOMAIN Race(r, R, G) = Sweeps /\ Race(r, R, G) = [s \in Sweeps |-> Race(r, R, G)[s]]
  BY DEF Race
<1>4. \A s \in Sweeps : Race(r, R, G)[s] \in SweepRecord
  BY <1>1, <1>2
<1> QED BY <1>1, <1>2, <1>3, <1>4

LEMMA RaceKeeps ==
  ASSUME NEW r \in [Sweeps -> SweepRecord], NEW R, NEW G, sweep' = Race(r, R, G),
         rows' \subseteq Hostnames, fresh' \subseteq Hostnames, grace' \subseteq Hostnames
  PROVE  SummaryInv'
<1>1. sweep' \in [Sweeps -> SweepRecord]
  BY RaceMarks
<1>2. \A s \in Sweeps : sweep'[s].pc = "counted" => sweep'[s].raced
  BY RaceMarks
<1> QED BY <1>1, <1>2 DEF SummaryInv, SweepType, CountIsCurrent

(* What a sweep will fetch depends on the rows and on its own record.       *)
LEMMA FetchStands ==
  ASSUME NEW s \in Sweeps, rows' = rows, written' = written, sweep'[s] = sweep[s]
  PROVE  Fetchable(s)' = Fetchable(s)
  BY DEF Fetchable, Reach

LEMMA SummaryStep ==
  ASSUME SummaryInv, [Next]_vars
  PROVE  SummaryInv'
<1> USE DEF SummaryInv
<1>1. ASSUME rows' = rows, written' = written,
             fresh' \subseteq Hostnames, grace' \subseteq Hostnames,
             sweep' \in [Sweeps -> SweepRecord],
             \A s \in Sweeps : sweep'[s] = sweep[s] \/ sweep'[s].pc # "counted"
      PROVE  SummaryInv'
  <2>1. SweepType'
    BY <1>1 DEF SweepType
  <2>2. ASSUME NEW s \in Sweeps, sweep'[s].pc = "counted", ~sweep'[s].raced
        PROVE  sweep'[s].due = Cardinality(Fetchable(s)')
    BY <1>1, <2>2, FetchStands DEF CountIsCurrent
  <2> QED BY <2>1, <2>2 DEF CountIsCurrent
<1>2. ASSUME NEW t \in Sweeps, Count(t) PROVE SummaryInv'
  <2> DEFINE c == [Idle EXCEPT !.pc = "counted", !.due = Cardinality(DueNow(t)),
                              !.fresh = Seen(t, fresh), !.grace = Seen(t, grace)]
  <2>1. Cardinality(DueNow(t)) \in Nat
    BY DueIsFinite DEF SweepType
  <2>2. c \in SweepRecord
    BY <2>1, IdleType DEF SweepRecord, SweepType, Seen
  <2>3. sweep'[t] = c /\ \A s \in Sweeps \ {t} : sweep'[s] = sweep[s]
    BY <1>2 DEF Count, SweepType
  <2>4. SweepType'
    BY <1>2, <2>2 DEF Count, SweepType, population
  <2>5. rows' = rows /\ written' = written
    BY <1>2 DEF Count, population
  <2>6. sweep'[t].due = Cardinality(DueNow(t)) /\ Fetchable(t)' = DueNow(t)
    BY <2>3, <2>5 DEF Fetchable, DueNow, Reach, Seen, Idle
  <2>7. CountIsCurrent'
    <3>1. ASSUME NEW s \in Sweeps \ {t}, sweep'[s].pc = "counted", ~sweep'[s].raced
          PROVE  sweep'[s].due = Cardinality(Fetchable(s)')
      BY <2>3, <2>5, <3>1, FetchStands DEF CountIsCurrent
    <3>2. sweep'[t].due = Cardinality(Fetchable(t)')
      BY <2>6
    <3> HIDE DEF c
    <3> QED BY <3>1, <3>2 DEF CountIsCurrent
  <2> QED BY <2>4, <2>7
<1>3. ASSUME NEW t \in Sweeps, Fetch(t) PROVE SummaryInv'
  <2>1. PICK S \in SUBSET Fetchable(t) :
          sweep' = [sweep EXCEPT ![t] = [Idle EXCEPT !.pc = "fetched", !.batch = S]]
    BY <1>3 DEF Fetch
  <2>2. [Idle EXCEPT !.pc = "fetched", !.batch = S] \in SweepRecord
    BY DueIsFinite, IdleType DEF SweepType, SweepRecord
  <2>3. UNCHANGED population
    BY <1>3 DEF Fetch
  <2>4. \A s \in Sweeps : sweep'[s] = sweep[s] \/ sweep'[s].pc # "counted"
    BY <2>1 DEF SweepType, Idle
  <2> QED BY <1>1, <2>1, <2>2, <2>3, <2>4 DEF population, SweepType
<1>4. ASSUME NEW t \in Sweeps, Write(t) PROVE SummaryInv'
  <2> DEFINE r == [sweep EXCEPT ![t] = Idle]
             checked == sweep[t].batch \cap rows
  <2>1. r \in [Sweeps -> SweepRecord]
    BY IdleType DEF SweepType
  <2>2. /\ sweep' = Race(r, checked, {}) /\ fresh' = fresh \cup checked
        /\ rows' = rows /\ grace' = grace
    BY <1>4 DEF Write
  <2> HIDE DEF r
  <2> QED BY <2>1, <2>2, RaceKeeps DEF SweepType
<1>5. ASSUME NEW t \in Sweeps, Fails(t) PROVE SummaryInv'
  <2>1. \A s \in Sweeps : sweep'[s] = sweep[s] \/ sweep'[s].pc # "counted"
    BY <1>5 DEF Fails, SweepType, Idle
  <2> QED BY <1>1, <1>5, <2>1, IdleType DEF Fails, SweepType, population
<1>6. ASSUME NEW R, NEW G, sweep' = Race(sweep, R, G), rows' \subseteq Hostnames,
             fresh' \subseteq Hostnames, grace' \subseteq Hostnames
      PROVE  SummaryInv'
  BY <1>6, RaceKeeps DEF SweepType
<1>7. ASSUME NEW h \in Hostnames, Publish(h) \/ Record(h) \/ Adopt(h) PROVE SummaryInv'
  <2>1. CASE Publish(h)
    BY <1>6, <2>1 DEF Publish, SweepType
  <2>2. CASE Record(h) \/ Adopt(h)
    BY <1>6, <2>2 DEF Record, Adopt, SweepType
  <2> QED BY <1>7, <2>1, <2>2
<1>8. ASSUME NEW h \in Hostnames, DeleteHostname(h) \/ CreateHostname(h) PROVE SummaryInv'
  <2>1. CASE DeleteHostname(h)
    BY <1>6, <2>1 DEF DeleteHostname, SweepType
  <2>2. CASE CreateHostname(h)
    BY <1>6, <2>2 DEF CreateHostname, SweepType
  <2> QED BY <1>8, <2>1, <2>2
<1>9. CASE Clear
  BY <1>6, <1>9 DEF Clear, SweepType
<1>10. ASSUME GoesStale \/ \E h \in Hostnames : GraceExpires(h) PROVE SummaryInv'
  BY <1>1, <1>10 DEF GoesStale, GraceExpires, SweepType
<1>11. CASE CooldownExpires \/ UNCHANGED vars
  BY <1>1, <1>11 DEF CooldownExpires, vars, population, SweepType
<1>12. ASSUME NEW t \in Forced, Press(t) \/ Claim(t) PROVE SummaryInv'
  <2>1. t \in Sweeps
    BY DEF Sweeps
  <2>2. CASE Press(t)
    <3>1. /\ sweep' \in [Sweeps -> SweepRecord]
          /\ \A s \in Sweeps : sweep'[s] = sweep[s] \/ sweep'[s].pc # "counted"
      BY <2>1, <2>2, IdleType DEF Press, SweepType, SweepRecord, Idle
    <3> QED BY <1>1, <2>2, <3>1 DEF Press, population, SweepType
  <2>3. CASE Claim(t)
    <3>1. ASSUME NEW s \in Sweeps
          PROVE  /\ sweep'[s] \in SweepRecord
                 /\ sweep'[s] = sweep[s] \/ sweep'[s].pc # "counted"
      BY <2>3, IdleType DEF Claim, Begin, SweepType, SweepRecord, Idle
    <3>2. sweep' \in [Sweeps -> SweepRecord]
      BY <2>3, <3>1 DEF Claim, Begin
    <3> QED BY <1>1, <2>3, <3>1, <3>2 DEF Claim, population, SweepType
  <2> QED BY <1>12, <2>2, <2>3
<1> QED BY <1>2, <1>3, <1>4, <1>5, <1>7, <1>8, <1>9, <1>10, <1>11, <1>12 DEF Next, Step, Others

LEMMA InitSummary == Init => SummaryInv
<1> SUFFICES ASSUME Init PROVE SummaryInv
  OBVIOUS
<1>1. SweepType
  BY IdleType DEF Init, SweepType
<1>2. \A s \in Sweeps : sweep[s].pc = "idle"
  BY DEF Init, Idle
<1> QED BY <1>1, <1>2 DEF SummaryInv, CountIsCurrent

(* Whatever is published, recorded, adopted, cleared, edited or swept       *)
(* meanwhile and however long it takes, a sweep into whose count and fetch  *)
(* nobody else's statement came reports no hostname as moved, and truncated *)
(* exactly when some are deferred.                                          *)
THEOREM SummaryIsTrue == Spec => SummaryReconciles
<1>1. Init => SummaryInv
  BY InitSummary
<1>2. SummaryInv /\ [Next]_vars => SummaryInv'
  BY SummaryStep
<1>3. ASSUME SummaryInv, NEW t \in Sweeps, Fetch(t), ~sweep[t].raced
      PROVE  Moved(t) = 0 /\ (Truncated(t) <=> Deferred(t) > 0)
  <2>1. PICK S \in SUBSET Fetchable(t) :
          /\ IsBatch(S, Fetchable(t))
          /\ sweep' = [sweep EXCEPT ![t] = [Idle EXCEPT !.pc = "fetched", !.batch = S]]
    BY <1>3 DEF Fetch
  <2>2. sweep'[t].batch = S /\ sweep[t] \in SweepRecord
    BY <1>3, <2>1 DEF SummaryInv, SweepType, Idle
  <2>3. sweep[t].due = Cardinality(Fetchable(t))
    BY <1>3 DEF SummaryInv, CountIsCurrent, Fetch
  <2>4. Cardinality(S) = Lower(sweep[t].due, BatchSize)
    BY <2>1, <2>3 DEF IsBatch
  <2>5. sweep[t].due \in Nat /\ BatchSize \in Nat
    BY <2>2, HealthSweepAssumption DEF HealthSweepAssumption, SweepRecord
  <2>6. Moved(t) = 0
    BY <2>2, <2>4, <2>5 DEF Moved, Expected, Lower
  <2>7. Truncated(t) <=> Deferred(t) > 0
    BY <2>3, <2>5 DEF Truncated, Deferred, Expected, Lower
  <2> QED BY <2>6, <2>7
<1>4. SummaryInv /\ [Next]_vars
        => [\A s \in Sweeps : Fetch(s) /\ ~sweep[s].raced =>
              /\ Moved(s) = 0
              /\ Truncated(s) <=> Deferred(s) > 0]_vars
  BY <1>3
<1> QED BY <1>1, <1>2, <1>4, PTL DEF Spec, SummaryReconciles

-----------------------------------------------------------------------------
(* What a press has read of the cooldown stays true until another run of   *)
(* the tenant is recorded, which marks it.                                 *)
DebounceInv ==
  /\ begun => claimed
  /\ \A s \in Sweeps : sweep[s].pc = "pressed" /\ claimed => sweep[s].raced

LEMMA DebounceStep ==
  ASSUME DebounceInv, SummaryInv, [Next]_vars
  PROVE  DebounceInv'
<1> USE DEF DebounceInv
<1>0. sweep \in [Sweeps -> SweepRecord] /\ sweep' \in [Sweeps -> SweepRecord]
  BY SummaryStep DEF SummaryInv, SweepType
<1>1. ASSUME NEW t \in Forced, Press(t) PROVE DebounceInv'
  BY <1>0, <1>1 DEF Press, Sweeps, debounce
<1>2. ASSUME NEW t \in Forced, Claim(t) PROVE DebounceInv'
  <2>1. \A s \in Sweeps : sweep'[s].pc = "pressed" => sweep'[s].raced
    BY <1>0, <1>2 DEF Claim, Begin, Idle, SweepRecord
  <2> QED BY <1>2, <2>1 DEF Claim
<1>3. ASSUME UNCHANGED debounce, \A s \in Sweeps : sweep'[s].pc = "pressed" => sweep'[s] = sweep[s]
      PROVE  DebounceInv'
  BY <1>3 DEF debounce
<1>4. ASSUME NEW r \in [Sweeps -> SweepRecord], NEW R, NEW G, sweep' = Race(r, R, G),
             \A s \in Sweeps : r[s] = sweep[s] \/ r[s] = Idle, UNCHANGED debounce
      PROVE  DebounceInv'
  <2>1. \A s \in Sweeps : r[s].pc = "pressed" => r[s] = sweep[s]
    BY <1>4 DEF Idle
  <2>2. \A s \in Sweeps : r[s].pc = "pressed" => sweep'[s] = r[s]
    BY <1>4 DEF Race
  <2>3. \A s \in Sweeps : sweep'[s].pc = r[s].pc
    BY <1>4 DEF Race, SweepRecord
  <2> QED BY <1>3, <1>4, <2>1, <2>2, <2>3
<1>5. ASSUME NEW t \in Sweeps, Step(t) PROVE DebounceInv'
  <2>1. CASE Count(t)
    BY <2>1, <1>0, <1>3 DEF Count, Idle
  <2>2. CASE Fetch(t)
    <3>1. \A s \in Sweeps : sweep'[s] = sweep[s] \/ sweep'[s].pc = "fetched"
      BY <2>2, <1>0 DEF Fetch, Idle
    <3> QED BY <2>2, <3>1, <1>3 DEF Fetch
  <2>3. CASE Write(t)
    <3> DEFINE r == [sweep EXCEPT ![t] = Idle]
    <3>1. r \in [Sweeps -> SweepRecord] /\ \A s \in Sweeps : r[s] = sweep[s] \/ r[s] = Idle
      BY <1>0, IdleType
    <3>2. sweep' = Race(r, sweep[t].batch \cap rows, {}) /\ UNCHANGED debounce
      BY <2>3 DEF Write, debounce
    <3> HIDE DEF r
    <3> QED BY <1>4, <3>1, <3>2
  <2>4. CASE Fails(t)
    BY <2>4, <1>0, <1>3 DEF Fails, Idle
  <2> QED BY <1>5, <2>1, <2>2, <2>3, <2>4 DEF Step
<1>6. ASSUME NEW R, NEW G, sweep' = Race(sweep, R, G), UNCHANGED debounce PROVE DebounceInv'
  BY <1>0, <1>4, <1>6
<1>7. CASE Others
  BY <1>6, <1>7 DEF Others, Publish, Record, Adopt, DeleteHostname, CreateHostname, Clear, debounce
<1>8. ASSUME GoesStale \/ \E h \in Hostnames : GraceExpires(h) PROVE DebounceInv'
  BY <1>3, <1>8 DEF GoesStale, GraceExpires, debounce
<1>9. CASE CooldownExpires \/ UNCHANGED vars
  BY <1>9 DEF CooldownExpires, vars, debounce
<1> QED BY <1>1, <1>2, <1>5, <1>7, <1>8, <1>9 DEF Next

(* For any number of presses: a manual run begins within the cooldown of   *)
(* another only if it was pressed before that one was recorded.            *)
THEOREM OnlyPressesTogether == Spec => DebouncedUnlessTogether
<1>1. Init => SummaryInv /\ DebounceInv
  BY InitSummary DEF Init, DebounceInv, Idle
<1>2. SummaryInv /\ DebounceInv /\ [Next]_vars => (SummaryInv /\ DebounceInv)'
  BY SummaryStep, DebounceStep
<1>3. SummaryInv /\ DebounceInv /\ [Next]_vars
        => [\A s \in Forced : Claim(s) /\ begun => sweep[s].raced]_vars
  BY DEF DebounceInv, Claim, Sweeps
<1> QED BY <1>1, <1>2, <1>3, PTL DEF Spec, DebouncedUnlessTogether

-----------------------------------------------------------------------------
Count0 == 0..Cardinality(Hostnames)
TypedRecord ==
  [pc : {"idle", "pressed", "claimed", "counted", "fetched"}, due : Count0,
   batch : SUBSET Hostnames, raced : BOOLEAN,
   fresh : SUBSET Hostnames, grace : SUBSET Hostnames]

LEMMA SizeOfPopulation ==
  /\ IsFiniteSet(Hostnames) /\ Cardinality(Hostnames) \in Nat
  /\ \A S \in SUBSET Hostnames : IsFiniteSet(S) /\ Cardinality(S) \in Count0
<1>1. IsFiniteSet(Hostnames) /\ Cardinality(Hostnames) \in Nat
  BY HealthSweepAssumption, FS_CardinalityType
<1>2. ASSUME NEW S \in SUBSET Hostnames
      PROVE  IsFiniteSet(S) /\ Cardinality(S) \in Count0
  BY <1>1, FS_Subset, FS_CardinalityType DEF Count0
<1> QED BY <1>1, <1>2

(* Ranks made dense are ranks, and what was read stays read.               *)
LEMMA DenseRanks ==
  ASSUME NEW st \in [Hostnames -> Nat]
  PROVE  /\ Dense(st) \in [Hostnames -> Count0]
         /\ \A h \in Hostnames : st[h] # 0 => Dense(st)[h] # 0
<1> SUFFICES ASSUME NEW h \in Hostnames
             PROVE  Dense(st)[h] \in Count0 /\ (st[h] # 0 => Dense(st)[h] # 0)
  BY DEF Dense
<1> DEFINE T == {k \in Hostnames : 0 < st[k] /\ st[k] <= st[h]}
           V == {st[k] : k \in T}
           f == [k \in T |-> st[k]]
<1>1. Dense(st)[h] = Cardinality(V)
  BY DEF Dense
<1>2. IsFiniteSet(T) /\ Cardinality(T) \in Count0
  BY SizeOfPopulation
<1>3. f \in Surjection(T, V)
  BY DEF Surjection
<1>4. IsFiniteSet(V) /\ Cardinality(V) <= Cardinality(T)
  BY <1>2, <1>3, FS_Surjection
<1>5. Cardinality(V) \in Nat /\ (Cardinality(V) = 0 => V = {})
  BY <1>4, FS_CardinalityType, FS_EmptySet
<1>6. st[h] # 0 => V # {}
  OBVIOUS
<1> HIDE DEF T, V
<1> QED BY <1>1, <1>2, <1>4, <1>5, <1>6, SizeOfPopulation DEF Count0

LEMMA IdleTyped == Idle \in TypedRecord
  BY HealthSweepAssumption, SizeOfPopulation DEF Idle, TypedRecord, Count0

LEMMA RaceTyped ==
  ASSUME NEW r \in [Sweeps -> TypedRecord], NEW R, NEW G,
         fresh' \subseteq Hostnames, grace' \subseteq Hostnames
  PROVE  Race(r, R, G) \in [Sweeps -> TypedRecord]
<1>1. ASSUME NEW s \in Sweeps PROVE Race(r, R, G)[s] \in TypedRecord
  <2> DEFINE f == (r[s].fresh \ R) \cup (Seen(s, fresh') \cap R)
             g == (r[s].grace \ G) \cup (Seen(s, grace') \cap G)
  <2>1. r[s] \in TypedRecord
    OBVIOUS
  <2>2. f \in SUBSET Hostnames /\ g \in SUBSET Hostnames
    BY <2>1 DEF Seen, TypedRecord
  <2>3. \/ Race(r, R, G)[s] = r[s]
        \/ Race(r, R, G)[s] = [r[s] EXCEPT !.raced = TRUE, !.fresh = f, !.grace = g]
    BY <2>1 DEF Race, TypedRecord
  <2> HIDE DEF f, g
  <2> QED BY <2>1, <2>2, <2>3 DEF TypedRecord
<1> QED BY <1>1 DEF Race

LEMMA TypeStep ==
  ASSUME TypeOK, [Next]_vars
  PROVE  TypeOK'
<1>0. /\ rows \subseteq Hostnames /\ written \subseteq rows /\ grace \subseteq rows
      /\ fresh \subseteq {h \in rows : stamp[h] # 0}
      /\ stamp \in [Hostnames -> Count0] /\ sweep \in [Sweeps -> TypedRecord]
      /\ claimed \in BOOLEAN /\ begun \in BOOLEAN
  BY DEF TypeOK, Count0, TypedRecord
<1>1. stamp \in [Hostnames -> Nat]
  BY <1>0, SizeOfPopulation DEF Count0
<1>2. ASSUME UNCHANGED population, sweep' \in [Sweeps -> TypedRecord],
             claimed' \in BOOLEAN, begun' \in BOOLEAN
      PROVE  TypeOK'
  BY <1>0, <1>2 DEF population, TypeOK, Count0, TypedRecord
<1>3. ASSUME UNCHANGED debounce, sweep' \in [Sweeps -> TypedRecord],
             stamp' \in [Hostnames -> Count0],
             rows' \subseteq Hostnames, written' \subseteq rows', grace' \subseteq rows',
             fresh' \subseteq {h \in rows' : stamp'[h] # 0}
      PROVE  TypeOK'
  BY <1>0, <1>3 DEF debounce, TypeOK, Count0, TypedRecord
<1>4. ASSUME NEW r \in [Sweeps -> TypedRecord], NEW R, NEW G, sweep' = Race(r, R, G),
             UNCHANGED debounce, stamp' \in [Hostnames -> Count0],
             rows' \subseteq Hostnames, written' \subseteq rows', grace' \subseteq rows',
             fresh' \subseteq {h \in rows' : stamp'[h] # 0}
      PROVE  TypeOK'
  BY <1>3, <1>4, RaceTyped
<1>5. ASSUME NEW t \in Sweeps, Count(t) PROVE TypeOK'
  <2>1. Cardinality(DueNow(t)) \in Count0
    BY <1>0, SizeOfPopulation, DueIsFinite
  <2>2. [Idle EXCEPT !.pc = "counted", !.due = Cardinality(DueNow(t)),
                     !.fresh = Seen(t, fresh), !.grace = Seen(t, grace)] \in TypedRecord
    BY <1>0, <2>1, IdleTyped DEF TypedRecord, Seen
  <2> QED BY <1>0, <1>2, <1>5, <2>2 DEF Count, debounce
<1>6. ASSUME NEW t \in Sweeps, Fetch(t) PROVE TypeOK'
  <2>1. PICK S \in SUBSET Fetchable(t) :
          sweep' = [sweep EXCEPT ![t] = [Idle EXCEPT !.pc = "fetched", !.batch = S]]
    BY <1>6 DEF Fetch
  <2>2. [Idle EXCEPT !.pc = "fetched", !.batch = S] \in TypedRecord
    BY <1>0, DueIsFinite, IdleTyped DEF TypedRecord
  <2> QED BY <1>0, <1>2, <1>6, <2>1, <2>2 DEF Fetch, debounce
<1>7. ASSUME NEW t \in Sweeps, Write(t) PROVE TypeOK'
  <2> DEFINE checked == sweep[t].batch \cap rows
             st == [h \in Hostnames |-> IF h \in checked THEN Cardinality(Hostnames) + 1 ELSE stamp[h]]
             r == [sweep EXCEPT ![t] = Idle]
  <2>1. st \in [Hostnames -> Nat] /\ \A h \in Hostnames : h \in fresh \cup checked => st[h] # 0
    BY <1>0, <1>1, SizeOfPopulation
  <2>2. /\ stamp' = Dense(st) /\ fresh' = fresh \cup checked
        /\ sweep' = Race(r, checked, {}) /\ UNCHANGED <<rows, written, grace, debounce>>
    BY <1>7 DEF Write
  <2>3. r \in [Sweeps -> TypedRecord]
    BY <1>0, IdleTyped
  <2>4. checked \subseteq rows
    OBVIOUS
  <2> HIDE DEF st, checked, r
  <2> QED BY <1>0, <1>4, <2>1, <2>2, <2>3, <2>4, DenseRanks
<1>8. ASSUME NEW t \in Sweeps, Fails(t) PROVE TypeOK'
  BY <1>0, <1>2, <1>8, IdleTyped DEF Fails, debounce
<1>9. ASSUME NEW t \in Forced, Press(t) PROVE TypeOK'
  BY <1>0, <1>2, <1>9, IdleTyped DEF Press, TypedRecord, debounce
<1>10. ASSUME NEW t \in Forced, Claim(t) PROVE TypeOK'
  <2>1. \A s \in Sweeps : Begin(t)[s] \in TypedRecord
    BY <1>0, IdleTyped DEF Begin, TypedRecord
  <2>2. Begin(t) \in [Sweeps -> TypedRecord]
    BY <2>1 DEF Begin
  <2> QED BY <1>2, <1>10, <2>2 DEF Claim
<1>11. ASSUME NEW h \in Hostnames, Publish(h) PROVE TypeOK'
  <2> DEFINE st == [stamp EXCEPT ![h] = 0]
  <2>1. st \in [Hostnames -> Nat] /\ \A k \in fresh \ {h} : st[k] # 0
    BY <1>0, <1>1
  <2> HIDE DEF st
  <2> QED BY <1>0, <1>4, <1>11, <2>1, DenseRanks DEF Publish, st
<1>12. ASSUME NEW h \in Hostnames, Record(h) \/ Adopt(h) PROVE TypeOK'
  BY <1>0, <1>4, <1>12 DEF Record, Adopt
<1>13. CASE Clear
  <2> DEFINE st == [h \in Hostnames |-> IF h \in Mine THEN 0 ELSE stamp[h]]
  <2>1. st \in [Hostnames -> Nat] /\ \A k \in fresh \ Mine : st[k] # 0
    BY <1>0, <1>1
  <2>2. stamp' = Dense(st)
    BY <1>13 DEF Clear
  <2> HIDE DEF st
  <2> QED BY <1>0, <1>4, <1>13, <2>1, <2>2, DenseRanks DEF Clear
<1>14. ASSUME NEW h \in Hostnames, DeleteHostname(h) PROVE TypeOK'
  <2> DEFINE st == [stamp EXCEPT ![h] = 0]
  <2>1. st \in [Hostnames -> Nat] /\ \A k \in fresh \ {h} : st[k] # 0
    BY <1>0, <1>1
  <2>2. stamp' = Dense(st)
    BY <1>14 DEF DeleteHostname
  <2> HIDE DEF st
  <2> QED BY <1>0, <1>4, <1>14, <2>1, <2>2, DenseRanks DEF DeleteHostname
<1>15. ASSUME NEW h \in Hostnames, CreateHostname(h) PROVE TypeOK'
  BY <1>0, <1>4, <1>15 DEF CreateHostname
<1>16. ASSUME GoesStale \/ \E h \in Hostnames : GraceExpires(h) PROVE TypeOK'
  BY <1>0, <1>3, <1>16 DEF GoesStale, GraceExpires
<1>17. CASE CooldownExpires \/ UNCHANGED vars
  BY <1>0, <1>2, <1>17 DEF CooldownExpires, vars, debounce
<1> QED BY <1>5, <1>6, <1>7, <1>8, <1>9, <1>10, <1>11, <1>12, <1>13, <1>14, <1>15, <1>16, <1>17
           DEF Next, Step, Others

(* For any population: every variable keeps its type, and no address,      *)
(* reading or grace outlives its row, whatever is deleted, recorded or     *)
(* adopted beneath a sweep.                                                *)
THEOREM SweepTypeCorrect == Spec => []TypeOK
<1>1. Init => TypeOK
  <2> SUFFICES ASSUME Init PROVE TypeOK
    OBVIOUS
  <2>1. sweep \in [Sweeps -> TypedRecord]
    BY IdleTyped DEF Init
  <2>2. stamp \in [Hostnames -> Count0] /\ rows = Hostnames
    BY SizeOfPopulation DEF Init, Count0
  <2>3. written = {} /\ fresh = {} /\ grace = {} /\ claimed = FALSE /\ begun = FALSE
    BY DEF Init
  <2> QED BY <2>1, <2>2, <2>3 DEF TypeOK, TypedRecord, Count0
<1> QED BY <1>1, TypeStep, PTL DEF Spec
=============================================================================
