----------------------------- MODULE HealthSweep -----------------------------
(***************************************************************************)
(* Which hostnames a health-check sweep looks at: run_health_checks over a *)
(* population larger than its batch, while calls publish, tenants clear    *)
(* results and "Check now" sweeps run beside the worker's.                 *)
(*                                                                         *)
(* A sweep counts the population in one statement and fetches its batch in *)
(* another; at READ COMMITTED those are two snapshots, though of one clock: *)
(* `now` is read before both.  What it finds in DNS is Publishing's        *)
(* subject; here a check only stamps dns_checked_at.                       *)
(***************************************************************************)
EXTENDS Naturals, FiniteSets

CONSTANTS
  Hostnames,
  Mine,        \* the hostnames of the tenant who presses "Check now"
  BatchSize,   \* health_check_batch_size
  Scheduled,   \* the worker's sweeps (max_instances is 1)
  Forced       \* "Check now" sweeps

ASSUME HealthSweepAssumption ==
  /\ IsFiniteSet(Hostnames)
  /\ Mine \subseteq Hostnames
  /\ BatchSize \in Nat \ {0}
  /\ Scheduled \cap Forced = {}

Sweeps == Scheduled \cup Forced

VARIABLES
  rows,      \* the hostnames that exist
  written,   \* those with a last_ip_v4 or a last_ip_v6
  stamp,     \* dns_checked_at, as a rank: 0 is NULL, equal is the same tick
  fresh,     \* dns_checked_at >= now - health_check_interval_minutes
  grace,     \* last_updated_at > now - health_check_publish_grace_seconds
  sweep,     \* the sweeps in flight and what each has read so far
  claimed,   \* the audit log has a run of the tenant younger than the cooldown
  begun      \* history: a run of the tenant began within the cooldown

population == <<rows, written, stamp, fresh, grace>>
debounce == <<claimed, begun>>
vars == <<population, sweep, debounce>>

Idle == [pc |-> "idle", due |-> 0, batch |-> {}, raced |-> FALSE, fresh |-> {}, grace |-> {}]

Init ==
  /\ rows = Hostnames
  /\ written = {}
  /\ stamp = [h \in Hostnames |-> 0]
  /\ fresh = {} /\ grace = {}
  /\ sweep = [s \in Sweeps |-> Idle]
  /\ claimed = FALSE /\ begun = FALSE

-----------------------------------------------------------------------------
Reach(s) == IF s \in Scheduled THEN rows ELSE rows \cap Mine

(* has_last_ip and the staleness clause; a forced run drops the latter.    *)
DueNow(s) ==
  {h \in Reach(s) \cap written : s \in Scheduled => h \notin fresh \cup grace}

(* What a sweep will hold against a hostname: a forced run, nothing.       *)
Seen(s, S) == IF s \in Scheduled THEN S ELSE {}

(* A statement of somebody else's lands between a sweep's count and fetch: *)
(* the fetch will see what it did to the readings of R and to the          *)
(* last_updated_at of G; of the rest, what held at the sweep's own `now`.   *)
Race(r, R, G) ==
  [s \in Sweeps |->
     IF r[s].pc # "counted" THEN r[s]
     ELSE [r[s] EXCEPT !.raced = TRUE,
                       !.fresh = (@ \ R) \cup (Seen(s, fresh') \cap R),
                       !.grace = (@ \ G) \cup (Seen(s, grace') \cap G)]]

Lower(a, b) == IF a < b THEN a ELSE b

(* "Check now": the cooldown is read; then the run is recorded and         *)
(* committed, and only then begins.  No lock joins the two.                *)
Press(s) ==
  /\ sweep[s].pc = "idle"
  /\ ~claimed
  /\ sweep' = [sweep EXCEPT ![s] = [Idle EXCEPT !.pc = "pressed"]]
  /\ UNCHANGED <<population, debounce>>

(* A run of the tenant begins beside those that have read the cooldown.    *)
Begin(s) ==
  [t \in Sweeps |->
     IF t = s THEN [Idle EXCEPT !.pc = "claimed"]
     ELSE IF sweep[t].pc = "pressed" THEN [sweep[t] EXCEPT !.raced = TRUE] ELSE sweep[t]]

(* Mutant: the run is not recorded before it begins.                       *)
ClaimUnrecorded(s) ==
  /\ sweep[s].pc = "pressed"
  /\ begun' = TRUE
  /\ sweep' = Begin(s)
  /\ UNCHANGED <<population, claimed>>

Claim(s) ==
  /\ sweep[s].pc = "pressed"
  /\ claimed' = TRUE /\ begun' = TRUE
  /\ sweep' = Begin(s)
  /\ UNCHANGED population

(* `now` is read, then the counts: one SELECT, one snapshot.               *)
Count(s) ==
  /\ sweep[s].pc = IF s \in Scheduled THEN "idle" ELSE "claimed"
  /\ sweep' = [sweep EXCEPT ![s] = [Idle EXCEPT !.pc = "counted", !.due = Cardinality(DueNow(s)),
                                                !.fresh = Seen(s, fresh), !.grace = Seen(s, grace)]]
  /\ UNCHANGED <<population, debounce>>

(* Mutants: a batch in no particular order; the grace left out of the fetch.*)
AnyBatch(S, due) == S \subseteq due /\ Cardinality(S) = Lower(Cardinality(due), BatchSize)

DueIgnoringGrace(s) ==
  {h \in Reach(s) \cap written : s \in Scheduled => h \notin sweep[s].fresh}

(* ORDER BY dns_checked_at IS NULL DESC, dns_checked_at LIMIT batch_size.  *)
IsBatch(S, due) ==
  /\ S \subseteq due
  /\ Cardinality(S) = Lower(Cardinality(due), BatchSize)
  /\ \A h \in S, k \in due \ S : stamp[h] <= stamp[k]

(* The rows the fetch selects from: the same predicates, values of the     *)
(* same `now`, over a later snapshot.                                      *)
Fetchable(s) ==
  {h \in Reach(s) \cap written :
     s \in Scheduled => h \notin sweep[s].fresh \cup sweep[s].grace}

Fetch(s) ==
  /\ sweep[s].pc = "counted"
  /\ \E S \in SUBSET Fetchable(s) :
       /\ IsBatch(S, Fetchable(s))
       /\ sweep' = [sweep EXCEPT ![s] = [Idle EXCEPT !.pc = "fetched", !.batch = S]]
  /\ UNCHANGED <<population, debounce>>

(* The summary's reconciliation of the two statements, at the fetch.       *)
Expected(s) == Lower(sweep[s].due, BatchSize)
Deferred(s) == sweep[s].due - Expected(s)
Moved(s) == Expected(s) - Cardinality(sweep'[s].batch)
Truncated(s) == Cardinality(Fetchable(s)) > BatchSize

(* Ranks stay dense, so that equal histories are equal states.             *)
Dense(st) == [h \in Hostnames |->
  Cardinality({st[k] : k \in {k \in Hostnames : 0 < st[k] /\ st[k] <= st[h]}})]

(* Mutant: a hostname deleted meanwhile is written back.                   *)
WriteRegardless(s) ==
  /\ sweep[s].pc = "fetched"
  /\ LET checked == sweep[s].batch
     IN  /\ stamp' = Dense([h \in Hostnames |->
                       IF h \in checked THEN Cardinality(Hostnames) + 1 ELSE stamp[h]])
         /\ fresh' = fresh \cup checked
         /\ UNCHANGED <<rows, written, grace, debounce>>
         /\ sweep' = Race([sweep EXCEPT ![s] = Idle], checked, {})

(* The second session: one UPDATE by id per hostname that still exists,    *)
(* all with the same instant, whatever became of the row meanwhile.        *)
Write(s) ==
  /\ sweep[s].pc = "fetched"
  /\ LET checked == sweep[s].batch \cap rows
     IN  /\ stamp' = Dense([h \in Hostnames |->
                       IF h \in checked THEN Cardinality(Hostnames) + 1 ELSE stamp[h]])
         /\ fresh' = fresh \cup checked
         /\ UNCHANGED <<rows, written, grace, debounce>>
         /\ sweep' = Race([sweep EXCEPT ![s] = Idle], checked, {})

(* The tick raises and guarded logs it; the next tick starts over.         *)
Fails(s) ==
  /\ sweep[s].pc # "idle"
  /\ sweep' = [sweep EXCEPT ![s] = Idle]
  /\ UNCHANGED <<population, debounce>>

-----------------------------------------------------------------------------
(* persist_updates on good: the reading is dropped and the grace begins.   *)
Publish(h) ==
  /\ h \in rows
  /\ written' = written \cup {h}
  /\ stamp' = Dense([stamp EXCEPT ![h] = 0])
  /\ fresh' = fresh \ {h}
  /\ grace' = grace \cup {h}
  /\ UNCHANGED <<rows, debounce>>
  /\ sweep' = Race(sweep, {h}, {h})

(* persist_updates on nochg: the address, and neither reading nor grace.   *)
Record(h) ==
  /\ h \in rows
  /\ written' = written \cup {h}
  /\ UNCHANGED <<rows, stamp, fresh, grace, debounce>>
  /\ sweep' = Race(sweep, {}, {})

(* adopt_zone: last_ip_* becomes what the last reading found, which may be *)
(* nothing at all.  A publish's grace runs on.                             *)
Adopt(h) ==
  /\ h \in rows /\ stamp[h] # 0
  /\ \/ written' = written \cup {h}
     \/ written' = written \ {h}
  /\ UNCHANGED <<rows, stamp, fresh, grace, debounce>>
  /\ sweep' = Race(sweep, {}, {})

(* POST /health-checks/clear, over the tenant's hostnames.                 *)
Clear ==
  /\ stamp' = Dense([h \in Hostnames |-> IF h \in Mine THEN 0 ELSE stamp[h]])
  /\ fresh' = fresh \ Mine
  /\ UNCHANGED <<rows, written, grace, debounce>>
  /\ sweep' = Race(sweep, Mine, {})

DeleteHostname(h) ==
  /\ h \in rows
  /\ rows' = rows \ {h} /\ written' = written \ {h}
  /\ fresh' = fresh \ {h} /\ grace' = grace \ {h}
  /\ stamp' = Dense([stamp EXCEPT ![h] = 0])
  /\ UNCHANGED debounce
  /\ sweep' = Race(sweep, {h}, {h})

CreateHostname(h) ==
  /\ h \notin rows
  /\ rows' = rows \cup {h}
  /\ UNCHANGED <<written, stamp, fresh, grace, debounce>>
  /\ sweep' = Race(sweep, {}, {})

(* The interval passes for the readings that are oldest, the grace for one;*)
(* a sweep that has counted goes on with its own `now`.                    *)
GoesStale ==
  /\ fresh # {}
  /\ fresh' = {h \in fresh : \E k \in fresh : stamp[k] < stamp[h]}
  /\ UNCHANGED <<rows, written, stamp, grace, sweep, debounce>>

GraceExpires(h) ==
  /\ h \in grace
  /\ grace' = grace \ {h}
  /\ UNCHANGED <<rows, written, stamp, fresh, sweep, debounce>>

CooldownExpires ==
  /\ begun
  /\ claimed' = FALSE /\ begun' = FALSE
  /\ UNCHANGED <<population, sweep>>

Step(s) == Count(s) \/ Fetch(s) \/ Write(s) \/ Fails(s)

Others ==
  \/ \E h \in Hostnames : Publish(h) \/ Record(h) \/ Adopt(h)
  \/ \E h \in Hostnames : DeleteHostname(h) \/ CreateHostname(h)
  \/ Clear

Next ==
  \/ \E s \in Sweeps : Step(s)
  \/ \E s \in Forced : Press(s) \/ Claim(s)
  \/ Others
  \/ GoesStale \/ CooldownExpires
  \/ \E h \in Hostnames : GraceExpires(h)

Spec == Init /\ [][Next]_vars

(* The scheduler ticks for ever and a tick does not fail for ever; the     *)
(* interval and the grace are finite.  A "Check now" owes nothing.         *)
Fairness ==
  /\ \A s \in Scheduled : WF_vars(Count(s)) /\ SF_vars(Fetch(s)) /\ SF_vars(Write(s))
  /\ WF_vars(GoesStale)
  /\ WF_vars(\E h \in Hostnames : GraceExpires(h))

FairSpec == Spec /\ Fairness

-----------------------------------------------------------------------------
(* Every variable has its type, and a reading or a grace belongs to a row   *)
(* that exists: a sweep's UPDATE of a hostname deleted meanwhile hits none. *)
TypeOK ==
  /\ rows \subseteq Hostnames /\ written \subseteq rows
  /\ stamp \in [Hostnames -> 0..Cardinality(Hostnames)]
  /\ fresh \subseteq {h \in rows : stamp[h] # 0}
  /\ grace \subseteq rows
  /\ sweep \in [Sweeps ->
       [pc : {"idle", "pressed", "claimed", "counted", "fetched"},
        due : 0..Cardinality(Hostnames), batch : SUBSET Hostnames, raced : BOOLEAN,
        fresh : SUBSET Hostnames, grace : SUBSET Hostnames]]
  /\ {claimed, begun} \subseteq BOOLEAN

(* The summary reconciles with what the tick did.  Unless a statement of   *)
(* somebody else's came between count and fetch, no hostname "moved", and   *)
(* truncated says exactly that there is more due work than was taken on;    *)
(* the passing of time alone parts the two statements never.                *)
SummaryReconciles ==
  [][\A s \in Sweeps : Fetch(s) /\ ~sweep[s].raced =>
       /\ Moved(s) = 0
       /\ Truncated(s) <=> Deferred(s) > 0]_vars

(* A run of the tenant begins within another's cooldown only if it was      *)
(* pressed before the other was recorded: "claim first, then work"          *)
(* (run_health_checks_now) leaves presses that come together, and no more.  *)
DebouncedUnlessTogether ==
  [][\A s \in Forced : Claim(s) /\ begun => sweep[s].raced]_vars

(* No published hostname is starved behind others that are re-checked:     *)
(* when publishing and editing rest, each is checked again and again.      *)
NobodyStarves ==
  <>[][~Others]_vars =>
    \A h \in Hostnames :
      <>[](h \in written) => []<>(\E s \in Sweeps : sweep[s].pc = "fetched" /\ h \in sweep[s].batch)
=============================================================================
