------------------------------ MODULE RateLimit ------------------------------
(***************************************************************************)
(* The per-device rate limiter: check_rate_limit over the committed rows   *)
(* of ddns_rate_limit_event, as the two endpoints that spend the budget    *)
(* reach it, with the retention prune deleting old rows underneath.        *)
(*                                                                         *)
(* A wire call (GET /nic/update, GET /nic/delete) holds the device row     *)
(* exclusively from the flush of _touch_device's UPDATE, which precedes    *)
(* the count, to its commit.  A manual call (POST /hostnames/{id}/update)  *)
(* counts holding nothing; its row takes the foreign key's shared lock on  *)
(* the device when it is flushed, and is visible to others only once it is *)
(* committed.  Time is a clock in units that divide the window.            *)
(***************************************************************************)
EXTENDS Naturals, FiniteSets

CONSTANTS
  WireCalls,    \* concurrent /nic/* requests of the device
  ManualCalls,  \* concurrent manual updates of the device's hostnames
  MaxLimit,     \* the largest limit an operator sets
  Window,       \* RATE_LIMIT_WINDOW
  Retention,    \* rate_limit_event_retention_hours
  MaxClock      \* bound on the clock, for model checking

ASSUME RateLimitAssumption ==
  /\ IsFiniteSet(WireCalls) /\ IsFiniteSet(ManualCalls)
  /\ WireCalls \cap ManualCalls = {}
  /\ MaxLimit \in Nat /\ Window \in Nat /\ MaxClock \in Nat
  /\ Retention \in Nat /\ Window <= Retention

Calls == WireCalls \cup ManualCalls

VARIABLES
  now,       \* the clock
  limit,     \* effective_rate_limit: the device's own, or the default
  rows,      \* the committed ddns_rate_limit_event rows of the device
  call,      \* the calls in flight, with the created_at of their row
  nextId,    \* AUTO_INCREMENT
  recorded   \* history: every row ever committed, pruned or not

vars == <<now, limit, rows, call, nextId, recorded>>

RateRow == [id : Nat, at : Nat]

(* Every variable has its type: in particular the limit in force is one an  *)
(* operator may set.                                                        *)
TypeOK ==
  /\ now \in Nat
  /\ limit \in 0..MaxLimit
  /\ rows \subseteq RateRow
  /\ call \in [Calls -> [pc : {"idle", "counted", "charged"}, at : Nat]]
  /\ nextId \in Nat
  /\ recorded \subseteq RateRow

Init ==
  /\ now = 0
  /\ limit \in 0..MaxLimit
  /\ rows = {}
  /\ call = [c \in Calls |-> [pc |-> "idle", at |-> 0]]
  /\ nextId = 0
  /\ recorded = {}

-----------------------------------------------------------------------------
(* created_at >= now - RATE_LIMIT_WINDOW                                   *)
Used == {r \in rows : r.at + Window >= now}

(* A limit of 0 mutes the device; at or over the limit the call is refused *)
(* and charged nothing.  A refusal changes nothing here.                   *)
Admits == limit > 0 /\ Cardinality(Used) < limit

ExclusiveHeld == \E w \in WireCalls : call[w].pc = "charged"
SharedHeld    == \E m \in ManualCalls : call[m].pc = "charged"

(* Mutant: the count is taken before the device row is held.               *)
WireAdmitUnlocked(w) ==
  /\ call[w].pc = "idle"
  /\ Admits
  /\ call' = [call EXCEPT ![w] = [pc |-> "charged", at |-> now]]
  /\ UNCHANGED <<now, limit, rows, nextId, recorded>>

WireAdmit(w) ==
  /\ call[w].pc = "idle"
  /\ ~ExclusiveHeld /\ ~SharedHeld
  /\ Admits
  /\ call' = [call EXCEPT ![w] = [pc |-> "charged", at |-> now]]
  /\ UNCHANGED <<now, limit, rows, nextId, recorded>>

ManualCount(m) ==
  /\ call[m].pc = "idle"
  /\ Admits
  /\ call' = [call EXCEPT ![m] = [pc |-> "counted", at |-> now]]
  /\ UNCHANGED <<now, limit, rows, nextId, recorded>>

ManualCharge(m) ==
  /\ call[m].pc = "counted"
  /\ ~ExclusiveHeld
  /\ call' = [call EXCEPT ![m].pc = "charged"]
  /\ UNCHANGED <<now, limit, rows, nextId, recorded>>

(* The DNS phase is over and commit_after_dns commits the row.             *)
Commit(c) ==
  /\ call[c].pc = "charged"
  /\ rows' = rows \cup {[id |-> nextId, at |-> call[c].at]}
  /\ recorded' = recorded \cup {[id |-> nextId, at |-> call[c].at]}
  /\ nextId' = nextId + 1
  /\ call' = [call EXCEPT ![c] = [pc |-> "idle", at |-> 0]]
  /\ UNCHANGED <<now, limit>>

(* The commit fails, or an unreadable credential ends the request first:   *)
(* the row is lost with the rest of the transaction.                       *)
Rollback(c) ==
  /\ call[c].pc # "idle"
  /\ call' = [call EXCEPT ![c] = [pc |-> "idle", at |-> 0]]
  /\ UNCHANGED <<now, limit, rows, nextId, recorded>>

(* One batch of run_retention_prune: oldest rows first, at most a batch of *)
(* them, none younger than the retention.                                  *)
Expired == {r \in rows : r.at + Retention < now}

PruneBatch ==
  \E gone \in SUBSET Expired \ {{}} :
    /\ \A r \in gone, k \in Expired \ gone : r.at <= k.at
    /\ rows' = rows \ gone
    /\ UNCHANGED <<now, limit, call, nextId, recorded>>

(* Mutant: the largest limit is not validated.                             *)
SetLimitUnbounded(l) ==
  /\ limit # l
  /\ limit' = l + 1
  /\ UNCHANGED <<now, rows, call, nextId, recorded>>

(* PATCH /devices/{id}, or the namespace setting.                          *)
SetLimit(l) ==
  /\ limit # l
  /\ limit' = l
  /\ UNCHANGED <<now, rows, call, nextId, recorded>>

Tick ==
  /\ now < MaxClock
  /\ now' = now + 1
  /\ UNCHANGED <<limit, rows, call, nextId, recorded>>

Next ==
  \/ \E w \in WireCalls : WireAdmit(w)
  \/ \E m \in ManualCalls : ManualCount(m) \/ ManualCharge(m)
  \/ \E c \in Calls : Commit(c) \/ Rollback(c)
  \/ PruneBatch
  \/ \E l \in 0..MaxLimit : SetLimit(l)
  \/ Tick

Spec == Init /\ [][Next]_vars

-----------------------------------------------------------------------------
InWindow(at, x) == x <= at /\ at <= x + Window

RecordedIn(x) == {r \in recorded : InWindow(r.at, x)}
PendingIn(x)  == {c \in Calls : call[c].pc # "idle" /\ InWindow(call[c].at, x)}

(* What the setting promises: in any window as long as RATE_LIMIT_WINDOW,  *)
(* however it is placed and whatever was pruned since, a device spends no  *)
(* more than the largest limit it was ever given.                          *)
LimitRespected == \A x \in 0..now : Cardinality(RecordedIn(x)) <= MaxLimit

(* Counting without the device's lock costs one call per concurrent manual *)
(* request and no more; with none, the bound is LimitRespected's.  Calls   *)
(* in flight are charged against the bound already.                        *)
OverrunBounded ==
  \A x \in 0..now :
    Cardinality(RecordedIn(x)) + Cardinality(PendingIn(x))
      <= MaxLimit + Cardinality(ManualCalls)

=============================================================================
