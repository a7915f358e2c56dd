------------------------------ MODULE EventLog ------------------------------
(***************************************************************************)
(* The event log of one device and its one hostname: what update calls,    *)
(* manual updates and adoptions write to it, the retention prune that      *)
(* removes it, and a tenant who pages through it while both go on.         *)
(*                                                                         *)
(* A row takes its created_at when it is recorded and its id when the      *)
(* session is flushed by its commit; other transactions come between.  One *)
(* tenant and no filters: they are conjuncts that stay the same along a    *)
(* walk.                                                                   *)
(***************************************************************************)
EXTENDS Integers, Sequences, FiniteSets

CONSTANTS
  Calls,       \* the requests in flight
  Addresses,
  NULL,
  Retention,   \* event_retention_days
  PageSize,    \* limit
  BatchSize,   \* prune_batch_size
  MaxBatches,  \* prune_max_batches
  Instants,    \* bound: the days on which anything happens after the first
  MaxRows      \* bound: rows ever recorded

(* record_event, told apart by what its readers ask: an update that        *)
(* succeeded with client_ip = ip ("own") or not ("declared"), a bad code   *)
(* ("failed"), or a good or absent one of no call ("byhand").              *)
Kinds == {"own", "declared", "failed", "byhand"}
Row == [id : 1..MaxRows, at : Nat, kind : Kinds]
Cursors == [id : 1..MaxRows, at : Nat]

(* NULL is told from whatever it stands in for.                            *)
ASSUME EventLogAssumption ==
  /\ NULL \notin Addresses \cup {"device", "manual"}
  /\ NULL \notin Row /\ NULL \notin Cursors
  /\ {Retention, PageSize, BatchSize, MaxBatches} \subseteq Nat \ {0}
  /\ MaxRows \in Nat /\ Instants \subseteq Nat

VARIABLES
  now,      \* the clock, in days
  log,      \* the committed rows of ddns_event
  nextId,   \* ddns_event's AUTO_INCREMENT
  device,   \* last_seen_at (whether it is set) and last_ip of the device
  last,     \* last_ip of the hostname
  told,     \* history: the row of the device's last successful update
  call,     \* the requests in flight, each with its transaction
  walk,     \* a tenant's walk through /events
  prune     \* the retention prune's run; `due`, history, is what it found and has left

logVars == <<log, nextId, device, last, told>>
vars == <<now, logVars, call, walk, prune>>

Keep == "keep"   \* the call leaves last_ip as it is
Idle == [pc |-> "idle", by |-> NULL, from |-> NULL, says |-> Keep, rows |-> <<>>]
Closed == [open |-> FALSE, cursor |-> NULL, due |-> {}, shown |-> {}]
Resting == [pc |-> "idle", cutoff |-> 0, due |-> {}, batches |-> 0, truncated |-> FALSE]

Init ==
  /\ now = 0 /\ log = {} /\ nextId = 1
  /\ device = [seen |-> FALSE, ip |-> NULL]
  /\ last = NULL /\ told = NULL
  /\ call = [c \in Calls |-> Idle]
  /\ walk = Closed
  /\ prune = Resting

-----------------------------------------------------------------------------
(* Requests.  A call holds the device row from the touch to the end of its *)
(* transaction; a manual update holds a share of it from its charge on.    *)

Record(kind) == [at |-> now, kind |-> kind]
Successful(r) == r.kind \in {"own", "declared"}

Uncommitted == UNION {{c} \X DOMAIN call[c].rows : c \in Calls}
Room(n) == nextId + Cardinality(Uncommitted) + n <= MaxRows + 1

Holders(kind) == {c \in Calls : call[c].by = kind}
DeviceRowUnheld == TRUE
DeviceRowFree == Holders("device") = {}

(* A wrong secret: the row is the device's, and nothing is touched.        *)
Unauthorised(c) ==
  /\ call[c] = Idle /\ Room(1)
  /\ call' = [call EXCEPT ![c] = [Idle EXCEPT !.pc = "answered", !.by = "stranger",
                                             !.rows = <<Record("failed")>>]]
  /\ UNCHANGED <<now, logVars, walk, prune>>

Admit(c, from) ==
  /\ call[c] = Idle
  /\ DeviceRowFree /\ Holders("manual") = {}
  /\ call' = [call EXCEPT ![c] = [Idle EXCEPT !.pc = "admitted", !.by = "device", !.from = from]]
  /\ UNCHANGED <<now, logVars, walk, prune>>

(* manual_update: charged to the device, and nobody called.                *)
Press(c) ==
  /\ call[c] = Idle
  /\ DeviceRowFree
  /\ call' = [call EXCEPT ![c] = [Idle EXCEPT !.pc = "admitted", !.by = "manual"]]
  /\ UNCHANGED <<now, logVars, walk, prune>>

(* The answer: a row for each backend attempt, in their order.  The name   *)
(* is settled by a good, or when every backend says nochg; a nochg before  *)
(* a failure does not settle it and still is a success in the log.  abuse, *)
(* 911 and notfqdn leave what a single failure leaves.                     *)
Attempts == {[good |-> <<TRUE>>, settled |-> TRUE],
             [good |-> <<FALSE>>, settled |-> FALSE],
             [good |-> <<TRUE, FALSE>>, settled |-> TRUE],
             [good |-> <<TRUE, FALSE>>, settled |-> FALSE]}

GoodKind(c, ip) ==
  IF call[c].by = "manual" THEN "byhand" ELSE IF ip = call[c].from THEN "own" ELSE "declared"

Answer(c, ip, attempt) ==
  /\ call[c].pc = "admitted" /\ Room(Len(attempt.good))
  /\ call' = [call EXCEPT
       ![c].pc = "answered",
       ![c].says = IF attempt.settled THEN ip ELSE Keep,
       ![c].rows = [i \in DOMAIN attempt.good |->
                      Record(IF attempt.good[i] THEN GoodKind(c, ip) ELSE "failed")]]
  /\ UNCHANGED <<now, logVars, walk, prune>>

(* adopt_zone: the zone's address becomes the published one; no code.      *)
Adopt(c, ip) ==
  /\ call[c] = Idle /\ Room(1)
  /\ ip # last
  /\ call' = [call EXCEPT ![c] = [Idle EXCEPT !.pc = "answered", !.by = "adopter", !.says = ip,
                                             !.rows = <<Record("byhand")>>]]
  /\ UNCHANGED <<now, logVars, walk, prune>>

Rows(c) ==
  LET r == call[c].rows
  IN {[id |-> nextId + i - 1, at |-> r[i].at, kind |-> r[i].kind] : i \in DOMAIN r}

Latest(R) == CHOOSE r \in R : \A s \in R : s.id <= r.id

CommitUnseen(c) ==
  /\ call[c].pc = "answered"
  /\ call[c].by = "device" \/ DeviceRowFree
  /\ nextId' = nextId + Len(call[c].rows)
  /\ log' = log \cup Rows(c)
  /\ device' = IF call[c].by = "device" THEN [device EXCEPT !.ip = call[c].from] ELSE device
  /\ last' = IF call[c].says = Keep THEN last ELSE call[c].says
  /\ UNCHANGED <<now, told, walk, prune>>
  /\ call' = [call EXCEPT ![c] = Idle]

(* The rows refer to the device, so a transaction that does not hold its   *)
(* row waits for the call that does.                                       *)
Commit(c) ==
  /\ call[c].pc = "answered"
  /\ call[c].by = "device" \/ DeviceRowFree
  /\ nextId' = nextId + Len(call[c].rows)
  /\ log' = log \cup Rows(c)
  /\ device' = IF call[c].by = "device" THEN [seen |-> TRUE, ip |-> call[c].from] ELSE device
  /\ last' = IF call[c].says = Keep THEN last ELSE call[c].says
  /\ LET done == {r \in Rows(c) : Successful(r)}
     IN told' = IF done = {} THEN told ELSE Latest(done)
  /\ call' = [call EXCEPT ![c] = Idle]
  /\ UNCHANGED <<now, walk, prune>>

(* An exception, a crash or a failed commit: nothing of the call remains.  *)
Fail(c) ==
  /\ call[c] # Idle
  /\ call' = [call EXCEPT ![c] = Idle]
  /\ UNCHANGED <<now, logVars, walk, prune>>

Request(c) ==
  \/ Unauthorised(c) \/ Press(c)
  \/ \E from \in Addresses : Admit(c, from)
  \/ \E ip \in Addresses, attempt \in Attempts : Answer(c, ip, attempt)
  \/ \E ip \in Addresses \cup {NULL} : Adopt(c, ip)
  \/ Commit(c) \/ Fail(c)

-----------------------------------------------------------------------------
(* The walk: ORDER BY created_at DESC, id DESC, one page a request.        *)

Older(r, s) == r.at < s.at \/ (r.at = s.at /\ r.id < s.id)
Newest(R, n) == {r \in R : Cardinality({s \in R : Older(r, s)}) < n}
Oldest(R) == CHOOSE r \in R : \A s \in R \ {r} : Older(r, s)

AtOrBeyondCursor(r, c) == c = NULL \/ r.at <= c.at
BeyondInstant(r, c) == c = NULL \/ r.at < c.at
BeyondCursor(r, c) == c = NULL \/ (r.at <= c.at /\ (r.at < c.at \/ r.id < c.id))

(* limit + 1 rows are fetched; the cursor is the last row shown.           *)
Page(w) ==
  LET found == {r \in log : BeyondCursor(r, w.cursor)}
      rows == Newest(found, PageSize)
      cursor == [at |-> Oldest(rows).at, id |-> Oldest(rows).id]
  IN [rows |-> rows, next |-> IF Cardinality(found) > PageSize THEN cursor ELSE NULL]

Turn(w) ==
  LET page == Page(w)
  IN walk' = IF page.next = NULL THEN Closed
             ELSE [w EXCEPT !.cursor = page.next, !.shown = @ \cup page.rows]

OpenLog ==
  /\ ~walk.open
  /\ Turn([Closed EXCEPT !.open = TRUE, !.due = log])
  /\ UNCHANGED <<now, logVars, call, prune>>

NextPage ==
  /\ walk.open
  /\ Turn(walk)
  /\ UNCHANGED <<now, logVars, call, prune>>

LeaveLog ==
  /\ walk.open
  /\ walk' = Closed
  /\ UNCHANGED <<now, logVars, call, prune>>

-----------------------------------------------------------------------------
(* The retention prune: batches of ids, each deleted and committed.        *)

ExpiredToTheTick(cutoff) == {r \in log : r.at <= cutoff}
Expired(cutoff) == {r \in log : r.at < cutoff}

(* A run that finds nothing leaves everything as it is: it is no step.     *)
PruneStart ==
  /\ prune.pc = "idle"
  /\ Expired(now - Retention) # {}
  /\ prune' = [Resting EXCEPT !.pc = "batch", !.cutoff = now - Retention,
                               !.due = Expired(now - Retention)]
  /\ UNCHANGED <<now, logVars, call, walk>>

(* ORDER BY created_at LIMIT n, a scan of ix_ddns_event_created_at, whose  *)
(* entries end in the primary key.                                         *)
OldestFew(R, n) == {r \in R : Cardinality({s \in R : Older(s, r)}) < n}

ShortOrFull(batch) == Cardinality(batch) <= BatchSize
Short(batch) == Cardinality(batch) < BatchSize

(* A short batch is the last one; so is the MaxBatches-th, for today.  An  *)
(* empty one deletes nothing and is not counted.                           *)
PruneBatch ==
  /\ prune.pc = "batch"
  /\ LET batch == OldestFew(Expired(prune.cutoff), BatchSize)
         done == prune.batches + IF batch = {} THEN 0 ELSE 1
     IN /\ log' = log \ batch
        /\ prune' = [prune EXCEPT
             !.pc = IF Short(batch) \/ done = MaxBatches THEN "count" ELSE "batch",
             !.batches = done, !.due = @ \ batch,
             !.truncated = ~Short(batch) /\ done = MaxBatches]
  /\ UNCHANGED <<now, nextId, device, last, told, call, walk>>

(* The count in a fresh session, and the summary is logged: truncated if   *)
(* the batches ran out, or if the count finds anything behind the cutoff.  *)
PruneCount ==
  /\ prune.pc = "count"
  /\ prune' = Resting
  /\ UNCHANGED <<now, logVars, call, walk>>

(* guarded swallows what the run raises.                                   *)
PruneFails ==
  /\ prune.pc # "idle"
  /\ prune' = Resting
  /\ UNCHANGED <<now, logVars, call, walk>>

Prune == PruneStart \/ PruneBatch \/ PruneCount \/ PruneFails

Tick ==
  /\ \E t \in Instants : now < t /\ now' = t
  /\ UNCHANGED <<logVars, call, walk, prune>>

Write == (\E c \in Calls : Request(c)) \/ Prune \/ Tick
Read == OpenLog \/ NextPage \/ LeaveLog

Next == Write \/ Read
Spec == Init /\ [][Next]_vars

-----------------------------------------------------------------------------
Address == Addresses \cup {NULL}

(* The variables have their types; a row's id is its own, and below the    *)
(* counter.                                                                *)
TypeOK ==
  /\ now \in Nat
  /\ log \subseteq Row /\ told \in Row \cup {NULL}
  /\ \A r, s \in log : r.id = s.id => r = s
  /\ nextId \in 1..MaxRows + 1 /\ \A r \in log : r.id < nextId
  /\ device \in [seen : BOOLEAN, ip : Address] /\ device.seen = (device.ip # NULL)
  /\ last \in Address
  /\ \A c \in Calls : call[c].says \in Address \cup {Keep} /\ Len(call[c].rows) <= 2
  /\ walk.shown \cup walk.due \subseteq Row
  /\ prune.batches \in 0..MaxBatches

(* The device's successful updates have their ids in the order of their    *)
(* times: the newest id, which the board takes for the last of them, is    *)
(* the last.  Only the device row, held while a call's DNS phase runs,     *)
(* keeps two calls from crossing.                                          *)
LatestIsLast ==
  \A r, s \in log : Successful(r) /\ Successful(s) /\ r.id < s.id => r.at <= s.at

(* No page of a walk shows a row a second time, though rows are committed  *)
(* and pruned between the pages and several share an instant.              *)
ShowsNothingTwice ==
  [][NextPage => Page(walk).rows \cap walk.shown = {}]_vars

(* A walk that reaches its last page has shown every row that was in the   *)
(* log when it began and still is.                                         *)
MissesNothing ==
  [][(NextPage /\ Page(walk).next = NULL) =>
       walk.due \cap log \subseteq walk.shown \cup Page(walk).rows]_vars

(* The prune takes no row that the retention still covers.                 *)
PruneSparesTheRetained ==
  [][\A r \in log \ log' : r.at < now - Retention]_vars

(* A run whose batches did not run out has removed every row that was      *)
(* expired when it began, whatever was committed between its batches: a    *)
(* short batch proves that there is no more.                               *)
PruneLeavesNothingDue ==
  [][PruneCount /\ ~prune.truncated => prune.due \cap log = {}]_vars
============================================================================
