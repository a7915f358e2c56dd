------------------------------ MODULE Importer ------------------------------
(***************************************************************************)
(* Runs of scripts/import_legacy.py against one target, beside the rest of  *)
(* the service: other tenants who take names, the owner's own edits, and    *)
(* migrated devices that start to call.                                     *)
(*                                                                         *)
(* A run is one transaction and then a verification in a session of its     *)
(* own.  It checks for collisions and looks its owner up without a lock;    *)
(* its INSERTs go table by table, each held back by a UNIQUE key another    *)
(* open transaction has inserted, and refused by one that is committed.     *)
(* What a run has inserted follows from how far it is (pc), since two runs  *)
(* read copies of the same legacy database.  A refusal, an exception, a     *)
(* dry run and a process that dies before its commit all leave the target   *)
(* as it was.                                                               *)
(*                                                                         *)
(* `edits' counts what others wrote in the owner's scope: it bounds the     *)
(* state space (MaxEdits) and is the history AlarmHasACause is about.       *)
(***************************************************************************)
EXTENDS LegacyPlan

CONSTANTS
  Runs,        \* invocations of the script
  Sources,     \* the legacy databases considered
  Extra,       \* a zone the owner may create that no legacy domain is called
  MaxEdits,    \* bounds for model checking: edits in the owner's scope,
  MaxTaken     \* and names taken by other tenants

(* A TTL is a number, and a table has finitely many rows.                   *)
ASSUME ImporterAssumption ==
  /\ NULL \notin Int
  /\ \A s \in Sources : \A h \in DOMAIN s.hostnames : s.hostnames[h].ttl \in Int
  /\ \A s \in Sources : \A t \in {"users", "domains", "backends", "hostnames"} :
        IsFiniteSet(DOMAIN s[t])
  /\ MaxEdits \in Nat

VARIABLES
  source,      \* the legacy database
  account,     \* the atrium user --owner-email names
  rows,        \* committed rows in that user's scope
  taken,       \* natural keys of other tenants' committed rows
  run,         \* for each run: how far it is, and its options
  edits

vars == <<source, account, rows, taken, run, edits>>

Tables == {"devices", "zones", "bindings", "hosts"}
Named == {"devices", "zones", "hosts"}        \* those with a key others share

Empty == [devices |-> {}, zones |-> {}, bindings |-> {}, hosts |-> {}]
Planned ==
  [devices |-> PlannedDevices(source), zones |-> PlannedZones(source),
   bindings |-> PlannedBindings(source), hosts |-> PlannedHosts(source)]

KeysOf(db) ==
  [devices |-> {d.username : d \in db.devices}, zones |-> db.zones,
   hosts |-> {x.name : x \in db.hosts}]

IsFree(table) ==
  KeysOf(Planned)[table] \cap (KeysOf(rows)[table] \cup taken[table]) = {}

(* The runs whose uncommitted rows include those of a table.                *)
WithDevices == {"devices", "zones", "bindings", "hosts"}
WithZones == WithDevices \ {"devices"}
WithHosts == {"hosts"}
Inserted(table) ==
  CASE table = "devices" -> WithDevices
    [] table = "zones" -> WithZones
    [] table = "hosts" -> WithHosts
Held(table) == \E r \in Runs : run[r].pc \in Inserted(table)
OwnerHeld == \E r \in Runs : run[r].creates /\ run[r].pc \in {"owned"} \cup WithDevices

Committed == {"committed", "unverified", "agreed", "disagreed"}
Over == {"refused", "failed", "dry", "unverified", "agreed", "disagreed"}

Goes(r, pc) == run' = [run EXCEPT ![r].pc = pc]
OnlyRun == UNCHANGED <<source, account, rows, taken, edits>>

-----------------------------------------------------------------------------
(* A run. *)

Init ==
  /\ source \in Sources
  /\ account \in {"absent", "active", "inactive"}
  /\ rows = Empty
  /\ taken = [devices |-> {}, zones |-> {}, hosts |-> {}]
  /\ run \in [Runs -> [pc : {"idle"}, dry : BOOLEAN, create : BOOLEAN,
                       creates : {FALSE}]]
  /\ edits = 0

(* The copy is opened, read and planned; nothing else changes it.           *)
BuildPlan(r) ==
  /\ run[r].pc = "idle"
  /\ Goes(r, IF Plannable(source) THEN "planned" ELSE "refused")
  /\ OnlyRun

AssertEmpty(r) ==
  /\ run[r].pc = "planned"
  /\ Goes(r, IF \A t \in Named : IsFree(t)
             THEN "empty" ELSE "refused")
  /\ OnlyRun

(* The account is adopted, or created if --create-owner says so and the     *)
(* admin's hash is one that verifies.                                       *)
ResolveOwner(r) ==
  /\ run[r].pc = "empty"
  /\ \/ account = "active" /\ Goes(r, "owned")
     \/ account = "inactive" /\ Goes(r, "refused")
     \/ /\ account = "absent"
        /\ \E u \in Admins(source) :
             IF run[r].create /\ Identifiable(source.users[u].hash)
             THEN /\ ~OwnerHeld
                  /\ run' = [run EXCEPT ![r].pc = "owned", ![r].creates = TRUE]
             ELSE Goes(r, "refused")
  /\ OnlyRun

InsertUnkeyed(r, from, table, sound) ==        \* mutant: nothing is UNIQUE, and
  /\ run[r].pc = from                          \* the check alone refuses
  /\ Goes(r, IF sound THEN table ELSE "failed")
  /\ OnlyRun

Insert(r, from, table, sound) ==
  /\ run[r].pc = from
  /\ \A k \in Runs \ {r} : run[k].pc \notin Inserted(table)
  /\ Goes(r, IF sound /\ IsFree(table) THEN table ELSE "failed")
  /\ OnlyRun

HasOwner(r) == run[r].creates <=> account = "absent"

InsertDevices(r) == Insert(r, "owned", "devices", HasOwner(r))
InsertZones(r) == Insert(r, "devices", "zones", ZonesStayApart(source))
InsertBindings(r) ==
  /\ run[r].pc = "zones"
  /\ Goes(r, IF BindingsStayApart(source) THEN "bindings" ELSE "failed")
  /\ OnlyRun
InsertHosts(r) == Insert(r, "bindings", "hosts", TRUE)

Union(a, b) == [t \in Tables |-> a[t] \cup b[t]]

Commit(r) ==
  /\ run[r].pc = "hosts" /\ ~run[r].dry
  /\ rows' = Union(rows, Planned)
  /\ account' = "active"
  /\ Goes(r, "committed")
  /\ UNCHANGED <<source, taken, edits>>

DryRun(r) == run[r].pc = "hosts" /\ run[r].dry /\ Goes(r, "dry") /\ OnlyRun

Verify(r) ==
  /\ run[r].pc = "committed"
  /\ Goes(r, IF Agrees(source, rows) THEN "agreed" ELSE "disagreed")
  /\ OnlyRun

(* The process dies, or a statement or the commit fails.                    *)
Dies(r) ==
  /\ run[r].pc \notin {"idle"} \cup Over
  /\ Goes(r, IF run[r].pc = "committed" THEN "unverified" ELSE "failed")
  /\ OnlyRun

-----------------------------------------------------------------------------
(* The others. *)

(* Another tenant commits a row under a name the legacy fleet uses.         *)
TenantTakes(table) ==
  /\ ~Held(table)
  /\ Cardinality(taken.devices) + Cardinality(taken.zones) + Cardinality(taken.hosts)
       < MaxTaken
  /\ \E k \in KeysOf(Planned)[table] \ (KeysOf(rows)[table] \cup taken[table]) :
        taken' = [taken EXCEPT ![table] = @ \cup {k}]
  /\ UNCHANGED <<source, account, rows, run, edits>>

InScope(db) ==
  /\ account = "active"
  /\ edits < MaxEdits
  /\ rows' = db
  /\ edits' = edits + 1
  /\ UNCHANGED <<source, account, taken, run>>

OwnerAdds ==
  \E z \in PlannedZones(source) \cup {Extra} :
     /\ z \notin rows.zones \cup taken.zones
     /\ z \in PlannedZones(source) => ~Held("zones")
     /\ InScope([rows EXCEPT !.zones = @ \cup {z}])

OwnerDropsZone ==
  \E z \in rows.zones :
     InScope([rows EXCEPT !.zones = @ \ {z},
                          !.bindings = {b \in @ : b.zone # z},
                          !.hosts = {x \in @ : x.zone # z}])

OwnerDropsDevice ==
  \E d \in rows.devices :
     InScope([rows EXCEPT !.devices = @ \ {d},
                          !.hosts = {IF x.device = d.username
                                     THEN [x EXCEPT !.device = NULL] ELSE x : x \in @}])

(* A PUT of the name's publishing, or of its TTL.                           *)
OwnerRepins ==
  \E x \in rows.hosts : \E y \in {[x EXCEPT !.selected = {}], [x EXCEPT !.ttl = NULL]} :
     y # x /\ InScope([rows EXCEPT !.hosts = (@ \ {x}) \cup {y}])

(* A migrated device calls: it is the re-hash of its secret that stays.     *)
DeviceCalls ==
  \E d \in rows.devices :
     InScope([rows EXCEPT
       !.devices = (@ \ {d}) \cup {[d EXCEPT !.hash = "argon2id"]},
       !.hosts = {IF x.device = d.username THEN [x EXCEPT !.ip = "newer"] ELSE x : x \in @}])

(* The tenant is deleted for a second attempt: ON DELETE CASCADE.           *)
TenantIsDeleted ==
  /\ account = "active" /\ edits < MaxEdits
  /\ ~ \E r \in Runs : run[r].pc \in WithDevices
  /\ account' = "absent" /\ rows' = Empty /\ edits' = edits + 1
  /\ UNCHANGED <<source, taken, run>>

Next ==
  \/ \E r \in Runs :
        \/ BuildPlan(r) \/ AssertEmpty(r) \/ ResolveOwner(r)
        \/ InsertDevices(r) \/ InsertZones(r) \/ InsertBindings(r) \/ InsertHosts(r)
        \/ Commit(r) \/ DryRun(r) \/ Verify(r) \/ Dies(r)
  \/ \E t \in Named : TenantTakes(t)
  \/ OwnerAdds \/ OwnerDropsZone \/ OwnerDropsDevice \/ OwnerRepins
  \/ DeviceCalls \/ TenantIsDeleted

Spec == Init /\ [][Next]_vars

-----------------------------------------------------------------------------
(* Every variable has its type, and a table holds one row for a key.        *)
TypeOK ==
  /\ source \in Sources
  /\ account \in {"absent", "active", "inactive"}
  /\ run \in [Runs -> [pc : {"idle", "planned", "empty", "owned"} \cup WithDevices
                              \cup Committed \cup Over,
                       dry : BOOLEAN, create : BOOLEAN, creates : BOOLEAN]]
  /\ edits \in 0..MaxEdits
  /\ DOMAIN rows = Tables /\ DOMAIN taken = Named
  /\ \A t \in Named : KeysOf(rows)[t] \cap taken[t] = {}
  /\ \A x, y \in rows.hosts : x.name = y.name => x = y
  /\ \A x \in rows.hosts : x.zone \in rows.zones
  /\ \A b \in rows.bindings : b.zone \in rows.zones

(* An import is never merged with rows that use its names: at its commit    *)
(* none of its usernames, zones or hostnames is anybody's, an earlier       *)
(* import's included, whatever was committed since it looked                *)
(* (assert_target_is_empty).                                                *)
NeverMerges ==
  [][\A r \in Runs : Commit(r) => \A t \in Named : IsFree(t)]_vars

(* The verdict that ends a run with exit code 1 is never the import's own   *)
(* doing: whatever the legacy database was like, somebody else wrote in the *)
(* owner's scope, before the import or between its commit and its           *)
(* verification (build_plan, apply, verify, compare).                       *)
AlarmHasACause ==
  (\E r \in Runs : run[r].pc = "disagreed") => edits > 0

(* The fleet moves at once, once, and publishes as before.                  *)
MigratedNames == {Normal[source.hostnames[h].name] : h \in DOMAIN source.hostnames}
LegacyFleet(s) ==
  [n \in {Normal[s.hostnames[h].name] : h \in DOMAIN s.hostnames} |->
     UNION {LegacyPublication(s, h) :
              h \in {h \in DOMAIN s.hostnames : Normal[s.hostnames[h].name] = n}}]

MappedMoved == \E r \in Runs : run[r].pc \in Committed
MappedPublishes ==
  IF MappedMoved THEN [n \in MigratedNames |-> Publication(rows, n)]
                 ELSE LegacyFleet(source)

Fleet == INSTANCE Migration WITH
  Fleets <- {LegacyFleet(s) : s \in Sources},
  moved <- MappedMoved, publishes <- MappedPublishes

(* A run of the importer is one of Migration: no step but a commit puts a   *)
(* name on the new service, that step puts all there, and each of them      *)
(* publishes then through the accounts and with the TTL it had (apply,      *)
(* Plan.publication, resolve_backends, resolve_ttl).                        *)
MovesAtOnce == Fleet!Spec
=============================================================================
