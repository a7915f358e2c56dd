----------------------------- MODULE LegacyPlan -----------------------------
(***************************************************************************)
(* What scripts/import_legacy.py makes of a copy of the legacy database:    *)
(* which copies it refuses (open_source, assert_columns, build_plan), the   *)
(* rows it plans for the others, what a name publishes to before and after, *)
(* and the comparison that ends a run (compare).                            *)
(*                                                                         *)
(* A snapshot is a record of functions from legacy ids to rows.  A username *)
(* is the id of its row, and the rows planned are told apart by their       *)
(* natural keys: Domain.backends is in id order and ids are allotted in     *)
(* plan order, so leaving surrogate ids out loses no order that either side *)
(* would not have.  Two ciphertexts differ in what build_plan can tell      *)
(* apart: absent, not decryptable (no key, the wrong one, a bad token),     *)
(* empty, or a credential.                                                  *)
(***************************************************************************)
EXTENDS Integers, FiniteSets

CONSTANTS
  Normal,    \* normalise_dns_name: from a legacy spelling to the stored one
  Service,   \* the provider registry: a stored type to its canonical, or NULL
  NULL

-----------------------------------------------------------------------------
(* The legacy rows. *)

Admins(s) == {u \in DOMAIN s.users : s.users[u].role = "admin"}
DeviceRows(s) == DOMAIN s.users \ Admins(s)
HostsOf(s, d) == {h \in DOMAIN s.hostnames : s.hostnames[h].domain = d}
BackendsOf(s, d) == {b \in DOMAIN s.backends : s.backends[b].domain = d}
Chosen(s, h) == {b \in DOMAIN s.backends : <<h, b>> \in s.bindings}

(* What the legacy service publishes a name to, and with which TTL: the     *)
(* backends it is bound to, or all of its domain's if it is bound to none.  *)
LegacyPublication(s, h) ==
  {<<Service[s.backends[b].type], s.hostnames[h].ttl>> :
     b \in {b \in BackendsOf(s, s.hostnames[h].domain) :
              Chosen(s, h) = {} \/ b \in Chosen(s, h)}}

-----------------------------------------------------------------------------
(* The refusals, every one before a write. *)

Identifiable(hash) == hash \in {"bcrypt", "argon2id", "overlong"}

(* One admin, who has logged in and owns no hostname, becomes the owner.    *)
OwnerIsClear(s) ==
  /\ Cardinality(Admins(s)) = 1
  /\ \A u \in Admins(s) :
        s.users[u].web /\ \A h \in DOMAIN s.hostnames : s.hostnames[h].user # u

IsADevice(row) ==
  ~row.web /\ row.active /\ Identifiable(row.hash) /\ row.hash # "overlong"
           /\ ~row.limited

IsPlaced(s, h) ==
  /\ s.hostnames[h].domain \in DOMAIN s.domains
  /\ s.hostnames[h].user \in DeviceRows(s)

SelectionsAreLocal(s) ==
  \A p \in s.bindings :
     /\ p[1] \in DOMAIN s.hostnames
     /\ p[2] \in BackendsOf(s, s.hostnames[p[1]].domain)

IsUsable(row) ==
  Service[row.type] # NULL /\ row.cipher \notin {"absent", "undecryptable", "empty"}

NamesStayApart(s) ==
  \A h, k \in DOMAIN s.hostnames :
     h # k => Normal[s.hostnames[h].name] # Normal[s.hostnames[k].name]

Plannable(s) ==
  /\ s.file = "sound"
  /\ OwnerIsClear(s)
  /\ DeviceRows(s) # {} /\ DOMAIN s.hostnames # {}
  /\ \A u \in DeviceRows(s) : IsADevice(s.users[u])
  /\ \A h \in DOMAIN s.hostnames : IsPlaced(s, h)
  /\ SelectionsAreLocal(s)
  /\ \A b \in DOMAIN s.backends : IsUsable(s.backends[b])
  /\ NamesStayApart(s)

-----------------------------------------------------------------------------
(* The plan. *)

Ttls(s, d) == {s.hostnames[h].ttl : h \in HostsOf(s, d)}
Disagrees(s, d) == \E t, u \in Ttls(s, d) : t # u

(* The zone's most common TTL, of equals the lowest.                        *)
ModalTtl(s, d) ==
  LET count(t) == Cardinality({h \in HostsOf(s, d) : s.hostnames[h].ttl = t})
  IN  CHOOSE t \in Ttls(s, d) :
        \A u \in Ttls(s, d) : count(t) > count(u) \/ (count(t) = count(u) /\ t <= u)

ZoneTtl(s, d) == IF HostsOf(s, d) = {} THEN NULL ELSE ModalTtl(s, d)

OverrideNever(s, h) == NULL        \* mutant: every name takes its zone's TTL

(* Every name of a zone that disagrees is pinned to its own TTL.            *)
Override(s, h) ==
  IF Disagrees(s, s.hostnames[h].domain) THEN s.hostnames[h].ttl ELSE NULL

SelectedNever(s, h) == {}        \* mutant: a strict subset is not carried

(* A name bound to every backend of its domain is not pinned.               *)
Selected(s, h) ==
  IF Chosen(s, h) = BackendsOf(s, s.hostnames[h].domain) THEN {} ELSE Chosen(s, h)

ZoneName(s, d) == IF d \in DOMAIN s.domains THEN Normal[s.domains[d]] ELSE NULL
TypeOf(s, b) == Service[s.backends[b].type]

PlannedDevices(s) == {[username |-> u, hash |-> s.users[u].hash] : u \in DeviceRows(s)}
PlannedZones(s) == {ZoneName(s, d) : d \in DOMAIN s.domains}
PlannedBindings(s) ==
  {[zone |-> ZoneName(s, s.backends[b].domain), type |-> TypeOf(s, b),
    credentials |-> s.backends[b].cipher, ttl |-> ZoneTtl(s, s.backends[b].domain)] :
     b \in DOMAIN s.backends}
PlannedHost(s, h) ==
  [name |-> Normal[s.hostnames[h].name], zone |-> ZoneName(s, s.hostnames[h].domain),
   device |-> s.hostnames[h].user, ttl |-> Override(s, h),
   selected |-> {TypeOf(s, b) : b \in Selected(s, h)}, ip |-> "legacy"]
PlannedHosts(s) == {PlannedHost(s, h) : h \in DOMAIN s.hostnames}

(* build_plan does not look at these two: the UNIQUE keys refuse the first  *)
(* and a lookup of the zone's new id the second, with the rows unwritten.   *)
ZonesStayApart(s) ==
  \A d, e \in DOMAIN s.domains : d # e => ZoneName(s, d) # ZoneName(s, e)
BindingsStayApart(s) ==
  /\ \A b \in DOMAIN s.backends : s.backends[b].domain \in DOMAIN s.domains
  /\ \A b, c \in DOMAIN s.backends :
        b # c /\ s.backends[b].domain = s.backends[c].domain => TypeOf(s, b) # TypeOf(s, c)

-----------------------------------------------------------------------------
(* What the target publishes, and the comparison. *)

(* resolve_backends and resolve_ttl, as /nic/update calls them.             *)
Publication(rows, name) ==
  {<<p[2].type, IF p[1].ttl # NULL THEN p[1].ttl ELSE p[2].ttl>> :
     p \in {p \in rows.hosts \X rows.bindings :
              /\ p[1].name = name
              /\ p[2].zone = p[1].zone
              /\ p[1].selected = {} \/ p[2].type \in p[1].selected}}

(* The same out of the plan (Plan.publication), for compare to hold the     *)
(* target against.                                                          *)
ExpectedPublication(s, h) ==
  {<<TypeOf(s, b), s.hostnames[h].ttl>> :
     b \in {b \in BackendsOf(s, s.hostnames[h].domain) :
              Selected(s, h) = {} \/ b \in Selected(s, h)}}

SameSize(S, T) == Cardinality(S) = Cardinality(T)

(* The counts are over everything the owner can see, the mapping and the    *)
(* publications over every name; a hash must be the same bytes.             *)
Agrees(s, rows) ==
  /\ SameSize(rows.devices, DeviceRows(s)) /\ SameSize(rows.zones, DOMAIN s.domains)
  /\ SameSize(rows.bindings, DOMAIN s.backends)
  /\ SameSize(rows.hosts, DOMAIN s.hostnames)
  /\ {<<x.name, x.device>> : x \in rows.hosts} =
       {<<x.name, x.device>> : x \in PlannedHosts(s)}
  /\ PlannedDevices(s) \subseteq rows.devices
  /\ \A b \in PlannedBindings(s) : \E k \in rows.bindings :
        k.zone = b.zone /\ k.type = b.type /\ k.credentials = b.credentials
  /\ \A x \in PlannedHosts(s) : \E y \in rows.hosts : y.name = x.name /\ y.ip = x.ip
  /\ \A h \in DOMAIN s.hostnames :
        Publication(rows, Normal[s.hostnames[h].name]) = ExpectedPublication(s, h)
=============================================================================
