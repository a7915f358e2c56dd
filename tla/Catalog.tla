------------------------------ MODULE Catalog ------------------------------
(***************************************************************************)
(* The tenant's catalogue: zones, the provider bindings of a zone, devices, *)
(* hostnames and the bindings a hostname is pinned to (models.py), as the   *)
(* editing endpoints of router.py change them.                              *)
(*                                                                         *)
(* A request is one transaction under READ COMMITTED.  A handler that       *)
(* checks what it read before it writes is two actions, the read and the    *)
(* commit, and any other request may commit in between; a handler that      *)
(* writes what it has just looked up is one.  A commit is enabled only      *)
(* where the database takes it (foreign keys, UNIQUE columns, row locks);   *)
(* Abort is every other end of the request.                                 *)
(*                                                                         *)
(* Abstracted: a row's id stands for the row and is allotted once; whose    *)
(* an id will be is fixed beforehand (OwnerOf, TypeOf); which names lie in  *)
(* which zones is a relation (Contains, base.zone_contains).  TTLs,         *)
(* credentials, device names and audit rows are left out.                   *)
(***************************************************************************)
EXTENDS FiniteSets

CONSTANTS
  Calls,      \* requests in flight at the same time
  Tenant,     \* Tenant[c]: whose session the calls on c belong to
  Admins,     \* calls that hold atrium_ddns.admin: their scope is every tenant
  Domains, Backends, Devices, Hosts,   \* row ids
  OwnerOf,    \* the tenant a domain or device row is created by
  TypeOf,     \* the backend_type of a binding
  Zones, Names, Contains,
  Moves,      \* whether a request may move a hostname to another domain
  NULL

ASSUME CatalogAssumption ==
  /\ Admins \subseteq Calls
  /\ NULL \notin Zones \cup Domains \cup Names \cup Devices
  /\ Contains \subseteq Zones \X Names
  /\ Moves \in BOOLEAN

VARIABLES
  zone,       \* Domain.name; NULL: no such row
  bound,      \* DomainBackend.domain_id; NULL: no such row
  devices,    \* the Device rows
  host,       \* the Hostname rows, each with its HostnameBackend rows
  used,       \* ids that were ever allotted
  call,       \* what a request has read and means to write; NULL: none
  overtaken   \* history: requests in flight that another one's commit passed

vars == <<zone, bound, devices, host, used, call, overtaken>>

Ids == Domains \cup Backends \cup Devices \cup Hosts

Row == [domain : Domains, name : Names, device : Devices \cup {NULL},
        selected : SUBSET Backends]

Columns == {"domain", "name", "device"}

Requests ==
  [op : {"rename"}, domain : Domains, to : Zones]
    \cup [op : {"create"}, row : Row]
    \cup [op : {"assign"}, host : Hosts,
          set : UNION {[C -> Domains \cup Names \cup Devices \cup {NULL}] :
                         C \in SUBSET Columns}]
    \cup [op : {"publish"}, host : Hosts, want : SUBSET Backends,
          cleared : (SUBSET Backends) \cup {NULL}]

-----------------------------------------------------------------------------
(* What a request can see, and what the database refuses. *)

Live == {h \in Hosts : host[h] # NULL}

InScope(c, x) == c \in Admins \/ OwnerOf[x] = Tenant[c]

SeenDomains(c) == {d \in Domains : zone[d] # NULL /\ InScope(c, d)}
SeenDevices(c) == {v \in devices : InScope(c, v)}
SeenBackends(c) == {b \in Backends : bound[b] # NULL /\ InScope(c, bound[b])}
SeenHosts(c) == {h \in Live : InScope(c, host[h].domain)}

BindingsOf(d) == {b \in Backends : bound[b] = d}
HostsOf(d) == {h \in Live : host[h].domain = d}

ResolvedFallingBack(h) ==        \* mutant: a selection that names nothing
  LET all == BindingsOf(host[h].domain)          \* of the zone inherits too
  IN  IF all \cap host[h].selected = {} THEN all ELSE all \cap host[h].selected

(* resolve_backends: no selection inherits the zone's bindings, and a       *)
(* selection is filtered out of them.                                       *)
ResolvedOf(h) ==
  LET all == BindingsOf(host[h].domain)
  IN  IF host[h].selected = {} THEN all ELSE all \cap host[h].selected

NameIsFree(n, h) == \A k \in Live \ {h} : host[k].name # n
ZoneIsFree(z) == \A d \in Domains : zone[d] # z

InFlight(c, op) == call[c] # NULL /\ call[c].op = op

(* A commit of c passes the requests that have read and not yet written     *)
(* something c can see, or once saw, if it was overtaken itself; a request  *)
(* that ends is overtaken no more.                                          *)
Shares(c, k) == {c, k} \cap Admins # {} \/ Tenant[c] = Tenant[k]
Ends(c) == overtaken' = overtaken \ {c}
Overtakes(c) ==
  overtaken' = (overtaken \ {c})
                 \cup {k \in Calls \ {c} : call[k] # NULL /\ (Shares(c, k) \/ c \in overtaken)}

(* The selection rows a PUT has deleted stay locked until it commits, and   *)
(* a statement that needs one of them waits.                                *)
LockedRows(h) ==
  UNION {call[k].cleared :
           k \in {k \in Calls : /\ InFlight(k, "publish")
                                /\ call[k].host = h
                                /\ call[k].cleared # NULL}}

Waits(h, B) == B \cap LockedRows(h) # {}

-----------------------------------------------------------------------------
(* Zones and their bindings. *)

CreateDomain(c) ==
  /\ call[c] = NULL
  /\ \E d \in Domains \ used, z \in Zones :
     \E B \in {{}} \cup {{b} : b \in Backends \ used} :
        /\ OwnerOf[d] = Tenant[c]
        /\ ZoneIsFree(z)
        /\ zone' = [zone EXCEPT ![d] = z]
        /\ bound' = [b \in Backends |-> IF b \in B THEN d ELSE bound[b]]
        /\ used' = used \cup {d} \cup B
  /\ Overtakes(c)
  /\ UNCHANGED <<devices, host, call>>

(* rename_domain reads the names under the zone and refuses if the new      *)
(* zone would not contain one of them.                                      *)
RenameDomain(c) ==
  /\ call[c] = NULL
  /\ \E d \in SeenDomains(c), z \in Zones :
        /\ z # zone[d]
        /\ \A h \in HostsOf(d) : <<z, host[h].name>> \in Contains
        /\ call' = [call EXCEPT ![c] = [op |-> "rename", domain |-> d, to |-> z]]
  /\ UNCHANGED <<zone, bound, devices, host, used, overtaken>>

CommitRename(c) ==
  /\ InFlight(c, "rename")
  /\ zone[call[c].domain] # NULL
  /\ ZoneIsFree(call[c].to)
  /\ zone' = [zone EXCEPT ![call[c].domain] = call[c].to]
  /\ call' = [call EXCEPT ![c] = NULL]
  /\ Overtakes(c)
  /\ UNCHANGED <<bound, devices, host, used>>

(* ON DELETE CASCADE: the rows of `gone`, and every selection of B.         *)
Cascaded(gone, B) ==
  [h \in Hosts |->
     IF h \in gone \/ host[h] = NULL THEN NULL
     ELSE [host[h] EXCEPT !.selected = @ \ B]]

DeleteDomain(c) ==
  /\ call[c] = NULL
  /\ \E d \in SeenDomains(c) :
        /\ \A h \in HostsOf(d) : LockedRows(h) = {}
        /\ \A h \in Hosts : ~Waits(h, BindingsOf(d))
        /\ zone' = [zone EXCEPT ![d] = NULL]
        /\ bound' = [b \in Backends |-> IF bound[b] = d THEN NULL ELSE bound[b]]
        /\ host' = Cascaded(HostsOf(d), BindingsOf(d))
  /\ Overtakes(c)
  /\ UNCHANGED <<devices, used, call>>

(* create_backend: UNIQUE (domain_id, backend_type).                        *)
CreateBackend(c) ==
  /\ call[c] = NULL
  /\ \E d \in SeenDomains(c), b \in Backends \ used :
        /\ \A k \in BindingsOf(d) : TypeOf[k] # TypeOf[b]
        /\ bound' = [bound EXCEPT ![b] = d]
        /\ used' = used \cup {b}
  /\ Overtakes(c)
  /\ UNCHANGED <<zone, devices, host, call>>

DeleteBackendKeepingSelections(c) ==        \* mutant: no cascade
  /\ call[c] = NULL
  /\ \E b \in SeenBackends(c) : bound' = [bound EXCEPT ![b] = NULL]
  /\ Overtakes(c)
  /\ UNCHANGED <<zone, devices, host, used, call>>

DeleteBackend(c) ==
  /\ call[c] = NULL
  /\ \E b \in SeenBackends(c) :
        /\ \A h \in Hosts : ~Waits(h, {b})
        /\ bound' = [bound EXCEPT ![b] = NULL]
        /\ host' = Cascaded({}, {b})
  /\ Overtakes(c)
  /\ UNCHANGED <<zone, devices, used, call>>

-----------------------------------------------------------------------------
(* Devices. *)

CreateDevice(c) ==
  /\ call[c] = NULL
  /\ \E v \in Devices \ used :
        /\ OwnerOf[v] = Tenant[c]
        /\ devices' = devices \cup {v}
        /\ used' = used \cup {v}
  /\ Overtakes(c)
  /\ UNCHANGED <<zone, bound, host, call>>

DeleteDevice(c) ==
  /\ call[c] = NULL
  /\ \E v \in SeenDevices(c) :
        /\ devices' = devices \ {v}
        /\ host' = [h \in Hosts |->
                      IF host[h] # NULL /\ host[h].device = v
                      THEN [host[h] EXCEPT !.device = NULL] ELSE host[h]]
  /\ Overtakes(c)
  /\ UNCHANGED <<zone, bound, used, call>>

-----------------------------------------------------------------------------
(* Hostnames. *)

CreateAnywhere(c) ==        \* mutant: the zone is not looked up in scope
  /\ call[c] = NULL
  /\ \E d \in Domains, v \in SeenDevices(c) \cup {NULL}, n \in Names :
        /\ <<zone[d], n>> \in Contains
        /\ call' = [call EXCEPT ![c] =
                      [op |-> "create",
                       row |-> [domain |-> d, name |-> n, device |-> v,
                                selected |-> {}]]]
  /\ UNCHANGED <<zone, bound, devices, host, used, overtaken>>

CreateHostname(c) ==
  /\ call[c] = NULL
  /\ \E d \in SeenDomains(c), v \in SeenDevices(c) \cup {NULL}, n \in Names :
        /\ <<zone[d], n>> \in Contains
        /\ call' = [call EXCEPT ![c] =
                      [op |-> "create",
                       row |-> [domain |-> d, name |-> n, device |-> v,
                                selected |-> {}]]]
  /\ UNCHANGED <<zone, bound, devices, host, used, overtaken>>

CommitCreate(c) ==
  /\ InFlight(c, "create")
  /\ zone[call[c].row.domain] # NULL
  /\ call[c].row.device \in devices \cup {NULL}
  /\ \E h \in Hosts \ used :
        /\ NameIsFree(call[c].row.name, h)
        /\ host' = [host EXCEPT ![h] = call[c].row]
        /\ used' = used \cup {h}
  /\ call' = [call EXCEPT ![c] = NULL]
  /\ Overtakes(c)
  /\ UNCHANGED <<zone, bound, devices>>

RenameIsValid(h, d, n) ==        \* mutant: a move alone is not judged
  n # NULL =>
     << zone[IF d = NULL THEN host[h].domain ELSE d], n >> \in Contains

(* What assign_hostname accepts: a name or a zone that changes is judged    *)
(* against the zone the row will be in.                                     *)
MoveIsValid(h, d, n) ==
  (d # NULL \/ n # NULL) =>
     << zone[IF d = NULL THEN host[h].domain ELSE d],
        IF n = NULL THEN host[h].name ELSE n >> \in Contains

(* The UPDATE names the columns that differ from the row as it was read.    *)
Wanted(h, v, d, n) ==
  [device |-> v,
   domain |-> IF d = NULL THEN host[h].domain ELSE d,
   name |-> IF n = NULL THEN host[h].name ELSE n]

Update(h, wanted) ==
  [k \in {k \in Columns : wanted[k] # host[h][k]} |-> wanted[k]]

Destinations(c) == (IF Moves THEN SeenDomains(c) ELSE {}) \cup {NULL}

AssignHostname(c) ==
  /\ call[c] = NULL
  /\ \E h \in SeenHosts(c), v \in SeenDevices(c) \cup {NULL},
        d \in Destinations(c), n \in Names \cup {NULL} :
        /\ MoveIsValid(h, d, n)
        /\ call' = [call EXCEPT ![c] = [op |-> "assign", host |-> h,
                                        set |-> Update(h, Wanted(h, v, d, n))]]
  /\ UNCHANGED <<zone, bound, devices, host, used, overtaken>>

Updated(row, set) ==
  [k \in DOMAIN row |-> IF k \in DOMAIN set THEN set[k] ELSE row[k]]

CommitAssign(c) ==
  /\ InFlight(c, "assign")
  /\ LET h == call[c].host
         row == Updated(host[h], call[c].set)
     IN  /\ host[h] # NULL
         /\ zone[row.domain] # NULL
         /\ row.device \in devices \cup {NULL}
         /\ NameIsFree(row.name, h)
         /\ host' = [host EXCEPT ![h] = row]
  /\ call' = [call EXCEPT ![c] = NULL]
  /\ Overtakes(c)
  /\ UNCHANGED <<zone, bound, devices, used>>

DeleteHostname(c) ==
  /\ call[c] = NULL
  /\ \E h \in SeenHosts(c) :
        /\ LockedRows(h) = {}
        /\ host' = Cascaded({h}, {})
  /\ Overtakes(c)
  /\ UNCHANGED <<zone, bound, devices, used, call>>

-----------------------------------------------------------------------------
(* set_hostname_publishing: every requested id is one of the zone's         *)
(* bindings, then DELETE of the rows there are, then INSERT and commit.     *)

LiveBindings(h) ==        \* mutant: bindings of any zone are accepted
  SUBSET {b \in Backends : bound[b] # NULL}

Requestable(h) == SUBSET BindingsOf(host[h].domain)

SetPublishing(c) ==
  /\ call[c] = NULL
  /\ \E h \in SeenHosts(c) : \E B \in Requestable(h) :
        call' = [call EXCEPT ![c] = [op |-> "publish", host |-> h,
                                     want |-> B, cleared |-> NULL]]
  /\ UNCHANGED <<zone, bound, devices, host, used, overtaken>>

RowsOf(h) == IF h \in Live THEN host[h].selected ELSE {}

ClearNothing(c) ==        \* mutant: the rows are added to, not replaced
  /\ InFlight(c, "publish")
  /\ call[c].cleared = NULL
  /\ call' = [call EXCEPT ![c].cleared = {}]
  /\ UNCHANGED <<zone, bound, devices, host, used, overtaken>>

ClearSelection(c) ==
  /\ InFlight(c, "publish")
  /\ call[c].cleared = NULL
  /\ LockedRows(call[c].host) = {}
  /\ call' = [call EXCEPT ![c].cleared = RowsOf(call[c].host)]
  /\ UNCHANGED <<zone, bound, devices, host, used, overtaken>>

CommitPublishing(c) ==
  /\ InFlight(c, "publish")
  /\ call[c].cleared # NULL
  /\ LET h == call[c].host
         kept == host[h].selected \ call[c].cleared
     IN  /\ host[h] # NULL
         /\ \A b \in call[c].want : bound[b] # NULL /\ b \notin kept
         /\ host' = [host EXCEPT ![h].selected = kept \cup call[c].want]
  /\ call' = [call EXCEPT ![c] = NULL]
  /\ Overtakes(c)
  /\ UNCHANGED <<zone, bound, devices, used>>

(* A refused statement (IntegrityError, StaleDataError), a lock wait that   *)
(* times out or a client that goes away: the transaction rolls back.        *)
Abort(c) ==
  /\ call[c] # NULL
  /\ call' = [call EXCEPT ![c] = NULL]
  /\ Ends(c)
  /\ UNCHANGED <<zone, bound, devices, host, used>>

-----------------------------------------------------------------------------

Init ==
  /\ zone = [d \in Domains |-> NULL]
  /\ bound = [b \in Backends |-> NULL]
  /\ devices = {}
  /\ host = [h \in Hosts |-> NULL]
  /\ used = {}
  /\ call = [c \in Calls |-> NULL]
  /\ overtaken = {}

Next ==
  \E c \in Calls :
    \/ CreateDomain(c) \/ RenameDomain(c) \/ CommitRename(c) \/ DeleteDomain(c)
    \/ CreateBackend(c) \/ DeleteBackend(c)
    \/ CreateDevice(c) \/ DeleteDevice(c)
    \/ CreateHostname(c) \/ CommitCreate(c) \/ DeleteHostname(c)
    \/ AssignHostname(c) \/ CommitAssign(c)
    \/ SetPublishing(c) \/ ClearSelection(c) \/ CommitPublishing(c)
    \/ Abort(c)

Spec == Init /\ [][Next]_vars

-----------------------------------------------------------------------------

(* Every variable has its type, and every live row's references are live    *)
(* (what the foreign keys and their ON DELETE rules promise together).      *)
TypeOK ==
  /\ zone \in [Domains -> Zones \cup {NULL}]
  /\ bound \in [Backends -> Domains \cup {NULL}]
  /\ devices \subseteq Devices
  /\ used \subseteq Ids
  /\ \A b \in Backends : bound[b] # NULL => zone[bound[b]] # NULL
  /\ \A h \in Live :
        /\ host[h] \in Row
        /\ zone[host[h].domain] # NULL
        /\ host[h].device \in devices \cup {NULL}
        /\ \A b \in host[h].selected : bound[b] # NULL
  /\ \A c \in Calls : call[c] = NULL \/ call[c] \in Requests
  /\ overtaken \subseteq Calls

(* What a step is: the commit of a request, and one nothing has overtaken.  *)
Commits(c) == call[c] # NULL /\ call'[c] = NULL
RaceEnds == \E c \in overtaken : Commits(c)

Outside(h) ==
  h \in Live /\ <<zone[host[h].domain], host[h].name>> \notin Contains
Stray(h) ==
  h \in Live /\ ~(host[h].selected \subseteq BindingsOf(host[h].domain))
Crossed(h) ==
  /\ h \in Live
  /\ host[h].device # NULL
  /\ OwnerOf[host[h].device] # OwnerOf[host[h].domain]
Moved(h) == h \in Live /\ host'[h] # NULL /\ host'[h].domain # host[h].domain

(* A hostname gets outside its domain's zone, where /nic/update answers     *)
(* nohost for it whatever the device sends, only when a rename and a create *)
(* or a move pass each other; each of them alone refuses (rename_domain,    *)
(* create_hostname, assign_hostname).                                       *)
StaysInZone ==
  [][\A h \in Hosts : Outside(h)' => Outside(h) \/ RaceEnds]_vars

(* A hostname comes to be pinned to a binding of another zone, which        *)
(* resolve_backends filters out so that the name may publish nowhere, only  *)
(* by being moved with its selection, or when a PUT and a move pass each    *)
(* other (assign_hostname, set_hostname_publishing).                        *)
StraysOnlyByMove ==
  [][\A h \in Hosts : Stray(h)' => Stray(h) \/ Moved(h) \/ RaceEnds]_vars

(* Without moves no sequence and no race of requests does it: not an        *)
(* unbinding or a deleted zone between a PUT's check of the ids and its     *)
(* INSERT (models.py HostnameBackend).                                      *)
SelectionIsOfTheZone ==
  ~Moves => \A h \in Hosts : ~Stray(h)

(* Only an administrator's request can put a name of one tenant on a device *)
(* of another, for which load_plans will not find it, unless it races with  *)
(* an administrator's move.                                                 *)
CrossedOnlyByAdmin ==
  [][\A h \in Hosts : Crossed(h)' =>
        Crossed(h) \/ RaceEnds \/ \E c \in Admins : Commits(c)]_vars

(* A PUT of a hostname's publishing that nothing overtook replaces: when it *)
(* commits, the rows that are there are the ones it asked for; two at once  *)
(* may merge (set_hostname_publishing).                                     *)
PutReplaces ==
  [][\A c \in Calls \ overtaken : CommitPublishing(c) =>
        host'[call[c].host].selected = call[c].want]_vars

(* A name starts to publish to one more account only by a PUT, by a move,   *)
(* by a new binding of a zone it inherits from, or because the last binding *)
(* it was pinned to is gone; never because one of several it was pinned to  *)
(* went, or because a binding was added beside its pin (resolve_backends,   *)
(* delete_backend).                                                         *)
WidensOnlyKnowingly ==
  [][\A h \in Live :
        host'[h] # NULL /\ ~(ResolvedOf(h)' \subseteq ResolvedOf(h)) =>
          \/ \E c \in Calls : Commits(c) /\ InFlight(c, "publish")
          \/ Moved(h)
          \/ host[h].selected = {}
          \/ \A b \in host[h].selected : bound'[b] = NULL]_vars

=============================================================================
