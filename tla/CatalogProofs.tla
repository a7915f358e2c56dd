---------------------------- MODULE CatalogProofs ----------------------------
(***************************************************************************)
(* The catalogue keeps its references for any number of requests, tenants   *)
(* and rows: what the foreign keys and their ON DELETE rules promise        *)
(* together, whatever commits between a handler's check and its write.      *)
(*                                                                         *)
(* Rows and requests are strengthened apart.  What a request carries to its *)
(* commit is typed column by column, and a new row carries no selection:    *)
(* TypeOK does not know either, and a commit needs both.                    *)
(***************************************************************************)
EXTENDS Catalog, TLAPS

RowsInv ==
  /\ zone \in [Domains -> Zones \cup {NULL}]
  /\ bound \in [Backends -> Domains \cup {NULL}]
  /\ devices \subseteq Devices
  /\ used \subseteq Ids
  /\ host = [h \in Hosts |-> host[h]]
  /\ \A b \in Backends : bound[b] # NULL => zone[bound[b]] # NULL
  /\ \A h \in Live :
        /\ host[h] \in Row
        /\ zone[host[h].domain] # NULL
        /\ host[h].device \in devices \cup {NULL}
        /\ \A b \in host[h].selected : bound[b] # NULL

Carries(r) ==
  /\ r \in Requests
  /\ r.op = "create" => r.row.selected = {}
  /\ r.op = "assign" =>
       /\ "domain" \in DOMAIN r.set => r.set["domain"] \in Domains
       /\ "name" \in DOMAIN r.set => r.set["name"] \in Names
       /\ "device" \in DOMAIN r.set => r.set["device"] \in Devices \cup {NULL}

CallsInv ==
  /\ call = [c \in Calls |-> call[c]]
  /\ \A c \in Calls : call[c] = NULL \/ Carries(call[c])
  /\ overtaken \subseteq Calls

CatalogInv == RowsInv /\ CallsInv

LEMMA InvImpliesTypeOK == CatalogInv => TypeOK
  BY DEF CatalogInv, RowsInv, CallsInv, Carries, TypeOK

LEMMA InitInv == Init => CatalogInv
  BY CatalogAssumption DEF CatalogAssumption, Init, CatalogInv, RowsInv, CallsInv, Live

-----------------------------------------------------------------------------
(* What a request of each kind carries. *)

LEMMA RequestShape ==
  ASSUME NEW r \in Requests
  PROVE  /\ r.op = "rename" => r.domain \in Domains /\ r.to \in Zones
         /\ r.op = "create" => r.row \in Row
         /\ r.op = "assign" =>
              /\ r.host \in Hosts
              /\ DOMAIN r.set \subseteq Columns
              /\ r.set = [k \in DOMAIN r.set |-> r.set[k]]
         /\ r.op = "publish" =>
              /\ r.host \in Hosts /\ r.want \subseteq Backends
              /\ \A B \in SUBSET Backends :
                    /\ [r EXCEPT !.cleared = B] \in Requests
                    /\ [r EXCEPT !.cleared = B].op = "publish"
<1>1. CASE r \in [op : {"rename"}, domain : Domains, to : Zones]
  BY <1>1
<1>2. CASE r \in [op : {"create"}, row : Row]
  BY <1>2
<1>3. CASE r \in [op : {"assign"}, host : Hosts,
          set : UNION {[C -> Domains \cup Names \cup Devices \cup {NULL}] :
                         C \in SUBSET Columns}]
  <2>1. r.op = "assign" /\ r.host \in Hosts
    BY <1>3
  <2>2. r.set \in UNION {[C -> Domains \cup Names \cup Devices \cup {NULL}] :
                         C \in SUBSET Columns}
    BY <1>3
  <2>3. PICK C \in SUBSET Columns : r.set \in [C -> Domains \cup Names \cup Devices \cup {NULL}]
    BY <2>2
  <2> QED BY <2>1, <2>3
<1>4. CASE r \in [op : {"publish"}, host : Hosts, want : SUBSET Backends,
          cleared : (SUBSET Backends) \cup {NULL}]
  <2>1. r.op = "publish" /\ r.host \in Hosts /\ r.want \subseteq Backends
    BY <1>4
  <2>2. ASSUME NEW B \in SUBSET Backends
        PROVE  [r EXCEPT !.cleared = B] \in
                 [op : {"publish"}, host : Hosts, want : SUBSET Backends,
                  cleared : (SUBSET Backends) \cup {NULL}]
    BY <1>4
  <2> QED BY <2>1, <2>2 DEF Requests
<1> QED BY <1>1, <1>2, <1>3, <1>4 DEF Requests

-----------------------------------------------------------------------------
(* What the ends of a request leave of the others. *)

LEMMA RowsStay ==
  ASSUME RowsInv, UNCHANGED <<zone, bound, devices, host, used>>
  PROVE  RowsInv'
  BY DEF RowsInv, Live

LEMMA CallsStay ==
  ASSUME CallsInv, call' = call, overtaken' \subseteq overtaken \cup Calls
  PROVE  CallsInv'
  BY DEF CallsInv

LEMMA CallBegins ==
  ASSUME CallsInv, NEW c \in Calls, NEW r, r = NULL \/ Carries(r),
         call' = [call EXCEPT ![c] = r], overtaken' \subseteq overtaken \cup Calls
  PROVE  CallsInv'
  BY DEF CallsInv

LEMMA CallEnds ==
  ASSUME CallsInv, NEW c \in Calls, call' = [call EXCEPT ![c] = NULL],
         Overtakes(c) \/ Ends(c)
  PROVE  CallsInv'
  BY CallBegins DEF Overtakes, Ends

-----------------------------------------------------------------------------
(* The handlers that begin a request change no row. *)

LEMMA BeginStep ==
  ASSUME CatalogInv, NEW c \in Calls,
         RenameDomain(c) \/ CreateHostname(c) \/ AssignHostname(c)
           \/ SetPublishing(c) \/ ClearSelection(c)
  PROVE  CatalogInv'
<1> USE DEF CatalogInv
<1>1. RowsInv'
  BY RowsStay DEF RenameDomain, CreateHostname, AssignHostname, SetPublishing, ClearSelection
<1>2. overtaken' \subseteq overtaken \cup Calls
  BY DEF RenameDomain, CreateHostname, AssignHostname, SetPublishing, ClearSelection
<1>3. CASE RenameDomain(c)
  <2>1. PICK d \in SeenDomains(c), z \in Zones :
          call' = [call EXCEPT ![c] = [op |-> "rename", domain |-> d, to |-> z]]
    BY <1>3 DEF RenameDomain
  <2>2. Carries([op |-> "rename", domain |-> d, to |-> z])
    BY DEF Carries, Requests, SeenDomains
  <2> QED BY <1>1, <1>2, <2>1, <2>2, CallBegins
<1>4. CASE CreateHostname(c)
  <2>1. PICK d \in SeenDomains(c), v \in SeenDevices(c) \cup {NULL}, n \in Names :
          call' = [call EXCEPT ![c] =
                     [op |-> "create",
                      row |-> [domain |-> d, name |-> n, device |-> v, selected |-> {}]]]
    BY <1>4 DEF CreateHostname
  <2>2. [domain |-> d, name |-> n, device |-> v, selected |-> {}] \in Row
    BY DEF Row, SeenDomains, SeenDevices, RowsInv
  <2>3. Carries([op |-> "create",
                 row |-> [domain |-> d, name |-> n, device |-> v, selected |-> {}]])
    BY <2>2 DEF Carries, Requests
  <2> QED BY <1>1, <1>2, <2>1, <2>3, CallBegins
<1>5. CASE AssignHostname(c)
  <2>1. PICK h \in SeenHosts(c), v \in SeenDevices(c) \cup {NULL},
             d \in Destinations(c), n \in Names \cup {NULL} :
          /\ MoveIsValid(h, d, n)
          /\ call' = [call EXCEPT ![c] = [op |-> "assign", host |-> h,
                                          set |-> Update(h, Wanted(h, v, d, n))]]
    BY <1>5 DEF AssignHostname
  <2>2. h \in Hosts /\ host[h] \in Row
    BY DEF SeenHosts, Live, RowsInv
  <2> DEFINE wanted == Wanted(h, v, d, n)
             dirty == {k \in Columns : wanted[k] # host[h][k]}
  <2>3. /\ wanted["domain"] \in Domains
        /\ wanted["name"] \in Names
        /\ wanted["device"] \in Devices \cup {NULL}
    BY <2>2 DEF Wanted, Destinations, Row, SeenDomains, SeenDevices, RowsInv
  <2>4. \A k \in Columns : wanted[k] \in Domains \cup Names \cup Devices \cup {NULL}
    BY <2>3 DEF Columns
  <2> HIDE DEF wanted
  <2>5. Update(h, wanted) = [k \in dirty |-> wanted[k]] /\ dirty \subseteq Columns
    BY DEF Update
  <2>6. Update(h, wanted) \in [dirty -> Domains \cup Names \cup Devices \cup {NULL}]
    BY <2>4, <2>5
  <2>7. [op |-> "assign", host |-> h, set |-> Update(h, wanted)] \in Requests
    BY <2>2, <2>5, <2>6 DEF Requests
  <2>8. Carries([op |-> "assign", host |-> h, set |-> Update(h, wanted)])
    BY <2>3, <2>5, <2>7 DEF Carries
  <2> QED BY <1>1, <1>2, <2>1, <2>8, CallBegins DEF wanted
<1>6. CASE SetPublishing(c)
  <2>1. PICK h \in SeenHosts(c) : \E B \in Requestable(h) :
          call' = [call EXCEPT ![c] = [op |-> "publish", host |-> h,
                                       want |-> B, cleared |-> NULL]]
    BY <1>6 DEF SetPublishing
  <2>2. PICK B \in Requestable(h) :
          call' = [call EXCEPT ![c] = [op |-> "publish", host |-> h,
                                       want |-> B, cleared |-> NULL]]
    BY <2>1
  <2>3. h \in Hosts /\ B \subseteq Backends
    BY DEF SeenHosts, Live, Requestable, BindingsOf
  <2>4. Carries([op |-> "publish", host |-> h, want |-> B, cleared |-> NULL])
    BY <2>3 DEF Carries, Requests
  <2> QED BY <1>1, <1>2, <2>2, <2>4, CallBegins
<1>7. CASE ClearSelection(c)
  <2>1. RowsOf(call[c].host) \in SUBSET Backends
    BY DEF RowsOf, RowsInv, Row
  <2>2. call[c] \in Requests /\ call[c].op = "publish"
    BY <1>7 DEF ClearSelection, InFlight, CallsInv, Carries
  <2>3. /\ [call[c] EXCEPT !.cleared = RowsOf(call[c].host)] \in Requests
        /\ [call[c] EXCEPT !.cleared = RowsOf(call[c].host)].op = "publish"
    BY <2>1, <2>2, RequestShape
  <2>4. Carries([call[c] EXCEPT !.cleared = RowsOf(call[c].host)])
    BY <2>3 DEF Carries
  <2>5. call' = [call EXCEPT ![c] = [call[c] EXCEPT !.cleared = RowsOf(call[c].host)]]
    BY <1>7 DEF ClearSelection
  <2> QED BY <1>1, <1>2, <2>4, <2>5, CallBegins
<1> QED BY <1>3, <1>4, <1>5, <1>6, <1>7

-----------------------------------------------------------------------------
(* Zones and their bindings: a row that refers to a domain or a binding is  *)
(* carried along, or gone with it.                                          *)

LEMMA ZoneStep ==
  ASSUME CatalogInv, NEW c \in Calls,
         CreateDomain(c) \/ CommitRename(c) \/ DeleteDomain(c)
           \/ CreateBackend(c) \/ DeleteBackend(c)
  PROVE  CatalogInv'
<1> USE CatalogAssumption DEF CatalogInv, CatalogAssumption
<1>1. CASE CreateDomain(c)
  <2>1. CallsInv'
    BY <1>1, CallsStay DEF CreateDomain, Overtakes
  <2>2. PICK d \in Domains \ used, z \in Zones :
        \E B \in {{}} \cup {{b} : b \in Backends \ used} :
           /\ OwnerOf[d] = Tenant[c]
           /\ ZoneIsFree(z)
           /\ zone' = [zone EXCEPT ![d] = z]
           /\ bound' = [b \in Backends |-> IF b \in B THEN d ELSE bound[b]]
           /\ used' = used \cup {d} \cup B
    BY <1>1 DEF CreateDomain
  <2>3. PICK B \in SUBSET Backends :
           /\ zone' = [zone EXCEPT ![d] = z]
           /\ bound' = [b \in Backends |-> IF b \in B THEN d ELSE bound[b]]
           /\ used' = used \cup {d} \cup B
    BY <2>2
  <2>4. UNCHANGED <<devices, host>>
    BY <1>1 DEF CreateDomain
  <2>5. /\ zone' \in [Domains -> Zones \cup {NULL}]
        /\ \A e \in Domains : zone[e] # NULL => zone'[e] # NULL
        /\ zone'[d] # NULL
    BY <2>2, <2>3 DEF RowsInv
  <2>6. /\ bound' \in [Backends -> Domains \cup {NULL}]
        /\ \A b \in Backends : bound'[b] = d \/ bound'[b] = bound[b]
        /\ \A b \in Backends : bound[b] # NULL => bound'[b] # NULL
    BY <2>2, <2>3 DEF RowsInv
  <2>7. used' \subseteq Ids
    BY <2>2, <2>3 DEF RowsInv, Ids
  <2>8. \A b \in Backends : bound'[b] # NULL => zone'[bound'[b]] # NULL
    BY <2>5, <2>6 DEF RowsInv
  <2>9. \A h \in Live : zone'[host[h].domain] # NULL
                        /\ \A b \in host[h].selected : bound'[b] # NULL
    BY <2>5, <2>6 DEF RowsInv, Row
  <2> QED BY <2>1, <2>4, <2>5, <2>6, <2>7, <2>8, <2>9 DEF RowsInv, Live
<1>2. CASE CommitRename(c)
  <2>1. CallsInv'
    BY <1>2, CallEnds DEF CommitRename
  <2>2. call[c].domain \in Domains /\ call[c].to \in Zones
    BY <1>2, RequestShape DEF CommitRename, InFlight, CallsInv, Carries
  <2>3. /\ zone' \in [Domains -> Zones \cup {NULL}]
        /\ \A e \in Domains : zone[e] # NULL => zone'[e] # NULL
    BY <1>2, <2>2 DEF CommitRename, RowsInv
  <2>4. UNCHANGED <<bound, devices, host, used>>
    BY <1>2 DEF CommitRename
  <2> QED BY <2>1, <2>3, <2>4 DEF RowsInv, Live, Row
<1>3. CASE DeleteDomain(c)
  <2>1. CallsInv'
    BY <1>3, CallsStay DEF DeleteDomain, Overtakes
  <2>2. PICK d \in SeenDomains(c) :
           /\ zone' = [zone EXCEPT ![d] = NULL]
           /\ bound' = [b \in Backends |-> IF bound[b] = d THEN NULL ELSE bound[b]]
           /\ host' = Cascaded(HostsOf(d), BindingsOf(d))
    BY <1>3 DEF DeleteDomain
  <2>3. UNCHANGED <<devices, used>>
    BY <1>3 DEF DeleteDomain
  <2>4. d \in Domains
    BY DEF SeenDomains
  <2>5. /\ zone' \in [Domains -> Zones \cup {NULL}]
        /\ \A e \in Domains \ {d} : zone'[e] = zone[e]
    BY <2>2 DEF RowsInv
  <2>6. /\ bound' \in [Backends -> Domains \cup {NULL}]
        /\ \A b \in Backends : bound'[b] # NULL => bound'[b] = bound[b] /\ bound[b] # d
        /\ \A b \in Backends \ BindingsOf(d) : bound'[b] = bound[b]
    BY <2>2 DEF RowsInv, BindingsOf
  <2>7. \A h \in Live' :
           h \in Live \ HostsOf(d) /\ host'[h] = [host[h] EXCEPT !.selected = @ \ BindingsOf(d)]
    BY <2>2 DEF Live, Cascaded
  <2>8. \A b \in Backends : bound'[b] # NULL => zone'[bound'[b]] # NULL
    BY <2>5, <2>6 DEF RowsInv
  <2>9. ASSUME NEW h \in Live'
        PROVE  /\ host'[h] \in Row
               /\ zone'[host'[h].domain] # NULL
               /\ host'[h].device \in devices \cup {NULL}
               /\ \A b \in host'[h].selected : bound'[b] # NULL
    <3>1. h \in Live /\ host[h] \in Row /\ host[h].domain # d
      BY <2>7 DEF RowsInv, HostsOf
    <3>2. host'[h] = [host[h] EXCEPT !.selected = @ \ BindingsOf(d)]
      BY <2>7
    <3>3. /\ host'[h] \in Row /\ host'[h].domain = host[h].domain
          /\ host'[h].device = host[h].device
          /\ host'[h].selected = host[h].selected \ BindingsOf(d)
      BY <3>1, <3>2 DEF Row
    <3> QED BY <2>5, <2>6, <3>1, <3>3 DEF RowsInv, Row
  <2>10. host' = [h \in Hosts |-> host'[h]]
    BY <2>2 DEF Cascaded
  <2> QED BY <2>1, <2>3, <2>5, <2>6, <2>8, <2>9, <2>10 DEF RowsInv
<1>4. CASE CreateBackend(c)
  <2>1. CallsInv'
    BY <1>4, CallsStay DEF CreateBackend, Overtakes
  <2>2. PICK d \in SeenDomains(c), b \in Backends \ used :
           /\ \A k \in BindingsOf(d) : TypeOf[k] # TypeOf[b]
           /\ bound' = [bound EXCEPT ![b] = d]
           /\ used' = used \cup {b}
    BY <1>4 DEF CreateBackend
  <2>3. UNCHANGED <<zone, devices, host>>
    BY <1>4 DEF CreateBackend
  <2>4. d \in Domains /\ zone[d] # NULL /\ used' \subseteq Ids
    BY <2>2 DEF SeenDomains, RowsInv, Ids
  <2>5. /\ bound' \in [Backends -> Domains \cup {NULL}]
        /\ \A k \in Backends : bound'[k] # NULL => bound'[k] = d \/ bound'[k] = bound[k]
        /\ \A k \in Backends : bound[k] # NULL => bound'[k] # NULL
    BY <2>2, <2>4 DEF RowsInv
  <2> QED BY <2>1, <2>3, <2>4, <2>5 DEF RowsInv, Live, Row
<1>5. CASE DeleteBackend(c)
  <2>1. CallsInv'
    BY <1>5, CallsStay DEF DeleteBackend, Overtakes
  <2>2. PICK b \in SeenBackends(c) :
           bound' = [bound EXCEPT ![b] = NULL] /\ host' = Cascaded({}, {b})
    BY <1>5 DEF DeleteBackend
  <2>3. UNCHANGED <<zone, devices, used>>
    BY <1>5 DEF DeleteBackend
  <2>4. /\ bound' \in [Backends -> Domains \cup {NULL}]
        /\ \A k \in Backends : bound'[k] # NULL => bound'[k] = bound[k]
        /\ \A k \in Backends \ {b} : bound'[k] = bound[k]
    BY <2>2 DEF RowsInv
  <2>5. ASSUME NEW h \in Live'
        PROVE  /\ host'[h] \in Row
               /\ zone'[host'[h].domain] # NULL
               /\ host'[h].device \in devices \cup {NULL}
               /\ \A k \in host'[h].selected : bound'[k] # NULL
    <3>1. h \in Live /\ host'[h] = [host[h] EXCEPT !.selected = @ \ {b}]
      BY <2>2 DEF Live, Cascaded
    <3>2. /\ host'[h] \in Row /\ host'[h].domain = host[h].domain
          /\ host'[h].device = host[h].device
          /\ host'[h].selected = host[h].selected \ {b}
      BY <3>1 DEF Row, RowsInv
    <3> QED BY <2>3, <2>4, <3>1, <3>2 DEF RowsInv, Row
  <2>6. host' = [h \in Hosts |-> host'[h]]
    BY <2>2 DEF Cascaded
  <2> QED BY <2>1, <2>3, <2>4, <2>5, <2>6 DEF RowsInv
<1> QED BY <1>1, <1>2, <1>3, <1>4, <1>5

-----------------------------------------------------------------------------
(* Devices and hostnames. *)

LEMMA DeviceStep ==
  ASSUME CatalogInv, NEW c \in Calls, CreateDevice(c) \/ DeleteDevice(c)
  PROVE  CatalogInv'
<1> USE CatalogAssumption DEF CatalogInv, CatalogAssumption
<1>1. CallsInv'
  BY CallsStay DEF CreateDevice, DeleteDevice, Overtakes
<1>2. CASE CreateDevice(c)
  <2>1. devices \subseteq devices' /\ devices' \subseteq Devices
    BY <1>2 DEF CreateDevice, RowsInv
  <2>2. used' \subseteq Ids
    BY <1>2 DEF CreateDevice, RowsInv, Ids
  <2>3. UNCHANGED <<zone, bound, host>>
    BY <1>2 DEF CreateDevice
  <2> QED BY <1>1, <2>1, <2>2, <2>3 DEF RowsInv, Live
<1>3. CASE DeleteDevice(c)
  <2>1. PICK v \in SeenDevices(c) :
           /\ devices' = devices \ {v}
           /\ host' = [h \in Hosts |->
                         IF host[h] # NULL /\ host[h].device = v
                         THEN [host[h] EXCEPT !.device = NULL] ELSE host[h]]
    BY <1>3 DEF DeleteDevice
  <2>2. UNCHANGED <<zone, bound, used>>
    BY <1>3 DEF DeleteDevice
  <2>3. ASSUME NEW h \in Live'
        PROVE  /\ host'[h] \in Row
               /\ zone[host'[h].domain] # NULL
               /\ host'[h].device \in devices' \cup {NULL}
               /\ \A b \in host'[h].selected : bound[b] # NULL
    <3>1. h \in Live /\ host[h] \in Row
      BY <2>1 DEF Live, RowsInv
    <3>2. CASE host[h].device = v
      <4>1. host'[h] = [host[h] EXCEPT !.device = NULL]
        BY <2>1, <3>1, <3>2 DEF Live
      <4>2. /\ host'[h] \in Row /\ host'[h].domain = host[h].domain
            /\ host'[h].device = NULL /\ host'[h].selected = host[h].selected
        BY <3>1, <4>1 DEF Row
      <4> QED BY <3>1, <4>2 DEF RowsInv
    <3>3. CASE host[h].device # v
      <4>1. host'[h] = host[h]
        BY <2>1, <3>1, <3>3 DEF Live
      <4>2. host[h].device \in devices' \cup {NULL}
        BY <2>1, <3>1, <3>3 DEF RowsInv
      <4> QED BY <3>1, <4>1, <4>2 DEF RowsInv
    <3> QED BY <3>2, <3>3
  <2>4. host' = [h \in Hosts |-> host'[h]]
    BY <2>1
  <2>5. devices' \subseteq Devices
    BY <2>1 DEF RowsInv
  <2> QED BY <1>1, <2>2, <2>3, <2>4, <2>5 DEF RowsInv
<1> QED BY <1>2, <1>3

(* A commit that writes one row, sound by itself, leaves the others.        *)
LEMMA OneRow ==
  ASSUME CatalogInv, NEW h \in Hosts, NEW row,
         host' = [host EXCEPT ![h] = row],
         UNCHANGED <<zone, bound, devices>>,
         used' \subseteq Ids,
         row \in Row, zone[row.domain] # NULL, row.device \in devices \cup {NULL},
         \A b \in row.selected : bound[b] # NULL
  PROVE  RowsInv'
  BY DEF CatalogInv, RowsInv, Live

LEMMA HostStep ==
  ASSUME CatalogInv, NEW c \in Calls,
         CommitCreate(c) \/ CommitAssign(c) \/ DeleteHostname(c) \/ CommitPublishing(c)
  PROVE  CatalogInv'
<1> USE DEF CatalogInv
<1>1. CASE CommitCreate(c)
  <2>1. CallsInv'
    BY <1>1, CallEnds DEF CommitCreate
  <2>2. call[c].row \in Row /\ call[c].row.selected = {}
    BY <1>1, RequestShape DEF CommitCreate, InFlight, CallsInv, Carries
  <2>3. PICK h \in Hosts \ used :
          /\ NameIsFree(call[c].row.name, h)
          /\ host' = [host EXCEPT ![h] = call[c].row]
          /\ used' = used \cup {h}
    BY <1>1 DEF CommitCreate
  <2>4. /\ zone[call[c].row.domain] # NULL
        /\ call[c].row.device \in devices \cup {NULL}
        /\ UNCHANGED <<zone, bound, devices>>
    BY <1>1 DEF CommitCreate
  <2>5. used' \subseteq Ids
    BY <2>3 DEF RowsInv, Ids
  <2> QED BY <2>1, <2>2, <2>3, <2>4, <2>5, OneRow
<1>2. CASE CommitAssign(c)
  <2> DEFINE h == call[c].host
             set == call[c].set
             row == Updated(host[h], set)
  <2>1. CallsInv'
    BY <1>2, CallEnds DEF CommitAssign
  <2>2. call[c] \in Requests /\ call[c].op = "assign" /\ Carries(call[c])
    BY <1>2 DEF CommitAssign, InFlight, CallsInv, Carries
  <2>3. /\ h \in Hosts /\ DOMAIN set \subseteq Columns
        /\ "domain" \in DOMAIN set => set["domain"] \in Domains
        /\ "name" \in DOMAIN set => set["name"] \in Names
        /\ "device" \in DOMAIN set => set["device"] \in Devices \cup {NULL}
    BY <2>2, RequestShape DEF Carries
  <2>4. /\ host[h] # NULL /\ zone[row.domain] # NULL
        /\ row.device \in devices \cup {NULL}
        /\ host' = [host EXCEPT ![h] = row]
        /\ UNCHANGED <<zone, bound, devices, used>>
    BY <1>2 DEF CommitAssign
  <2>5. host[h] \in Row /\ \A b \in host[h].selected : bound[b] # NULL
    BY <2>3, <2>4 DEF RowsInv, Live
  <2>6. row = [k \in DOMAIN host[h] |-> IF k \in DOMAIN set THEN set[k] ELSE host[h][k]]
    BY DEF Updated
  <2>7. row = [domain |-> row.domain, name |-> row.name,
               device |-> row.device, selected |-> row.selected]
    BY <2>3, <2>5, <2>6 DEF Row, Columns
  <2>8. /\ row.domain \in Domains /\ row.name \in Names
        /\ row.device \in Devices \cup {NULL} /\ row.selected = host[h].selected
    BY <2>3, <2>5, <2>6 DEF Row, Columns
  <2> HIDE DEF row
  <2>9. row \in Row
    BY <2>5, <2>7, <2>8 DEF Row
  <2>10. used' \subseteq Ids
    BY <2>4 DEF RowsInv
  <2> QED BY <2>1, <2>3, <2>4, <2>5, <2>8, <2>9, <2>10, OneRow
<1>3. CASE DeleteHostname(c)
  <2>1. CallsInv'
    BY <1>3, CallsStay DEF DeleteHostname, Overtakes
  <2>2. PICK g \in SeenHosts(c) : host' = Cascaded({g}, {})
    BY <1>3 DEF DeleteHostname
  <2>3. UNCHANGED <<zone, bound, devices, used>>
    BY <1>3 DEF DeleteHostname
  <2>4. ASSUME NEW h \in Live'
        PROVE  h \in Live /\ host'[h] = host[h]
    <3>1. h \in Live /\ host'[h] = [host[h] EXCEPT !.selected = @ \ {}]
      BY <2>2 DEF Live, Cascaded
    <3> QED BY <3>1 DEF RowsInv, Row
  <2>5. host' = [h \in Hosts |-> host'[h]]
    BY <2>2 DEF Cascaded
  <2> QED BY <2>1, <2>3, <2>4, <2>5 DEF RowsInv
<1>4. CASE CommitPublishing(c)
  <2> DEFINE h == call[c].host
             kept == host[h].selected \ call[c].cleared
  <2>1. CallsInv'
    BY <1>4, CallEnds DEF CommitPublishing
  <2>2. h \in Hosts /\ call[c].want \subseteq Backends
    BY <1>4, RequestShape DEF CommitPublishing, InFlight, CallsInv, Carries
  <2>3. /\ host[h] # NULL
        /\ \A b \in call[c].want : bound[b] # NULL
        /\ host' = [host EXCEPT ![h].selected = kept \cup call[c].want]
        /\ UNCHANGED <<zone, bound, devices, used>>
    BY <1>4 DEF CommitPublishing
  <2>4. /\ host[h] \in Row /\ zone[host[h].domain] # NULL
        /\ host[h].device \in devices \cup {NULL}
        /\ \A b \in host[h].selected : bound[b] # NULL
    BY <2>2, <2>3 DEF RowsInv, Live
  <2> DEFINE row == [host[h] EXCEPT !.selected = kept \cup call[c].want]
  <2>5. /\ row \in Row /\ row.domain = host[h].domain /\ row.device = host[h].device
        /\ row.selected = kept \cup call[c].want
    BY <2>2, <2>4 DEF Row
  <2>6. host' = [host EXCEPT ![h] = row]
    BY <2>3
  <2>7. \A b \in row.selected : bound[b] # NULL
    BY <2>3, <2>4, <2>5
  <2> HIDE DEF row
  <2>8. used' \subseteq Ids
    BY <2>3 DEF RowsInv
  <2>9. zone[row.domain] # NULL /\ row.device \in devices \cup {NULL}
    BY <2>4, <2>5
  <2>10. RowsInv'
    BY <2>2, <2>3, <2>5, <2>6, <2>7, <2>8, <2>9, OneRow
  <2> QED BY <2>1, <2>10
<1> QED BY <1>1, <1>2, <1>3, <1>4

LEMMA CatalogStep == CatalogInv /\ [Next]_vars => CatalogInv'
<1> SUFFICES ASSUME CatalogInv, [Next]_vars PROVE CatalogInv'
  OBVIOUS
<1>1. CASE UNCHANGED vars
  <2>1. RowsInv'
    BY <1>1, RowsStay DEF CatalogInv, vars
  <2>2. CallsInv'
    BY <1>1, CallsStay DEF CatalogInv, vars
  <2> QED BY <2>1, <2>2 DEF CatalogInv
<1>2. ASSUME NEW c \in Calls, Abort(c) PROVE CatalogInv'
  <2>1. RowsInv'
    BY <1>2, RowsStay DEF CatalogInv, Abort
  <2>2. CallsInv'
    BY <1>2, CallEnds DEF CatalogInv, Abort
  <2> QED BY <2>1, <2>2 DEF CatalogInv
<1> QED BY <1>1, <1>2, BeginStep, ZoneStep, DeviceStep, HostStep DEF Next

(* Every reference of a live row is live, and every variable has its type,  *)
(* whatever requests of whichever tenants race.                             *)
THEOREM CatalogTypeCorrect == Spec => []TypeOK
<1>1. Spec => []CatalogInv
  BY InitInv, CatalogStep, PTL DEF Spec
<1> QED BY <1>1, InvImpliesTypeOK, PTL

-----------------------------------------------------------------------------
(* Races.  What a request that no other one's commit has overtaken can      *)
(* count on: the rows of its tenant are as it read them, because whoever    *)
(* else could have changed them would have overtaken it.  OwnInv says it of *)
(* whose rows they are, JudgedInv of zones and names, PutInv of selections. *)
(* From them, the action properties of the catalogue: its bad states are    *)
(* reached by the races and requests they name, and by nothing else.        *)

(* A request in flight carries rows of its scope; one that no commit has    *)
(* overtaken finds the hostname in its scope still: whoever else could have *)
(* changed it would have overtaken it.  An id in use was allotted.          *)

Own(c, v) == v = NULL \/ InScope(c, v)

CarriesOwn(c) ==
  /\ InFlight(c, "rename") => InScope(c, call[c].domain)
  /\ InFlight(c, "create") =>
       InScope(c, call[c].row.domain) /\ Own(c, call[c].row.device)
  /\ InFlight(c, "assign") =>
       /\ call[c].host \in used
       /\ "domain" \in DOMAIN call[c].set => InScope(c, call[c].set["domain"])
       /\ "device" \in DOMAIN call[c].set => Own(c, call[c].set["device"])

FindsOwn(c) ==
  InFlight(c, "assign") /\ c \notin overtaken /\ host[call[c].host] # NULL =>
    /\ InScope(c, host[call[c].host].domain)
    /\ "device" \notin DOMAIN call[c].set => Own(c, host[call[c].host].device)

OwnInv ==
  /\ Live \subseteq used
  /\ \A b \in Backends : bound[b] # NULL => b \in used
  /\ \A d \in Domains : zone[d] # NULL => d \in used
  /\ \A c \in Calls : CarriesOwn(c) /\ FindsOwn(c)

(* What an assignment leaves of a row: its columns, or the row's.           *)
LEMMA UpdatedRow ==
  ASSUME CatalogInv, NEW c \in Calls, CommitAssign(c)
  PROVE  LET h == call[c].host
             set == call[c].set
         IN  /\ h \in Hosts /\ host[h] # NULL
             /\ host' = [host EXCEPT ![h] = host'[h]]
             /\ host'[h].domain = IF "domain" \in DOMAIN set THEN set["domain"] ELSE host[h].domain
             /\ host'[h].name = IF "name" \in DOMAIN set THEN set["name"] ELSE host[h].name
             /\ host'[h].device = IF "device" \in DOMAIN set THEN set["device"] ELSE host[h].device
             /\ host'[h].selected = host[h].selected
<1> DEFINE h == call[c].host
           set == call[c].set
<1>1. call[c] \in Requests /\ call[c].op = "assign"
  BY DEF CatalogInv, CommitAssign, InFlight, CallsInv, Carries
<1>2. h \in Hosts /\ DOMAIN set \subseteq Columns
  BY <1>1, RequestShape
<1>3. host[h] # NULL /\ host' = [host EXCEPT ![h] = Updated(host[h], set)]
  BY DEF CommitAssign
<1>4. host[h] \in Row
  BY <1>2, <1>3 DEF CatalogInv, RowsInv, Live
<1>5. host'[h] = Updated(host[h], set)
  BY <1>2, <1>3 DEF CatalogInv, RowsInv
<1>6. /\ Updated(host[h], set).domain
            = IF "domain" \in DOMAIN set THEN set["domain"] ELSE host[h].domain
      /\ Updated(host[h], set).name
            = IF "name" \in DOMAIN set THEN set["name"] ELSE host[h].name
      /\ Updated(host[h], set).device
            = IF "device" \in DOMAIN set THEN set["device"] ELSE host[h].device
      /\ Updated(host[h], set).selected = host[h].selected
  BY <1>2, <1>4 DEF Updated, Row, Columns
<1> QED BY <1>2, <1>3, <1>5, <1>6

(* Every other step that leaves a hostname leaves its domain and name, and  *)
(* its device or none.                                                      *)
Untouched(h) ==
  host'[h] # NULL =>
    /\ host[h] # NULL /\ host'[h].domain = host[h].domain
    /\ host'[h].name = host[h].name
    /\ host'[h].device \in {host[h].device, NULL}

Elsewhere(c) ==
  \/ CreateDomain(c) \/ RenameDomain(c) \/ CommitRename(c) \/ DeleteDomain(c)
  \/ CreateBackend(c) \/ DeleteBackend(c)
  \/ CreateDevice(c) \/ DeleteDevice(c)
  \/ CreateHostname(c) \/ DeleteHostname(c) \/ AssignHostname(c)
  \/ SetPublishing(c) \/ ClearSelection(c) \/ CommitPublishing(c) \/ Abort(c)

LEMMA OthersLeaveRows ==
  ASSUME CatalogInv, NEW c \in Calls, NEW h \in Hosts, Elsewhere(c)
  PROVE  Untouched(h)
<1>1. CASE UNCHANGED host
  BY <1>1 DEF Untouched
<1>2. ASSUME NEW G, NEW B, host' = Cascaded(G, B) PROVE Untouched(h)
  <2>1. CASE host'[h] = NULL
    BY <2>1 DEF Untouched
  <2>2. CASE host'[h] # NULL
    <3>1. host[h] # NULL /\ host'[h] = [host[h] EXCEPT !.selected = @ \ B]
      BY <1>2, <2>2 DEF Cascaded
    <3>2. host[h] \in Row
      BY <3>1 DEF CatalogInv, RowsInv, Live
    <3> QED BY <3>1, <3>2 DEF Row, Untouched
  <2> QED BY <2>1, <2>2
<1>3. CASE DeleteDevice(c)
  <2>1. PICK v \in SeenDevices(c) :
           host' = [g \in Hosts |->
                     IF host[g] # NULL /\ host[g].device = v
                     THEN [host[g] EXCEPT !.device = NULL] ELSE host[g]]
    BY <1>3 DEF DeleteDevice
  <2>2. CASE host[h] = NULL
    BY <2>1, <2>2 DEF Untouched
  <2>3. CASE host[h] # NULL
    <3>1. host[h] \in Row
      BY <2>3 DEF CatalogInv, RowsInv, Live
    <3>2. host'[h] = host[h] \/ host'[h] = [host[h] EXCEPT !.device = NULL]
      BY <2>1
    <3> QED BY <2>3, <3>1, <3>2 DEF Row, Untouched
  <2> QED BY <2>2, <2>3
<1>4. CASE CommitPublishing(c)
  <2>1. PICK S : host' = [host EXCEPT ![call[c].host].selected = S] /\ host[call[c].host] # NULL
    BY <1>4 DEF CommitPublishing
  <2>2. host'[h] = host[h] \/ (host[h] # NULL /\ host'[h] = [host[h] EXCEPT !.selected = S])
    BY <2>1 DEF CatalogInv, RowsInv
  <2>3. host[h] # NULL => host[h] \in Row
    BY DEF CatalogInv, RowsInv, Live
  <2> QED BY <2>2, <2>3 DEF Row, Untouched
<1> QED
  BY <1>1, <1>2, <1>3, <1>4
     DEF Elsewhere, CreateDomain, RenameDomain, CommitRename, DeleteDomain, CreateBackend,
         DeleteBackend, CreateDevice, CreateHostname, DeleteHostname, AssignHostname,
         SetPublishing, ClearSelection, Abort

Step(c) == Elsewhere(c) \/ CommitCreate(c) \/ CommitAssign(c)

(* A step of k changes no other request, and a request it does not overtake *)
(* was not overtaken before.                                                *)
LEMMA OtherCalls ==
  ASSUME CatalogInv, NEW k \in Calls, Step(k), NEW c \in Calls \ {k}
  PROVE  /\ call'[c] = call[c] /\ used \subseteq used'
         /\ c \notin overtaken' => c \notin overtaken
<1>1. used \subseteq used'
  BY DEF Step, Elsewhere, CreateDomain, RenameDomain, CommitRename, DeleteDomain,
         CreateBackend, DeleteBackend, CreateDevice, DeleteDevice, CreateHostname,
         CommitCreate, DeleteHostname, AssignHostname, CommitAssign, SetPublishing,
         ClearSelection, CommitPublishing, Abort
<1>2. call'[c] = call[c]
  BY DEF CatalogInv, CallsInv, Step, Elsewhere, CreateDomain, RenameDomain, CommitRename,
         DeleteDomain, CreateBackend, DeleteBackend, CreateDevice, DeleteDevice,
         CreateHostname, CommitCreate, DeleteHostname, AssignHostname, CommitAssign,
         SetPublishing, ClearSelection, CommitPublishing, Abort
<1>3. c \notin overtaken' => c \notin overtaken
  BY DEF Overtakes, Ends, Step, Elsewhere, CreateDomain, RenameDomain, CommitRename,
         DeleteDomain, CreateBackend, DeleteBackend, CreateDevice, DeleteDevice,
         CreateHostname, CommitCreate, DeleteHostname, AssignHostname, CommitAssign,
         SetPublishing, ClearSelection, CommitPublishing, Abort
<1> QED BY <1>1, <1>2, <1>3

LEMMA NotPassed ==
  ASSUME NEW k \in Calls, Overtakes(k), NEW c \in Calls \ {k},
         call[c] # NULL, c \notin overtaken'
  PROVE  k \notin overtaken /\ {c, k} \cap Admins = {} /\ Tenant[k] # Tenant[c]
  BY DEF Overtakes, Shares

LEMMA InUseIsUsed ==
  ASSUME CatalogInv, OwnInv, NEW k \in Calls, Step(k)
  PROVE  /\ (Live \subseteq used)'
         /\ \A b \in Backends : bound'[b] # NULL => b \in used'
         /\ \A d \in Domains : zone'[d] # NULL => d \in used'
<1>1. used \subseteq used'
  BY DEF Step, Elsewhere, CreateDomain, RenameDomain, CommitRename, DeleteDomain,
         CreateBackend, DeleteBackend, CreateDevice, DeleteDevice, CreateHostname,
         CommitCreate, DeleteHostname, AssignHostname, CommitAssign, SetPublishing,
         ClearSelection, CommitPublishing, Abort
<1>2. ASSUME NEW h \in Hosts, Untouched(h), host'[h] # NULL PROVE h \in used'
  BY <1>1, <1>2 DEF OwnInv, Untouched, Live
<1>3. CASE Elsewhere(k)
  <2>1. (Live \subseteq used)'
    BY <1>2, <1>3, OthersLeaveRows DEF Live
  <2>2. \A b \in Backends : bound'[b] # NULL => b \in used'
    <3>1. CASE CreateDomain(k)
      <4>1. PICK d \in Domains \ used, B \in SUBSET (Backends \ used) :
                /\ bound' = [b \in Backends |-> IF b \in B THEN d ELSE bound[b]]
                /\ used' = used \cup {d} \cup B
        BY <3>1 DEF CreateDomain
      <4> QED BY <4>1 DEF OwnInv
    <3>2. CASE CreateBackend(k)
      BY <3>2 DEF CreateBackend, OwnInv, CatalogInv, RowsInv
    <3>3. CASE DeleteDomain(k) \/ DeleteBackend(k)
      <4>1. \A b \in Backends : bound'[b] # NULL => bound[b] # NULL
        BY <3>3 DEF DeleteDomain, DeleteBackend, CatalogInv, RowsInv
      <4> QED BY <1>1, <4>1 DEF OwnInv
    <3>4. CASE UNCHANGED bound
      BY <1>1, <3>4 DEF OwnInv
    <3> QED BY <1>3, <3>1, <3>2, <3>3, <3>4
            DEF Elsewhere, RenameDomain, CommitRename, CreateDevice, DeleteDevice,
                CreateHostname, DeleteHostname, AssignHostname, SetPublishing,
                ClearSelection, CommitPublishing, Abort
  <2>3. \A d \in Domains : zone'[d] # NULL => d \in used'
    <3>1. CASE CreateDomain(k)
      <4>1. PICK d \in Domains \ used, z \in Zones :
                zone' = [zone EXCEPT ![d] = z] /\ d \in used'
        BY <3>1 DEF CreateDomain
      <4> QED BY <1>1, <4>1 DEF OwnInv, CatalogInv, RowsInv
    <3>2. CASE CommitRename(k) \/ DeleteDomain(k)
      <4>1. \A d \in Domains : zone'[d] # NULL => zone[d] # NULL
        BY <3>2 DEF CommitRename, DeleteDomain, CatalogInv, RowsInv
      <4> QED BY <1>1, <4>1 DEF OwnInv
    <3>3. CASE UNCHANGED zone
      BY <1>1, <3>3 DEF OwnInv
    <3> QED BY <1>3, <3>1, <3>2, <3>3
            DEF Elsewhere, RenameDomain, CreateBackend, DeleteBackend, CreateDevice,
                DeleteDevice, CreateHostname, DeleteHostname, AssignHostname, SetPublishing,
                ClearSelection, CommitPublishing, Abort
  <2> QED BY <2>1, <2>2, <2>3
<1>4. CASE CommitCreate(k)
  <2>0. UNCHANGED <<zone, bound>>
    BY <1>4 DEF CommitCreate
  <2>1. PICK h \in Hosts \ used : host' = [host EXCEPT ![h] = call[k].row] /\ used' = used \cup {h}
    BY <1>4 DEF CommitCreate
  <2> QED BY <1>1, <2>0, <2>1 DEF OwnInv, Live, CatalogInv, RowsInv
<1>5. CASE CommitAssign(k)
  <2>0. UNCHANGED <<zone, bound>>
    BY <1>5 DEF CommitAssign
  <2>1. host[call[k].host] # NULL /\ host' = [host EXCEPT ![call[k].host] = host'[call[k].host]]
    BY <1>5, UpdatedRow
  <2> QED BY <1>1, <2>0, <2>1 DEF OwnInv, Live, CatalogInv, RowsInv
<1> QED BY <1>3, <1>4, <1>5 DEF Step

(* A tenant's own step: it looks its rows up in its scope.                  *)
LEMMA BeginsOwn ==
  ASSUME CatalogInv, OwnInv, NEW c \in Calls, Step(c)
  PROVE  (CarriesOwn(c) /\ FindsOwn(c))'
<1>1. CASE CreateHostname(c)
  <2>1. PICK d \in SeenDomains(c), v \in SeenDevices(c) \cup {NULL}, n \in Names :
          call' = [call EXCEPT ![c] =
                     [op |-> "create",
                      row |-> [domain |-> d, name |-> n, device |-> v, selected |-> {}]]]
    BY <1>1 DEF CreateHostname
  <2>2. call'[c] = [op |-> "create",
                    row |-> [domain |-> d, name |-> n, device |-> v, selected |-> {}]]
    BY <2>1 DEF CatalogInv, CallsInv
  <2>3. InScope(c, d) /\ Own(c, v)
    BY DEF SeenDomains, SeenDevices, Own
  <2> QED BY <2>2, <2>3 DEF CarriesOwn, FindsOwn, InFlight, Own, InScope
<1>2. CASE AssignHostname(c)
  <2>1. PICK h \in SeenHosts(c), v \in SeenDevices(c) \cup {NULL},
             d \in Destinations(c), n \in Names \cup {NULL} :
          /\ MoveIsValid(h, d, n)
          /\ call' = [call EXCEPT ![c] = [op |-> "assign", host |-> h,
                                          set |-> Update(h, Wanted(h, v, d, n))]]
    BY <1>2 DEF AssignHostname
  <2> DEFINE wanted == Wanted(h, v, d, n)
             set == Update(h, wanted)
  <2>2. call'[c] = [op |-> "assign", host |-> h, set |-> set]
    BY <2>1 DEF CatalogInv, CallsInv
  <2>3. UNCHANGED <<host, used>>
    BY <1>2 DEF AssignHostname
  <2>4. h \in Live /\ h \in used /\ host[h] \in Row /\ InScope(c, host[h].domain)
    BY DEF SeenHosts, OwnInv, CatalogInv, RowsInv
  <2>5. Own(c, v) /\ (d # NULL => InScope(c, d))
    BY DEF SeenDevices, SeenDomains, Destinations, Own
  <2>6. wanted["device"] = v /\ InScope(c, wanted["domain"])
    BY <2>4, <2>5 DEF Wanted
  <2> HIDE DEF wanted
  <2>7. /\ \A k \in DOMAIN set : set[k] = wanted[k]
        /\ \A k \in Columns : k \notin DOMAIN set => wanted[k] = host[h][k]
    BY DEF Update
  <2>8. "device" \notin DOMAIN set => Own(c, host[h].device)
    BY <2>5, <2>6, <2>7 DEF Columns
  <2>9. /\ "domain" \in DOMAIN set => InScope(c, set["domain"])
        /\ "device" \in DOMAIN set => Own(c, set["device"])
    BY <2>5, <2>6, <2>7
  <2> HIDE DEF set
  <2> QED BY <2>2, <2>3, <2>4, <2>8, <2>9 DEF CarriesOwn, FindsOwn, InFlight, Own, InScope
<1>3. ASSUME call'[c] = NULL \/ call'[c].op = "publish"
      PROVE  (CarriesOwn(c) /\ FindsOwn(c))'
  BY <1>3 DEF CarriesOwn, FindsOwn, InFlight
<1>4. CASE CreateDomain(c) \/ DeleteDomain(c) \/ CreateBackend(c) \/ DeleteBackend(c)
             \/ CreateDevice(c) \/ DeleteDevice(c) \/ DeleteHostname(c)
  <2>1. call'[c] = NULL
    BY <1>4 DEF CreateDomain, DeleteDomain, CreateBackend, DeleteBackend, CreateDevice,
                DeleteDevice, DeleteHostname
  <2> QED BY <1>3, <2>1
<1>5. CASE CommitRename(c) \/ CommitCreate(c) \/ CommitAssign(c) \/ CommitPublishing(c)
             \/ Abort(c)
  <2>1. call'[c] = NULL
    BY <1>5 DEF CommitRename, CommitCreate, CommitAssign, CommitPublishing, Abort,
                CatalogInv, CallsInv
  <2> QED BY <1>3, <2>1
<1>6. CASE RenameDomain(c)
  <2>1. PICK d \in SeenDomains(c), z \in Zones :
          call' = [call EXCEPT ![c] = [op |-> "rename", domain |-> d, to |-> z]]
    BY <1>6 DEF RenameDomain
  <2>2. call'[c] = [op |-> "rename", domain |-> d, to |-> z]
    BY <2>1 DEF CatalogInv, CallsInv
  <2>3. InScope(c, d)
    BY DEF SeenDomains
  <2> QED BY <2>2, <2>3 DEF CarriesOwn, FindsOwn, InFlight, InScope
<1>7. CASE SetPublishing(c)
  <2>1. PICK r : r.op = "publish" /\ call' = [call EXCEPT ![c] = r]
    BY <1>7 DEF SetPublishing
  <2> QED BY <1>3, <2>1 DEF CatalogInv, CallsInv
<1>8. CASE ClearSelection(c)
  <2>1. call[c] \in Requests /\ call[c].op = "publish"
    BY <1>8 DEF ClearSelection, InFlight, CatalogInv, CallsInv, Carries
  <2>2. RowsOf(call[c].host) \in SUBSET Backends
    BY DEF RowsOf, CatalogInv, RowsInv, Row
  <2>3. call'[c] = [call[c] EXCEPT !.cleared = RowsOf(call[c].host)]
    BY <1>8 DEF ClearSelection, CatalogInv, CallsInv
  <2> QED BY <1>3, <2>1, <2>2, <2>3, RequestShape
<1> QED BY <1>1, <1>2, <1>4, <1>5, <1>6, <1>7, <1>8 DEF Step, Elsewhere

(* A step of another: what it could spoil, it overtakes.                    *)
LEMMA OthersKeepOwn ==
  ASSUME CatalogInv, OwnInv, NEW k \in Calls, Step(k), NEW c \in Calls, k # c
  PROVE  (CarriesOwn(c) /\ FindsOwn(c))'
<1>1. call'[c] = call[c] /\ used \subseteq used' /\ (c \notin overtaken' => c \notin overtaken)
  BY OtherCalls
<1>2. CarriesOwn(c) /\ FindsOwn(c)
  BY DEF OwnInv
<1>3. CarriesOwn(c)'
  BY <1>1, <1>2 DEF CarriesOwn, InFlight, Own, InScope
<1>4. ASSUME InFlight(c, "assign"), c \notin overtaken', host'[call[c].host] # NULL
      PROVE  /\ InScope(c, host'[call[c].host].domain)
             /\ "device" \notin DOMAIN call[c].set => Own(c, host'[call[c].host].device)
  <2> DEFINE h == call[c].host
  <2>1. h \in Hosts /\ h \in used /\ call[c] # NULL
    BY <1>2, <1>4, RequestShape DEF InFlight, CarriesOwn, CatalogInv, CallsInv, Carries
  <2>2. ASSUME Untouched(h)
        PROVE  /\ InScope(c, host'[h].domain)
               /\ "device" \notin DOMAIN call[c].set => Own(c, host'[h].device)
    BY <1>1, <1>2, <1>4, <2>2 DEF Untouched, FindsOwn, Own, InScope
  <2>3. CASE Elsewhere(k)
    BY <2>1, <2>2, <2>3, OthersLeaveRows
  <2>4. CASE CommitCreate(k)
    <3>1. PICK g \in Hosts \ used : host' = [host EXCEPT ![g] = call[k].row]
      BY <2>4 DEF CommitCreate
    <3>2. host'[h] = host[h]
      BY <2>1, <3>1 DEF CatalogInv, RowsInv
    <3> QED BY <1>4, <2>2, <3>2 DEF Untouched
  <2>5. CASE CommitAssign(k)
    <3> DEFINE g == call[k].host
    <3>1. /\ g \in Hosts /\ host[g] # NULL
          /\ host' = [host EXCEPT ![g] = host'[g]]
      BY <2>5, UpdatedRow
    <3>2. CASE g # h
      <4>1. host'[h] = host[h]
        BY <2>1, <3>1, <3>2 DEF CatalogInv, RowsInv
      <4> QED BY <1>4, <2>2, <4>1 DEF Untouched
    <3>3. CASE g = h
      <4>1. k \notin overtaken /\ {c, k} \cap Admins = {} /\ Tenant[k] # Tenant[c]
        BY <1>4, <2>1, <2>5, NotPassed DEF CommitAssign
      <4>2. InScope(k, host[g].domain)
        BY <2>5, <3>1, <4>1 DEF OwnInv, FindsOwn, CommitAssign
      <4>3. InScope(c, host[h].domain)
        BY <1>1, <1>2, <1>4, <3>1, <3>3 DEF FindsOwn
      <4> QED BY <3>3, <4>1, <4>2, <4>3 DEF InScope
    <3> QED BY <3>2, <3>3
  <2> QED BY <2>3, <2>4, <2>5 DEF Step
<1>5. FindsOwn(c)'
  BY <1>1, <1>4 DEF FindsOwn, InFlight, Own, InScope
<1> QED BY <1>3, <1>5

LEMMA InitOwn == Init => OwnInv
  BY DEF Init, OwnInv, Live, CarriesOwn, FindsOwn, InFlight

LEMMA NextIsStep == Next => \E k \in Calls : Step(k)
  BY DEF Next, Step, Elsewhere

LEMMA OwnStep == CatalogInv /\ OwnInv /\ [Next]_vars => OwnInv'
<1> SUFFICES ASSUME CatalogInv, OwnInv, [Next]_vars PROVE OwnInv'
  OBVIOUS
<1>1. CASE UNCHANGED vars
  BY <1>1 DEF vars, OwnInv, Live, CarriesOwn, FindsOwn, InFlight, Own, InScope
<1>2. CASE Next
  <2>1. PICK k \in Calls : Step(k)
    BY <1>2, NextIsStep
  <2>2. ASSUME NEW c \in Calls PROVE (CarriesOwn(c) /\ FindsOwn(c))'
    <3>1. CASE k = c
      BY <2>1, <3>1, BeginsOwn
    <3>2. CASE k # c
      BY <2>1, <3>2, OthersKeepOwn
    <3> QED BY <3>1, <3>2
  <2> QED BY <2>1, <2>2, InUseIsUsed DEF OwnInv
<1> QED BY <1>1, <1>2

LEMMA CrossedStep ==
  ASSUME CatalogInv, OwnInv, Next, NEW h \in Hosts, Crossed(h)', ~Crossed(h)
  PROVE  RaceEnds \/ \E c \in Admins : Commits(c)
<1>1. PICK k \in Calls : Step(k)
  BY NextIsStep
<1>2. host'[h] # NULL /\ host'[h].device # NULL
      /\ OwnerOf[host'[h].device] # OwnerOf[host'[h].domain]
  BY DEF Crossed, Live
<1>3. ~Untouched(h)
  BY <1>2 DEF Untouched, Crossed, Live
<1>4. CommitCreate(k) \/ CommitAssign(k)
  BY <1>1, <1>3, OthersLeaveRows DEF Step
<1>5. Commits(k)
  BY <1>4 DEF Commits, CommitCreate, CommitAssign, InFlight, CatalogInv, CallsInv
<1>6. CASE k \in Admins \/ k \in overtaken
  BY <1>5, <1>6 DEF RaceEnds
<1>7. CASE k \notin Admins /\ k \notin overtaken
  <2>1. CarriesOwn(k) /\ FindsOwn(k)
    BY <1>7 DEF OwnInv
  <2>2. CASE CommitCreate(k)
    <3>1. PICK g \in Hosts : host' = [host EXCEPT ![g] = call[k].row]
      BY <2>2 DEF CommitCreate
    <3>2. host'[h] = host[h] \/ host'[h] = call[k].row
      BY <3>1 DEF CatalogInv, RowsInv
    <3>3. host'[h] = call[k].row
      BY <1>2, <1>3, <3>2 DEF Untouched
    <3> QED BY <1>2, <1>7, <2>1, <2>2, <3>3 DEF CarriesOwn, CommitCreate, Own, InScope
  <2>3. CASE CommitAssign(k)
    <3> DEFINE g == call[k].host
               set == call[k].set
    <3>1. /\ g \in Hosts /\ host[g] # NULL
          /\ host' = [host EXCEPT ![g] = host'[g]]
          /\ host'[g].domain = IF "domain" \in DOMAIN set THEN set["domain"] ELSE host[g].domain
          /\ host'[g].device = IF "device" \in DOMAIN set THEN set["device"] ELSE host[g].device
      BY <2>3, UpdatedRow
    <3>2. g = h
      <4> SUFFICES ASSUME g # h PROVE FALSE
        OBVIOUS
      <4>1. host'[h] = host[h]
        BY <3>1 DEF CatalogInv, RowsInv
      <4> QED BY <1>2, <1>3, <4>1 DEF Untouched
    <3>3. InFlight(k, "assign")
      BY <2>3 DEF CommitAssign
    <3>4. InScope(k, host'[g].domain) /\ Own(k, host'[g].device)
      BY <1>7, <2>1, <3>1, <3>3 DEF CarriesOwn, FindsOwn
    <3> QED BY <1>2, <1>7, <3>2, <3>4 DEF Own, InScope
  <2> QED BY <1>4, <2>2, <2>3
<1> QED BY <1>6, <1>7

(* Only an administrator's request, or a request that another one's commit  *)
(* has overtaken, puts a name of one tenant on a device of another          *)
(* (create_hostname, assign_hostname).                                      *)
THEOREM OnlyAdminsCross == Spec => CrossedOnlyByAdmin
<1>1. CatalogInv /\ OwnInv /\ [Next]_vars =>
        [\A h \in Hosts : Crossed(h)' =>
           Crossed(h) \/ RaceEnds \/ \E c \in Admins : Commits(c)]_vars
  BY CrossedStep
<1>2. Spec => [](CatalogInv /\ OwnInv)
  BY InitInv, InitOwn, CatalogStep, OwnStep, PTL DEF Spec
<1> QED BY <1>1, <1>2, PTL DEF Spec, CrossedOnlyByAdmin

-----------------------------------------------------------------------------
(* Without moves, a pin names a binding of its hostname's zone for good: a  *)
(* binding never changes its zone, a hostname does not either, and what a   *)
(* PUT has checked stays bound there or is gone when it inserts.            *)

Pinned(h, b) == bound[b] \in {NULL, host[h].domain}

CarriesPins(c) ==
  /\ InFlight(c, "assign") => "domain" \notin DOMAIN call[c].set
  /\ InFlight(c, "publish") =>
       /\ call[c].host \in used /\ call[c].want \subseteq used
       /\ host[call[c].host] # NULL => \A b \in call[c].want : Pinned(call[c].host, b)

PinInv == ~Moves =>
  /\ \A h \in Live : \A b \in host[h].selected : Pinned(h, b)
  /\ \A c \in Calls : CarriesPins(c)

LEMMA BindingsStay ==
  ASSUME CatalogInv, NEW k \in Calls, Step(k), NEW b \in Backends, b \in used
  PROVE  bound'[b] \in {NULL, bound[b]}
<1>1. CASE CreateDomain(k)
  <2>1. PICK d \in Domains \ used, B \in SUBSET (Backends \ used) :
            bound' = [x \in Backends |-> IF x \in B THEN d ELSE bound[x]]
    BY <1>1 DEF CreateDomain
  <2> QED BY <2>1
<1>2. CASE CreateBackend(k) \/ DeleteDomain(k) \/ DeleteBackend(k)
  BY <1>2 DEF CreateBackend, DeleteDomain, DeleteBackend, CatalogInv, RowsInv
<1>3. CASE UNCHANGED bound
  BY <1>3
<1> QED BY <1>1, <1>2, <1>3
        DEF Step, Elsewhere, RenameDomain, CommitRename, CreateDevice, DeleteDevice,
            CreateHostname, CommitCreate, DeleteHostname, AssignHostname, CommitAssign,
            SetPublishing, ClearSelection, CommitPublishing, Abort

(* Where a hostname's selection after a step comes from.                    *)
LEMMA PinsComeFrom ==
  ASSUME CatalogInv, NEW k \in Calls, Step(k), NEW h \in Hosts, host'[h] # NULL,
         NEW b \in host'[h].selected
  PROVE  /\ host[h] # NULL
         /\ \/ b \in host[h].selected
            \/ CommitPublishing(k) /\ h = call[k].host /\ b \in call[k].want
<1>1. CASE UNCHANGED host
  BY <1>1
<1>2. host[h] # NULL => host[h] \in Row
  BY DEF CatalogInv, RowsInv, Live
<1>3. ASSUME NEW G, NEW B, host' = Cascaded(G, B) PROVE host[h] # NULL /\ b \in host[h].selected
  <2>1. host[h] # NULL /\ host'[h] = [host[h] EXCEPT !.selected = @ \ B]
    BY <1>3 DEF Cascaded
  <2> QED BY <1>2, <2>1 DEF Row
<1>4. CASE DeleteDevice(k)
  <2>1. PICK v \in SeenDevices(k) :
           host' = [g \in Hosts |->
                     IF host[g] # NULL /\ host[g].device = v
                     THEN [host[g] EXCEPT !.device = NULL] ELSE host[g]]
    BY <1>4 DEF DeleteDevice
  <2>2. host[h] # NULL /\ (host'[h] = host[h] \/ host'[h] = [host[h] EXCEPT !.device = NULL])
    BY <2>1
  <2> QED BY <1>2, <2>2 DEF Row
<1>5. CASE CommitPublishing(k)
  <2> DEFINE S == (host[call[k].host].selected \ call[k].cleared) \cup call[k].want
  <2>1. /\ host' = [host EXCEPT ![call[k].host].selected = S] /\ host[call[k].host] # NULL
        /\ InFlight(k, "publish")
    BY <1>5 DEF CommitPublishing
  <2>2. CASE h # call[k].host
    <3>1. host'[h] = host[h]
      BY <2>1, <2>2 DEF CatalogInv, RowsInv
    <3> QED BY <3>1
  <2>3. CASE h = call[k].host
    <3>1. host'[h] = [host[h] EXCEPT !.selected = S]
      BY <2>1, <2>3 DEF CatalogInv, RowsInv
    <3>2. host'[h].selected = S
      BY <1>2, <2>1, <2>3, <3>1 DEF Row
    <3> QED BY <1>5, <2>1, <2>3, <3>2
  <2> QED BY <2>2, <2>3
<1>6. CASE CommitCreate(k)
  <2>1. PICK g \in Hosts \ used : host' = [host EXCEPT ![g] = call[k].row]
    BY <1>6 DEF CommitCreate
  <2>2. call[k].row.selected = {}
    BY <1>6 DEF CommitCreate, InFlight, CatalogInv, CallsInv, Carries
  <2>3. host'[h] = host[h] \/ host'[h] = call[k].row
    BY <2>1 DEF CatalogInv, RowsInv
  <2> QED BY <2>2, <2>3
<1>7. CASE CommitAssign(k)
  <2> DEFINE g == call[k].host
  <2>1. /\ g \in Hosts /\ host[g] # NULL
        /\ host' = [host EXCEPT ![g] = host'[g]]
        /\ host'[g].selected = host[g].selected
    BY <1>7, UpdatedRow
  <2>2. CASE g = h
    BY <2>1, <2>2
  <2>3. CASE g # h
    <3>1. host'[h] = host[h]
      BY <2>1, <2>3 DEF CatalogInv, RowsInv
    <3> QED BY <3>1
  <2> QED BY <2>2, <2>3
<1> QED
  BY <1>1, <1>3, <1>4, <1>5, <1>6, <1>7
     DEF Step, Elsewhere, CreateDomain, RenameDomain, CommitRename, DeleteDomain,
         CreateBackend, DeleteBackend, CreateDevice, CreateHostname, DeleteHostname,
         AssignHostname, SetPublishing, ClearSelection, Abort

LEMMA HostsStay ==
  ASSUME CatalogInv, PinInv, ~Moves, NEW k \in Calls, Step(k),
         NEW h \in Hosts, h \in used, host'[h] # NULL
  PROVE  host[h] # NULL /\ host'[h].domain = host[h].domain
<1>1. CASE Elsewhere(k)
  BY <1>1, OthersLeaveRows DEF Untouched
<1>2. CASE CommitCreate(k)
  <2>1. PICK g \in Hosts \ used : host' = [host EXCEPT ![g] = call[k].row]
    BY <1>2 DEF CommitCreate
  <2> QED BY <2>1 DEF CatalogInv, RowsInv
<1>3. CASE CommitAssign(k)
  <2> DEFINE g == call[k].host
  <2>1. InFlight(k, "assign")
    BY <1>3 DEF CommitAssign
  <2>2. "domain" \notin DOMAIN call[k].set
    BY <2>1 DEF PinInv, CarriesPins
  <2>3. /\ g \in Hosts /\ host[g] # NULL
        /\ host' = [host EXCEPT ![g] = host'[g]]
        /\ host'[g].domain = host[g].domain
    BY <1>3, <2>2, UpdatedRow
  <2>4. g # h => host'[h] = host[h]
    BY <2>3 DEF CatalogInv, RowsInv
  <2> QED BY <2>3, <2>4
<1> QED BY <1>1, <1>2, <1>3 DEF Step

(* Setting what a PUT has cleared leaves the rest of the request.           *)
LEMMA PublishShape ==
  ASSUME NEW r \in Requests, r.op = "publish", NEW B
  PROVE  /\ [r EXCEPT !.cleared = B].op = "publish"
         /\ [r EXCEPT !.cleared = B].host = r.host
         /\ [r EXCEPT !.cleared = B].want = r.want
<1>1. r \in [op : {"publish"}, host : Hosts, want : SUBSET Backends,
             cleared : (SUBSET Backends) \cup {NULL}]
  BY DEF Requests
<1> QED BY <1>1

(* What a request that begins without moves carries.                        *)
LEMMA BeginsPinned ==
  ASSUME CatalogInv, OwnInv, PinInv, ~Moves, NEW c \in Calls, Step(c)
  PROVE  CarriesPins(c)'
<1>1. CASE AssignHostname(c)
  <2>1. PICK h \in SeenHosts(c), v \in SeenDevices(c) \cup {NULL},
             d \in Destinations(c), n \in Names \cup {NULL} :
          /\ MoveIsValid(h, d, n)
          /\ call' = [call EXCEPT ![c] = [op |-> "assign", host |-> h,
                                          set |-> Update(h, Wanted(h, v, d, n))]]
    BY <1>1 DEF AssignHostname
  <2>2. d = NULL
    BY DEF Destinations
  <2>3. call'[c] = [op |-> "assign", host |-> h, set |-> Update(h, Wanted(h, v, d, n))]
    BY <2>1 DEF CatalogInv, CallsInv
  <2>4. host[h] \in Row
    BY DEF SeenHosts, CatalogInv, RowsInv
  <2>5. Wanted(h, v, d, n)["domain"] = host[h]["domain"]
    BY <2>2, <2>4 DEF Wanted, Row
  <2>6. "domain" \notin DOMAIN Update(h, Wanted(h, v, d, n))
    BY <2>5 DEF Update
  <2> QED BY <2>3, <2>6 DEF CarriesPins, InFlight
<1>2. CASE SetPublishing(c)
  <2>0. PICK h \in SeenHosts(c) : \E B \in Requestable(h) :
          call' = [call EXCEPT ![c] = [op |-> "publish", host |-> h,
                                       want |-> B, cleared |-> NULL]]
    BY <1>2 DEF SetPublishing
  <2>1. PICK B \in Requestable(h) :
          call' = [call EXCEPT ![c] = [op |-> "publish", host |-> h,
                                       want |-> B, cleared |-> NULL]]
    BY <2>0
  <2>2. call'[c] = [op |-> "publish", host |-> h, want |-> B, cleared |-> NULL]
    BY <2>1 DEF CatalogInv, CallsInv
  <2>3. UNCHANGED <<host, used, bound>>
    BY <1>2 DEF SetPublishing
  <2>4. h \in Live /\ \A b \in B : b \in Backends /\ bound[b] = host[h].domain
    BY DEF SeenHosts, Requestable, BindingsOf
  <2>5. host[h].domain # NULL
    BY <2>4, CatalogAssumption DEF CatalogInv, RowsInv, Row, CatalogAssumption
  <2>6. h \in used /\ B \subseteq used
    BY <2>4, <2>5 DEF OwnInv
  <2> QED BY <2>2, <2>3, <2>4, <2>6 DEF CarriesPins, InFlight, Pinned
<1>3. CASE ClearSelection(c)
  <2>1. InFlight(c, "publish") /\ call'[c] = [call[c] EXCEPT !.cleared = RowsOf(call[c].host)]
        /\ UNCHANGED <<host, used, bound>>
    BY <1>3 DEF ClearSelection, CatalogInv, CallsInv
  <2>2. call[c] \in Requests /\ call[c].op = "publish"
    BY <2>1 DEF InFlight, CatalogInv, CallsInv, Carries
  <2>3. call'[c].op = "publish" /\ call'[c].host = call[c].host /\ call'[c].want = call[c].want
    BY <2>1, <2>2, PublishShape
  <2> QED BY <2>1, <2>3 DEF PinInv, CarriesPins, InFlight, Pinned
<1>4. CASE CreateHostname(c)
  <2>1. PICK r : r.op = "create" /\ call' = [call EXCEPT ![c] = r]
    BY <1>4 DEF CreateHostname
  <2> QED BY <2>1 DEF CarriesPins, InFlight, CatalogInv, CallsInv
<1>5. CASE RenameDomain(c)
  <2>1. PICK r : r.op = "rename" /\ call' = [call EXCEPT ![c] = r]
    BY <1>5 DEF RenameDomain
  <2> QED BY <2>1 DEF CarriesPins, InFlight, CatalogInv, CallsInv
<1>6. ASSUME call'[c] = NULL
      PROVE  CarriesPins(c)'
  BY <1>6 DEF CarriesPins, InFlight
<1>7. CASE CreateDomain(c) \/ DeleteDomain(c) \/ CreateBackend(c) \/ DeleteBackend(c)
             \/ CreateDevice(c) \/ DeleteDevice(c) \/ DeleteHostname(c)
  <2>1. call'[c] = NULL
    BY <1>7 DEF CreateDomain, DeleteDomain, CreateBackend, DeleteBackend, CreateDevice,
                DeleteDevice, DeleteHostname
  <2> QED BY <1>6, <2>1
<1>8. CASE CommitRename(c) \/ CommitCreate(c) \/ CommitAssign(c) \/ CommitPublishing(c)
             \/ Abort(c)
  <2>1. call'[c] = NULL
    BY <1>8 DEF CommitRename, CommitCreate, CommitAssign, CommitPublishing, Abort,
                CatalogInv, CallsInv
  <2> QED BY <1>6, <2>1
<1> QED BY <1>1, <1>2, <1>3, <1>4, <1>5, <1>7, <1>8 DEF Step, Elsewhere

LEMMA PinStep == CatalogInv /\ OwnInv /\ PinInv /\ [Next]_vars => PinInv'
<1> SUFFICES ASSUME CatalogInv, OwnInv, PinInv, [Next]_vars, ~Moves PROVE PinInv'
  BY DEF PinInv
<1>1. CASE UNCHANGED vars
  BY <1>1 DEF vars, PinInv, CarriesPins, Pinned, Live, InFlight
<1>2. CASE Next
  <2>1. PICK k \in Calls : Step(k)
    BY <1>2, NextIsStep
  <2>2. ASSUME NEW h \in Hosts, h \in used, host'[h] # NULL, NEW b \in Backends, b \in used,
               Pinned(h, b)
        PROVE  Pinned(h, b)'
    <3>1. host'[h].domain = host[h].domain
      BY <2>1, <2>2, HostsStay
    <3>2. bound'[b] \in {NULL, bound[b]}
      BY <2>1, <2>2, BindingsStay
    <3> QED BY <2>2, <3>1, <3>2 DEF Pinned
  <2>3. ASSUME NEW h \in Hosts, host'[h] # NULL, NEW b \in host'[h].selected
        PROVE  Pinned(h, b)'
    <3>1. /\ host[h] # NULL
          /\ \/ b \in host[h].selected
             \/ InFlight(k, "publish") /\ h = call[k].host /\ b \in call[k].want
      BY <2>1, <2>3, PinsComeFrom DEF CommitPublishing
    <3>2. h \in Live /\ h \in used
      BY <3>1 DEF Live, OwnInv
    <3>3. CASE b \in host[h].selected
      <4>1. b \in Backends /\ b \in used
        BY <3>2, <3>3 DEF CatalogInv, RowsInv, Row, OwnInv
      <4>2. Pinned(h, b)
        BY <3>2, <3>3 DEF PinInv
      <4> QED BY <2>2, <2>3, <3>2, <4>1, <4>2
    <3>4. CASE InFlight(k, "publish") /\ h = call[k].host /\ b \in call[k].want
      <4>1. b \in Backends
        BY <3>4, RequestShape DEF InFlight, CatalogInv, CallsInv, Carries
      <4>2. b \in used /\ Pinned(h, b)
        BY <3>1, <3>4 DEF PinInv, CarriesPins
      <4> QED BY <2>2, <2>3, <3>2, <4>1, <4>2
    <3> QED BY <3>1, <3>3, <3>4
  <2>4. ASSUME NEW c \in Calls
        PROVE  CarriesPins(c)'
    <3>1. CASE k = c
      BY <2>1, <3>1, BeginsPinned
    <3>2. CASE k # c
      <4>1. call'[c] = call[c] /\ used \subseteq used'
        BY <2>1, <3>2, OtherCalls
      <4>2. ASSUME InFlight(c, "publish"), host'[call[c].host] # NULL,
                   NEW b \in call[c].want
            PROVE  bound'[b] \in {NULL, host'[call[c].host].domain}
        <5>1. call[c].host \in Hosts /\ b \in Backends
          BY <4>2, RequestShape DEF InFlight, CatalogInv, CallsInv, Carries
        <5>2. call[c].host \in used /\ b \in used
          BY <4>2 DEF PinInv, CarriesPins
        <5>3. host[call[c].host] # NULL
          BY <2>1, <4>2, <5>1, <5>2, HostsStay
        <5>4. Pinned(call[c].host, b)
          BY <4>2, <5>3 DEF PinInv, CarriesPins
        <5> QED BY <2>2, <4>2, <5>1, <5>2, <5>4 DEF Pinned
      <4> QED BY <4>1, <4>2 DEF PinInv, CarriesPins, InFlight, Pinned
    <3> QED BY <3>1, <3>2
  <2> QED BY <2>3, <2>4 DEF PinInv, Live
<1> QED BY <1>1, <1>2

LEMMA PinnedIsNotStray == CatalogInv /\ PinInv => SelectionIsOfTheZone
<1> SUFFICES ASSUME CatalogInv, PinInv, ~Moves, NEW h \in Live
             PROVE  host[h].selected \subseteq BindingsOf(host[h].domain)
  BY DEF SelectionIsOfTheZone, Stray
<1>1. \A b \in host[h].selected : b \in Backends /\ bound[b] # NULL
  BY DEF CatalogInv, RowsInv, Row
<1> QED BY <1>1 DEF PinInv, Pinned, BindingsOf

(* Without moves a hostname is only ever pinned to bindings of the zone it  *)
(* is in, whatever PUTs, unbindings and deletes pass each other (models.py  *)
(* HostnameBackend, set_hostname_publishing).                               *)
THEOREM PinsAreOfTheZone == Spec => []SelectionIsOfTheZone
<1>1. Init => PinInv
  BY DEF Init, PinInv, CarriesPins, Live, InFlight
<1>2. Spec => [](CatalogInv /\ OwnInv /\ PinInv)
  BY <1>1, InitInv, InitOwn, CatalogStep, OwnStep, PinStep, PTL DEF Spec
<1> QED BY <1>2, PinnedIsNotStray, PTL

-----------------------------------------------------------------------------
(* What a request has judged of zones and names is still so when it         *)
(* commits, unless it was overtaken: the zones and hostnames it judged are  *)
(* of its tenant, and another tenant's request changes only its own.        *)

Result(h, set, column) == IF column \in DOMAIN set THEN set[column] ELSE host[h][column]

Judged(c) ==
  c \notin overtaken =>
    /\ InFlight(c, "rename") =>
         \A h \in HostsOf(call[c].domain) : <<call[c].to, host[h].name>> \in Contains
    /\ InFlight(c, "create") =>
         <<zone[call[c].row.domain], call[c].row.name>> \in Contains
    /\ InFlight(c, "assign") /\ host[call[c].host] # NULL
         /\ DOMAIN call[c].set \cap {"domain", "name"} # {} =>
         << zone[Result(call[c].host, call[c].set, "domain")],
            Result(call[c].host, call[c].set, "name") >> \in Contains

(* A request none has overtaken, of a caller who is no administrator,       *)
(* changes zones and hostnames of its own tenant only.                      *)
LEMMA ChangesOwnZones ==
  ASSUME CatalogInv, OwnInv, NEW k \in Calls \ Admins, k \notin overtaken, Step(k),
         NEW d \in Domains, zone'[d] # zone[d]
  PROVE  OwnerOf[d] = Tenant[k]
<1>1. CASE CreateDomain(k)
  BY <1>1 DEF CreateDomain, CatalogInv, RowsInv
<1>2. CASE DeleteDomain(k)
  BY <1>2 DEF DeleteDomain, SeenDomains, InScope, CatalogInv, RowsInv
<1>3. CASE CommitRename(k)
  <2>1. d = call[k].domain /\ InFlight(k, "rename")
    BY <1>3 DEF CommitRename, CatalogInv, RowsInv
  <2> QED BY <2>1 DEF OwnInv, CarriesOwn, InScope
<1>4. CASE UNCHANGED zone
  BY <1>4
<1> QED BY <1>1, <1>2, <1>3, <1>4
        DEF Step, Elsewhere, RenameDomain, CreateBackend, DeleteBackend, CreateDevice,
            DeleteDevice, CreateHostname, CommitCreate, DeleteHostname, AssignHostname,
            CommitAssign, SetPublishing, ClearSelection, CommitPublishing, Abort

LEMMA ChangesOwnHosts ==
  ASSUME CatalogInv, OwnInv, NEW k \in Calls \ Admins, k \notin overtaken, Step(k),
         NEW h \in Hosts, ~Untouched(h)
  PROVE  /\ OwnerOf[host'[h].domain] = Tenant[k]
         /\ host[h] = NULL => h \notin used
         /\ host[h] # NULL => OwnerOf[host[h].domain] = Tenant[k]
<1>1. CASE Elsewhere(k)
  BY <1>1, OthersLeaveRows
<1>2. CASE CommitCreate(k)
  <2>1. PICK g \in Hosts \ used : host' = [host EXCEPT ![g] = call[k].row]
    BY <1>2 DEF CommitCreate
  <2>2. g = h
    BY <2>1 DEF CatalogInv, RowsInv, Untouched
  <2>3. host'[h] = call[k].row /\ h \notin used
    BY <2>1, <2>2 DEF CatalogInv, RowsInv
  <2>4. host[h] = NULL
    BY <2>3 DEF OwnInv, Live
  <2> QED BY <1>2, <2>3, <2>4 DEF OwnInv, CarriesOwn, CommitCreate, InScope
<1>3. CASE CommitAssign(k)
  <2> DEFINE g == call[k].host
             set == call[k].set
  <2>1. /\ g \in Hosts /\ host[g] # NULL
        /\ host' = [host EXCEPT ![g] = host'[g]]
        /\ host'[g].domain = IF "domain" \in DOMAIN set THEN set["domain"] ELSE host[g].domain
    BY <1>3, UpdatedRow
  <2>2. g = h
    <3> SUFFICES ASSUME g # h PROVE FALSE
      OBVIOUS
    <3>1. host'[h] = host[h]
      BY <2>1 DEF CatalogInv, RowsInv
    <3> QED BY <3>1 DEF Untouched
  <2>3. InFlight(k, "assign")
    BY <1>3 DEF CommitAssign
  <2>4. InScope(k, host[g].domain) /\ InScope(k, host'[g].domain)
    BY <2>1, <2>3 DEF OwnInv, CarriesOwn, FindsOwn
  <2> QED BY <2>1, <2>2, <2>4 DEF InScope
<1> QED BY <1>1, <1>2, <1>3 DEF Step

LEMMA BeginsJudged ==
  ASSUME CatalogInv, OwnInv, NEW c \in Calls, Step(c)
  PROVE  Judged(c)'
<1>1. CASE AssignHostname(c)
  <2>1. PICK h \in SeenHosts(c), v \in SeenDevices(c) \cup {NULL},
             d \in Destinations(c), n \in Names \cup {NULL} :
          /\ MoveIsValid(h, d, n)
          /\ call' = [call EXCEPT ![c] = [op |-> "assign", host |-> h,
                                          set |-> Update(h, Wanted(h, v, d, n))]]
    BY <1>1 DEF AssignHostname
  <2> DEFINE wanted == Wanted(h, v, d, n)
             set == Update(h, wanted)
  <2>2. call'[c] = [op |-> "assign", host |-> h, set |-> set]
    BY <2>1 DEF CatalogInv, CallsInv
  <2>3. UNCHANGED <<host, zone>>
    BY <1>1 DEF AssignHostname
  <2>4. /\ wanted["domain"] = IF d = NULL THEN host[h].domain ELSE d
        /\ wanted["name"] = IF n = NULL THEN host[h].name ELSE n
    BY DEF Wanted
  <2>5. (d # NULL \/ n # NULL) => <<zone[wanted["domain"]], wanted["name"]>> \in Contains
    BY <2>1, <2>4 DEF MoveIsValid
  <2>6. wanted["domain"] # host[h]["domain"] \/ wanted["name"] # host[h]["name"]
          => d # NULL \/ n # NULL
    BY <2>4
  <2> HIDE DEF wanted
  <2>7. /\ "domain" \in DOMAIN set <=> wanted["domain"] # host[h]["domain"]
        /\ "name" \in DOMAIN set <=> wanted["name"] # host[h]["name"]
        /\ \A k \in DOMAIN set : set[k] = wanted[k]
    BY DEF Update, Columns
  <2>8. Result(h, set, "domain") = wanted["domain"] /\ Result(h, set, "name") = wanted["name"]
    BY <2>7 DEF Result
  <2>9. DOMAIN set \cap {"domain", "name"} # {} =>
          <<zone[Result(h, set, "domain")], Result(h, set, "name")>> \in Contains
    BY <2>5, <2>6, <2>7, <2>8
  <2> HIDE DEF set
  <2> QED BY <2>2, <2>3, <2>9 DEF Judged, InFlight, Result
<1>2. CASE CreateHostname(c)
  <2>1. PICK d \in SeenDomains(c), v \in SeenDevices(c) \cup {NULL}, n \in Names :
          /\ <<zone[d], n>> \in Contains
          /\ call' = [call EXCEPT ![c] =
                        [op |-> "create",
                         row |-> [domain |-> d, name |-> n, device |-> v, selected |-> {}]]]
    BY <1>2 DEF CreateHostname
  <2>2. call'[c] = [op |-> "create",
                    row |-> [domain |-> d, name |-> n, device |-> v, selected |-> {}]]
    BY <2>1 DEF CatalogInv, CallsInv
  <2>3. zone' = zone
    BY <1>2 DEF CreateHostname
  <2> QED BY <2>1, <2>2, <2>3 DEF Judged, InFlight
<1>3. CASE RenameDomain(c)
  <2>1. PICK d \in SeenDomains(c), z \in Zones :
          /\ \A h \in HostsOf(d) : <<z, host[h].name>> \in Contains
          /\ call' = [call EXCEPT ![c] = [op |-> "rename", domain |-> d, to |-> z]]
    BY <1>3 DEF RenameDomain
  <2>2. call'[c] = [op |-> "rename", domain |-> d, to |-> z]
    BY <2>1 DEF CatalogInv, CallsInv
  <2>3. host' = host
    BY <1>3 DEF RenameDomain
  <2> QED BY <2>1, <2>2, <2>3 DEF Judged, InFlight, HostsOf, Live
<1>4. ASSUME call'[c] = NULL \/ call'[c].op = "publish"
      PROVE  Judged(c)'
  BY <1>4 DEF Judged, InFlight
<1>5. CASE CreateDomain(c) \/ DeleteDomain(c) \/ CreateBackend(c) \/ DeleteBackend(c)
             \/ CreateDevice(c) \/ DeleteDevice(c) \/ DeleteHostname(c)
  <2>1. call'[c] = NULL
    BY <1>5 DEF CreateDomain, DeleteDomain, CreateBackend, DeleteBackend, CreateDevice,
                DeleteDevice, DeleteHostname
  <2> QED BY <1>4, <2>1
<1>6. CASE CommitRename(c) \/ CommitCreate(c) \/ CommitAssign(c) \/ CommitPublishing(c)
             \/ Abort(c)
  <2>1. call'[c] = NULL
    BY <1>6 DEF CommitRename, CommitCreate, CommitAssign, CommitPublishing, Abort,
                CatalogInv, CallsInv
  <2> QED BY <1>4, <2>1
<1>7. CASE SetPublishing(c)
  <2>1. PICK r : r.op = "publish" /\ call' = [call EXCEPT ![c] = r]
    BY <1>7 DEF SetPublishing
  <2> QED BY <1>4, <2>1 DEF CatalogInv, CallsInv
<1>8. CASE ClearSelection(c)
  <2>1. InFlight(c, "publish") /\ call'[c] = [call[c] EXCEPT !.cleared = RowsOf(call[c].host)]
    BY <1>8 DEF ClearSelection, CatalogInv, CallsInv
  <2>2. call[c] \in Requests /\ call[c].op = "publish"
    BY <2>1 DEF InFlight, CatalogInv, CallsInv, Carries
  <2> QED BY <1>4, <2>1, <2>2, PublishShape
<1> QED BY <1>1, <1>2, <1>3, <1>5, <1>6, <1>7, <1>8 DEF Step, Elsewhere

(* A step either overtakes, or changes neither a zone nor a hostname.       *)
LEMMA OvertakesOrReads ==
  ASSUME NEW k \in Calls, Step(k)
  PROVE  Overtakes(k) \/ UNCHANGED <<zone, host>>
  BY DEF Step, Elsewhere, CreateDomain, RenameDomain, CommitRename, DeleteDomain,
         CreateBackend, DeleteBackend, CreateDevice, DeleteDevice, CreateHostname,
         CommitCreate, DeleteHostname, AssignHostname, CommitAssign, SetPublishing,
         ClearSelection, CommitPublishing, Abort

LEMMA OthersKeepJudged ==
  ASSUME CatalogInv, OwnInv, NEW k \in Calls, Step(k), NEW c \in Calls, k # c, Judged(c)
  PROVE  Judged(c)'
<1> SUFFICES ASSUME c \notin overtaken', call[c] # NULL PROVE Judged(c)'
  BY OtherCalls DEF Judged, InFlight
<1>1. call'[c] = call[c] /\ c \notin overtaken
  BY OtherCalls
<1>2. CASE UNCHANGED <<zone, host>>
  BY <1>1, <1>2 DEF Judged, InFlight, HostsOf, Live, Result
<1>3. CASE Overtakes(k)
  <2>1. k \notin overtaken /\ {c, k} \cap Admins = {} /\ Tenant[k] # Tenant[c]
    BY <1>3, NotPassed
  <2>2. ASSUME NEW d \in Domains, OwnerOf[d] = Tenant[c] PROVE zone'[d] = zone[d]
    BY <2>1, <2>2, ChangesOwnZones
  <2>3. ASSUME NEW h \in Hosts, host'[h] # NULL,
               \/ OwnerOf[host'[h].domain] = Tenant[c]
               \/ h \in used /\ (host[h] # NULL => OwnerOf[host[h].domain] = Tenant[c])
        PROVE  /\ host[h] # NULL
               /\ host'[h].domain = host[h].domain /\ host'[h].name = host[h].name
    <3>1. Untouched(h)
      BY <2>1, <2>3, ChangesOwnHosts
    <3> QED BY <2>3, <3>1 DEF Untouched
  <2>4. CarriesOwn(c) /\ FindsOwn(c)
    BY DEF OwnInv
  <2>5. ASSUME InFlight(c, "rename"), NEW h \in Hosts, host'[h] # NULL,
               host'[h].domain = call[c].domain
        PROVE  <<call[c].to, host'[h].name>> \in Contains
    <3>1. OwnerOf[host'[h].domain] = Tenant[c]
      BY <2>1, <2>4, <2>5 DEF CarriesOwn, InScope
    <3>2. host[h] # NULL /\ host'[h].domain = host[h].domain /\ host'[h].name = host[h].name
      BY <2>3, <2>5, <3>1
    <3> QED BY <1>1, <2>5, <3>2 DEF Judged, HostsOf, Live
  <2>6. ASSUME InFlight(c, "create")
        PROVE  <<zone'[call[c].row.domain], call[c].row.name>> \in Contains
    <3>1. call[c].row.domain \in Domains
      BY <2>6, RequestShape DEF InFlight, CatalogInv, CallsInv, Carries, Row
    <3>2. OwnerOf[call[c].row.domain] = Tenant[c]
      BY <2>1, <2>4, <2>6 DEF CarriesOwn, InScope
    <3> QED BY <1>1, <2>2, <2>6, <3>1, <3>2 DEF Judged
  <2>7. ASSUME InFlight(c, "assign"), host'[call[c].host] # NULL,
               DOMAIN call[c].set \cap {"domain", "name"} # {}
        PROVE  << zone'[IF "domain" \in DOMAIN call[c].set THEN call[c].set["domain"]
                        ELSE host'[call[c].host]["domain"]],
                  IF "name" \in DOMAIN call[c].set THEN call[c].set["name"]
                  ELSE host'[call[c].host]["name"] >> \in Contains
    <3>1. call[c].host \in Hosts /\ call[c].host \in used
      BY <2>4, <2>7, RequestShape DEF InFlight, CatalogInv, CallsInv, Carries, CarriesOwn
    <3>2. host[call[c].host] # NULL => OwnerOf[host[call[c].host].domain] = Tenant[c]
      BY <1>1, <2>1, <2>4, <2>7 DEF FindsOwn, InScope
    <3>3. /\ host[call[c].host] # NULL
          /\ host'[call[c].host].domain = host[call[c].host].domain
          /\ host'[call[c].host].name = host[call[c].host].name
      BY <2>3, <2>7, <3>1, <3>2
    <3>4. Result(call[c].host, call[c].set, "domain") \in Domains
          /\ OwnerOf[Result(call[c].host, call[c].set, "domain")] = Tenant[c]
      <4>1. CASE "domain" \in DOMAIN call[c].set
        BY <2>1, <2>4, <2>7, <4>1
           DEF Result, CarriesOwn, InScope, InFlight, CatalogInv, CallsInv, Carries
      <4>2. CASE "domain" \notin DOMAIN call[c].set
        BY <3>1, <3>2, <3>3, <4>2 DEF Result, CatalogInv, RowsInv, Live, Row
      <4> QED BY <4>1, <4>2
    <3>5. zone'[Result(call[c].host, call[c].set, "domain")]
            = zone[Result(call[c].host, call[c].set, "domain")]
      BY <2>2, <3>4
    <3>6. << zone[Result(call[c].host, call[c].set, "domain")],
             Result(call[c].host, call[c].set, "name") >> \in Contains
      BY <1>1, <2>7, <3>3 DEF Judged
    <3> QED BY <3>3, <3>5, <3>6 DEF Result
  <2> QED BY <1>1, <2>5, <2>6, <2>7 DEF Judged, InFlight, HostsOf, Live, Result
<1> QED BY <1>2, <1>3, OvertakesOrReads

JudgedInv == \A c \in Calls : Judged(c)

LEMMA JudgedStep == CatalogInv /\ OwnInv /\ JudgedInv /\ [Next]_vars => JudgedInv'
<1> SUFFICES ASSUME CatalogInv, OwnInv, JudgedInv, [Next]_vars, NEW c \in Calls
             PROVE  Judged(c)'
  BY DEF JudgedInv
<1>1. CASE UNCHANGED vars
  BY <1>1 DEF vars, JudgedInv, Judged, HostsOf, Live, InFlight, Result
<1>2. CASE Next
  <2>1. PICK k \in Calls : Step(k)
    BY <1>2, NextIsStep
  <2> QED BY <2>1, BeginsJudged, OthersKeepJudged DEF JudgedInv
<1> QED BY <1>1, <1>2

LEMMA OutsideStep ==
  ASSUME CatalogInv, OwnInv, JudgedInv, Next, NEW h \in Hosts, Outside(h)', ~Outside(h)
  PROVE  RaceEnds
<1>1. PICK k \in Calls : Step(k)
  BY NextIsStep
<1>2. host'[h] # NULL /\ <<zone'[host'[h].domain], host'[h].name>> \notin Contains
  BY DEF Outside, Live
<1>3. Untouched(h) =>
        /\ host[h] # NULL /\ host'[h].domain = host[h].domain /\ host'[h].name = host[h].name
        /\ zone'[host[h].domain] # zone[host[h].domain]
  BY <1>2 DEF Untouched, Outside, Live
<1>4. host[h] # NULL => host[h].domain \in Domains /\ host[h].domain \in used
  BY DEF CatalogInv, RowsInv, Live, Row, OwnInv
<1>5. CASE CommitRename(k)
  <2>1. Untouched(h)
    BY <1>5, OthersLeaveRows DEF Elsewhere
  <2>2. /\ host[h].domain = call[k].domain
        /\ zone'[host[h].domain] = call[k].to
    BY <1>3, <1>4, <1>5, <2>1 DEF CommitRename, CatalogInv, RowsInv
  <2>3. Judged(k) /\ InFlight(k, "rename") /\ Commits(k)
    BY <1>5 DEF JudgedInv, CommitRename, InFlight, Commits, CatalogInv, CallsInv
  <2> QED BY <1>2, <1>3, <2>1, <2>2, <2>3 DEF Judged, HostsOf, Live, RaceEnds
<1>6. CASE CreateDomain(k) \/ DeleteDomain(k)
  <2>1. Untouched(h)
    BY <1>6, OthersLeaveRows DEF Elsewhere
  <2>2. CASE CreateDomain(k)
    BY <1>3, <1>4, <2>1, <2>2 DEF CreateDomain, CatalogInv, RowsInv
  <2>3. CASE DeleteDomain(k)
    <3>1. PICK d \in Domains : /\ zone' = [zone EXCEPT ![d] = NULL]
                               /\ host' = Cascaded(HostsOf(d), BindingsOf(d))
      BY <2>3 DEF DeleteDomain, SeenDomains
    <3>2. host[h].domain # d
      BY <1>2, <3>1 DEF Cascaded, HostsOf, Live
    <3> QED BY <1>3, <2>1, <3>1, <3>2 DEF CatalogInv, RowsInv
  <2> QED BY <1>6, <2>2, <2>3
<1>7. CASE CommitCreate(k)
  <2>1. PICK g \in Hosts : host' = [host EXCEPT ![g] = call[k].row]
    BY <1>7 DEF CommitCreate
  <2>2. zone' = zone
    BY <1>7 DEF CommitCreate
  <2>3. host'[h] = call[k].row
    BY <1>3, <2>1, <2>2 DEF CatalogInv, RowsInv, Untouched
  <2>4. Judged(k) /\ InFlight(k, "create") /\ Commits(k)
    BY <1>7 DEF JudgedInv, CommitCreate, InFlight, Commits, CatalogInv, CallsInv
  <2> QED BY <1>2, <2>2, <2>3, <2>4 DEF Judged, RaceEnds
<1>8. CASE CommitAssign(k)
  <2> DEFINE g == call[k].host
             set == call[k].set
  <2>1. /\ g \in Hosts /\ host[g] # NULL
        /\ host' = [host EXCEPT ![g] = host'[g]]
        /\ host'[g].domain = IF "domain" \in DOMAIN set THEN set["domain"] ELSE host[g].domain
        /\ host'[g].name = IF "name" \in DOMAIN set THEN set["name"] ELSE host[g].name
    BY <1>8, UpdatedRow
  <2>2. zone' = zone
    BY <1>8 DEF CommitAssign
  <2>3. Judged(k) /\ InFlight(k, "assign") /\ Commits(k)
    BY <1>8 DEF JudgedInv, CommitAssign, InFlight, Commits, CatalogInv, CallsInv
  <2>4. g = h
    <3> SUFFICES ASSUME g # h PROVE FALSE
      OBVIOUS
    <3>1. host'[h] = host[h]
      BY <2>1 DEF CatalogInv, RowsInv
    <3> QED BY <1>2, <2>2, <3>1 DEF Outside, Live
  <2>5. DOMAIN set \cap {"domain", "name"} # {}
    BY <1>2, <2>1, <2>2, <2>4 DEF Outside, Live
  <2>6. host'[g].domain = Result(g, set, "domain") /\ host'[g].name = Result(g, set, "name")
    BY <2>1 DEF Result
  <2>7. k \notin overtaken =>
          <<zone[Result(g, set, "domain")], Result(g, set, "name")>> \in Contains
    BY <2>1, <2>3, <2>5 DEF Judged
  <2> QED BY <1>2, <2>2, <2>3, <2>4, <2>6, <2>7 DEF RaceEnds
<1>9. CASE UNCHANGED zone /\ Elsewhere(k)
  BY <1>3, <1>9, OthersLeaveRows
<1> QED
  BY <1>1, <1>5, <1>6, <1>7, <1>8, <1>9
     DEF Step, Elsewhere, RenameDomain, CreateBackend, DeleteBackend, CreateDevice,
         DeleteDevice, CreateHostname, DeleteHostname, AssignHostname, SetPublishing,
         ClearSelection, CommitPublishing, Abort

(* A hostname gets outside its zone only by the commit of a request that    *)
(* another one's commit has overtaken: a rename, a create and a move that   *)
(* meet nobody never do it (rename_domain, create_hostname,                 *)
(* assign_hostname).                                                        *)
THEOREM OutsideOnlyByRaces == Spec => StaysInZone
<1>1. CatalogInv /\ OwnInv /\ JudgedInv /\ [Next]_vars =>
        [\A h \in Hosts : Outside(h)' => Outside(h) \/ RaceEnds]_vars
  BY OutsideStep
<1>2. Init => JudgedInv
  BY DEF Init, JudgedInv, Judged, InFlight
<1>3. Spec => [](CatalogInv /\ OwnInv /\ JudgedInv)
  BY <1>2, InitInv, InitOwn, CatalogStep, OwnStep, JudgedStep, PTL DEF Spec
<1> QED BY <1>1, <1>3, PTL DEF Spec, StaysInZone

-----------------------------------------------------------------------------
(* A PUT: the ids it has checked are still bindings of the hostname's zone  *)
(* or gone, and what it has cleared is all the selection there is, unless   *)
(* it was overtaken.                                                        *)

PutFinds(c) ==
  InFlight(c, "publish") =>
    /\ call[c].host \in used /\ call[c].want \subseteq used
    /\ c \notin overtaken /\ host[call[c].host] # NULL =>
         /\ InScope(c, host[call[c].host].domain)
         /\ \A b \in call[c].want : Pinned(call[c].host, b)
         /\ call[c].cleared # NULL => host[call[c].host].selected \subseteq call[c].cleared

PutInv == \A c \in Calls : PutFinds(c)

LEMMA BeginsPut ==
  ASSUME CatalogInv, OwnInv, PutInv, NEW c \in Calls, Step(c)
  PROVE  PutFinds(c)'
<1>1. CASE SetPublishing(c)
  <2>0. PICK h \in SeenHosts(c) : \E B \in Requestable(h) :
          call' = [call EXCEPT ![c] = [op |-> "publish", host |-> h,
                                       want |-> B, cleared |-> NULL]]
    BY <1>1 DEF SetPublishing
  <2>1. PICK B \in Requestable(h) :
          call' = [call EXCEPT ![c] = [op |-> "publish", host |-> h,
                                       want |-> B, cleared |-> NULL]]
    BY <2>0
  <2>2. call'[c] = [op |-> "publish", host |-> h, want |-> B, cleared |-> NULL]
    BY <2>1 DEF CatalogInv, CallsInv
  <2>3. UNCHANGED <<host, used, bound>>
    BY <1>1 DEF SetPublishing
  <2>4. /\ h \in Live /\ InScope(c, host[h].domain)
        /\ \A b \in B : b \in Backends /\ bound[b] = host[h].domain
    BY DEF SeenHosts, Requestable, BindingsOf
  <2>5. host[h].domain # NULL
    BY <2>4, CatalogAssumption DEF CatalogInv, RowsInv, Row, CatalogAssumption
  <2>6. h \in used /\ B \subseteq used
    BY <2>4, <2>5 DEF OwnInv
  <2> QED BY <2>2, <2>3, <2>4, <2>6 DEF PutFinds, InFlight, Pinned, InScope
<1>2. CASE ClearSelection(c)
  <2>1. InFlight(c, "publish") /\ call'[c] = [call[c] EXCEPT !.cleared = RowsOf(call[c].host)]
        /\ UNCHANGED <<host, used, bound, overtaken>>
    BY <1>2 DEF ClearSelection, CatalogInv, CallsInv
  <2>2. call[c] \in Requests /\ call[c].op = "publish" /\ call[c].host \in Hosts
    BY <2>1, RequestShape DEF InFlight, CatalogInv, CallsInv, Carries
  <2>3. /\ call'[c].op = "publish" /\ call'[c].host = call[c].host /\ call'[c].want = call[c].want
        /\ call'[c].cleared = RowsOf(call[c].host)
    BY <2>1, <2>2, PublishShape
  <2>4. host[call[c].host] # NULL => RowsOf(call[c].host) = host[call[c].host].selected
    BY <2>2 DEF RowsOf, Live
  <2> QED BY <2>1, <2>3, <2>4 DEF PutInv, PutFinds, InFlight, Pinned, InScope
<1>3. ASSUME call'[c] = NULL \/ call'[c].op # "publish"
      PROVE  PutFinds(c)'
  BY <1>3 DEF PutFinds, InFlight
<1>4. CASE CreateHostname(c)
  <2>1. PICK r : r.op = "create" /\ call' = [call EXCEPT ![c] = r]
    BY <1>4 DEF CreateHostname
  <2> QED BY <1>3, <2>1 DEF CatalogInv, CallsInv
<1>5. CASE RenameDomain(c)
  <2>1. PICK r : r.op = "rename" /\ call' = [call EXCEPT ![c] = r]
    BY <1>5 DEF RenameDomain
  <2> QED BY <1>3, <2>1 DEF CatalogInv, CallsInv
<1>6. CASE AssignHostname(c)
  <2>1. PICK r : r.op = "assign" /\ call' = [call EXCEPT ![c] = r]
    BY <1>6 DEF AssignHostname
  <2> QED BY <1>3, <2>1 DEF CatalogInv, CallsInv
<1>7. CASE CreateDomain(c) \/ DeleteDomain(c) \/ CreateBackend(c) \/ DeleteBackend(c)
             \/ CreateDevice(c) \/ DeleteDevice(c) \/ DeleteHostname(c)
  <2>1. call'[c] = NULL
    BY <1>7 DEF CreateDomain, DeleteDomain, CreateBackend, DeleteBackend, CreateDevice,
                DeleteDevice, DeleteHostname
  <2> QED BY <1>3, <2>1
<1>8. CASE CommitRename(c) \/ CommitCreate(c) \/ CommitAssign(c) \/ CommitPublishing(c)
             \/ Abort(c)
  <2>1. call'[c] = NULL
    BY <1>8 DEF CommitRename, CommitCreate, CommitAssign, CommitPublishing, Abort,
                CatalogInv, CallsInv
  <2> QED BY <1>3, <2>1
<1> QED BY <1>1, <1>2, <1>4, <1>5, <1>6, <1>7, <1>8 DEF Step, Elsewhere

LEMMA OthersKeepPut ==
  ASSUME CatalogInv, OwnInv, PutInv, NEW k \in Calls, Step(k), NEW c \in Calls, k # c
  PROVE  PutFinds(c)'
<1> SUFFICES ASSUME InFlight(c, "publish") PROVE PutFinds(c)'
  BY OtherCalls DEF PutFinds, InFlight
<1>1. call'[c] = call[c] /\ used \subseteq used' /\ (c \notin overtaken' => c \notin overtaken)
  BY OtherCalls
<1>2. /\ call[c].host \in Hosts /\ call[c].host \in used
      /\ call[c].want \subseteq Backends /\ call[c].want \subseteq used
  BY RequestShape DEF PutInv, PutFinds, InFlight, CatalogInv, CallsInv, Carries
<1>3. ASSUME c \notin overtaken', host'[call[c].host] # NULL
      PROVE  /\ InScope(c, host'[call[c].host].domain)
             /\ \A b \in call[c].want : bound'[b] \in {NULL, host'[call[c].host].domain}
             /\ call[c].cleared # NULL => host'[call[c].host].selected \subseteq call[c].cleared
  <2>1. ASSUME host[call[c].host] # NULL, host'[call[c].host].domain = host[call[c].host].domain
        PROVE  /\ InScope(c, host'[call[c].host].domain)
               /\ \A b \in call[c].want : bound'[b] \in {NULL, host'[call[c].host].domain}
    <3>1. /\ InScope(c, host[call[c].host].domain)
          /\ \A b \in call[c].want : bound[b] \in {NULL, host[call[c].host].domain}
      BY <1>1, <1>3, <2>1 DEF PutInv, PutFinds, Pinned
    <3>2. \A b \in call[c].want : bound'[b] \in {NULL, bound[b]}
      BY <1>2, BindingsStay
    <3> QED BY <2>1, <3>1, <3>2
  <2>2. CASE UNCHANGED <<zone, host>>
    BY <1>1, <1>3, <2>1, <2>2 DEF PutInv, PutFinds
  <2>3. CASE Overtakes(k)
    <3>1. k \notin overtaken /\ {c, k} \cap Admins = {} /\ Tenant[k] # Tenant[c]
      BY <1>3, <2>3, NotPassed DEF InFlight
    <3>2. host[call[c].host] # NULL => InScope(c, host[call[c].host].domain)
      BY <1>1, <1>3 DEF PutInv, PutFinds
    <3>3. Untouched(call[c].host)
      BY <1>2, <3>1, <3>2, ChangesOwnHosts DEF InScope
    <3>4. /\ host[call[c].host] # NULL
          /\ host'[call[c].host].domain = host[call[c].host].domain
      BY <1>3, <3>3 DEF Untouched
    <3>5. ASSUME call[c].cleared # NULL, NEW b \in host'[call[c].host].selected
          PROVE  b \in call[c].cleared
      <4>1. \/ b \in host[call[c].host].selected
            \/ CommitPublishing(k) /\ call[c].host = call[k].host
        BY <1>2, <1>3, <3>5, PinsComeFrom
      <4>2. ~(CommitPublishing(k) /\ call[c].host = call[k].host)
        BY <3>1, <3>2, <3>4 DEF CommitPublishing, PutInv, PutFinds, InScope
      <4> QED BY <1>1, <1>3, <3>4, <3>5, <4>1, <4>2 DEF PutInv, PutFinds
    <3> QED BY <2>1, <3>4, <3>5
  <2> QED BY <2>2, <2>3, OvertakesOrReads
<1> QED BY <1>1, <1>2, <1>3 DEF PutFinds, InFlight, Pinned, InScope

LEMMA PutStep == CatalogInv /\ OwnInv /\ PutInv /\ [Next]_vars => PutInv'
<1> SUFFICES ASSUME CatalogInv, OwnInv, PutInv, [Next]_vars, NEW c \in Calls
             PROVE  PutFinds(c)'
  BY DEF PutInv
<1>1. CASE UNCHANGED vars
  BY <1>1 DEF vars, PutInv, PutFinds, InFlight, Pinned, InScope
<1>2. CASE Next
  <2>1. PICK k \in Calls : Step(k)
    BY <1>2, NextIsStep
  <2> QED BY <2>1, BeginsPut, OthersKeepPut
<1> QED BY <1>1, <1>2

LEMMA PutsFind == Spec => [](CatalogInv /\ OwnInv /\ PutInv)
<1>1. Init => PutInv
  BY DEF Init, PutInv, PutFinds, InFlight
<1> QED BY <1>1, InitInv, InitOwn, CatalogStep, OwnStep, PutStep, PTL DEF Spec

LEMMA ReplaceStep ==
  ASSUME CatalogInv, OwnInv, PutInv, NEW c \in Calls \ overtaken, CommitPublishing(c)
  PROVE  host'[call[c].host].selected = call[c].want
<1> DEFINE h == call[c].host
           S == (host[h].selected \ call[c].cleared) \cup call[c].want
<1>1. /\ InFlight(c, "publish") /\ host[h] # NULL /\ call[c].cleared # NULL
      /\ host' = [host EXCEPT ![h].selected = S]
  BY DEF CommitPublishing
<1>2. h \in Hosts
  BY <1>1, RequestShape DEF InFlight, CatalogInv, CallsInv, Carries
<1>3. host[h] \in Row
  BY <1>1, <1>2 DEF CatalogInv, RowsInv, Live
<1>4. host[h].selected \subseteq call[c].cleared
  BY <1>1 DEF PutInv, PutFinds
<1>5. host'[h] = [host[h] EXCEPT !.selected = S]
  BY <1>1, <1>2 DEF CatalogInv, RowsInv
<1>6. host'[h].selected = S
  BY <1>3, <1>5 DEF Row
<1> QED BY <1>4, <1>6

(* A PUT that nothing overtook leaves exactly the selection it asked for    *)
(* (set_hostname_publishing).                                               *)
THEOREM PutsReplace == Spec => PutReplaces
<1>1. CatalogInv /\ OwnInv /\ PutInv =>
        [\A c \in Calls \ overtaken : CommitPublishing(c) =>
           host'[call[c].host].selected = call[c].want]_vars
  BY ReplaceStep
<1> QED BY <1>1, PutsFind, PTL DEF PutReplaces

LEMMA StrayStep ==
  ASSUME CatalogInv, CatalogInv', OwnInv, PutInv, Next,
         NEW h \in Hosts, Stray(h)', ~Stray(h), ~Moved(h)
  PROVE  RaceEnds
<1>1. PICK k \in Calls : Step(k)
  BY NextIsStep
<1>2. host'[h] # NULL
  BY DEF Stray, Live
<1>3. PICK b \in host'[h].selected : ~(b \in Backends /\ bound'[b] = host'[h].domain)
  BY DEF Stray, BindingsOf
<1>4. b \in Backends /\ bound'[b] # NULL
  BY <1>2 DEF CatalogInv, RowsInv, Live, Row
<1>5. /\ host[h] # NULL
      /\ \/ b \in host[h].selected
         \/ CommitPublishing(k) /\ h = call[k].host /\ b \in call[k].want
  BY <1>1, <1>2, PinsComeFrom
<1>6. host'[h].domain = host[h].domain
  BY <1>2, <1>5 DEF Moved, Live
<1>7. ASSUME b \in used PROVE bound[b] \notin {NULL, host[h].domain}
  BY <1>1, <1>3, <1>4, <1>6, <1>7, BindingsStay
<1>8. CASE b \in host[h].selected
  <2>1. bound[b] = host[h].domain /\ bound[b] # NULL
    BY <1>5, <1>8 DEF Stray, BindingsOf, Live, CatalogInv, RowsInv
  <2> QED BY <1>4, <1>7, <2>1 DEF OwnInv
<1>9. CASE CommitPublishing(k) /\ h = call[k].host /\ b \in call[k].want
  <2>1. InFlight(k, "publish") /\ Commits(k)
    BY <1>9 DEF CommitPublishing, Commits, InFlight, CatalogInv, CallsInv
  <2>2. b \in used /\ (k \notin overtaken => bound[b] \in {NULL, host[h].domain})
    BY <1>5, <1>9, <2>1 DEF PutInv, PutFinds, Pinned
  <2> QED BY <1>7, <2>1, <2>2 DEF RaceEnds
<1> QED BY <1>5, <1>8, <1>9

(* A hostname comes to be pinned to a binding of another zone only by being *)
(* moved, or by a PUT that was overtaken (assign_hostname,                  *)
(* set_hostname_publishing).                                                *)
THEOREM StrayOnlyByMoves == Spec => StraysOnlyByMove
<1>1. CatalogInv /\ CatalogInv' /\ OwnInv /\ PutInv /\ [Next]_vars =>
        [\A h \in Hosts : Stray(h)' => Stray(h) \/ Moved(h) \/ RaceEnds]_vars
  BY StrayStep
<1> QED BY <1>1, PutsFind, CatalogStep, PTL DEF Spec, StraysOnlyByMove

-----------------------------------------------------------------------------
(* What widens. *)

(* A pin whose binding stays is dropped by a PUT only.                      *)
LEMMA PinsRemain ==
  ASSUME CatalogInv, OwnInv, NEW k \in Calls, Step(k), ~CommitPublishing(k),
         NEW h \in Hosts, host[h] # NULL, host'[h] # NULL,
         NEW b \in host[h].selected, bound'[b] # NULL
  PROVE  b \in host'[h].selected
<1>1. host[h] \in Row /\ b \in Backends
  BY DEF CatalogInv, RowsInv, Live, Row
<1>2. CASE UNCHANGED host
  BY <1>2
<1>3. ASSUME NEW G, NEW B, host' = Cascaded(G, B), b \notin B PROVE b \in host'[h].selected
  <2>1. host'[h] = [host[h] EXCEPT !.selected = @ \ B]
    BY <1>3 DEF Cascaded
  <2> QED BY <1>1, <1>3, <2>1 DEF Row
<1>4. CASE DeleteDomain(k)
  <2>1. PICK d \in SeenDomains(k) :
          /\ bound' = [x \in Backends |-> IF bound[x] = d THEN NULL ELSE bound[x]]
          /\ host' = Cascaded(HostsOf(d), BindingsOf(d))
    BY <1>4 DEF DeleteDomain
  <2>2. b \notin BindingsOf(d)
    BY <1>1, <2>1 DEF BindingsOf
  <2> QED BY <1>3, <2>1, <2>2
<1>5. CASE DeleteBackend(k)
  <2>1. PICK x \in SeenBackends(k) :
          bound' = [bound EXCEPT ![x] = NULL] /\ host' = Cascaded({}, {x})
    BY <1>5 DEF DeleteBackend
  <2>2. b # x
    BY <1>1, <2>1 DEF CatalogInv, RowsInv
  <2> QED BY <1>3, <2>1, <2>2
<1>6. CASE DeleteHostname(k)
  BY <1>3, <1>6 DEF DeleteHostname
<1>7. CASE DeleteDevice(k)
  <2>1. host'[h] = host[h] \/ host'[h] = [host[h] EXCEPT !.device = NULL]
    BY <1>7 DEF DeleteDevice
  <2> QED BY <1>1, <2>1 DEF Row
<1>8. CASE CommitCreate(k)
  <2>1. PICK g \in Hosts \ used : host' = [host EXCEPT ![g] = call[k].row]
    BY <1>8 DEF CommitCreate
  <2>2. g # h
    BY <2>1 DEF OwnInv, Live
  <2> QED BY <2>1, <2>2 DEF CatalogInv, RowsInv
<1>9. CASE CommitAssign(k)
  <2> DEFINE g == call[k].host
  <2>1. /\ g \in Hosts /\ host' = [host EXCEPT ![g] = host'[g]]
        /\ host'[g].selected = host[g].selected
    BY <1>9, UpdatedRow
  <2>2. g # h => host'[h] = host[h]
    BY <2>1 DEF CatalogInv, RowsInv
  <2> QED BY <2>1, <2>2
<1> QED
  BY <1>2, <1>4, <1>5, <1>6, <1>7, <1>8, <1>9
     DEF Step, Elsewhere, CreateDomain, RenameDomain, CommitRename, CreateBackend,
         CreateDevice, CreateHostname, AssignHostname, SetPublishing, ClearSelection, Abort

LEMMA WidenStep ==
  ASSUME CatalogInv, OwnInv, Next, NEW h \in Live, host'[h] # NULL,
         ~Moved(h), host[h].selected # {},
         ~(\A b \in host[h].selected : bound'[b] = NULL),
         ~(\E c \in Calls : Commits(c) /\ InFlight(c, "publish"))
  PROVE  ResolvedOf(h)' \subseteq ResolvedOf(h)
<1>1. PICK k \in Calls : Step(k)
  BY NextIsStep
<1>2. ~CommitPublishing(k)
  BY DEF CommitPublishing, Commits, InFlight, CatalogInv, CallsInv
<1>3. h \in Hosts /\ host[h] # NULL /\ host'[h].domain = host[h].domain
  BY DEF Live, Moved
<1>4. PICK b \in host[h].selected : bound'[b] # NULL
  OBVIOUS
<1>5. host'[h].selected # {}
  BY <1>1, <1>2, <1>3, <1>4, PinsRemain
<1>6. ResolvedOf(h)' = {x \in Backends : bound'[x] = host'[h].domain} \cap host'[h].selected
  BY <1>5 DEF ResolvedOf, BindingsOf
<1>7. ASSUME NEW x \in Backends, bound'[x] = host[h].domain, x \in host'[h].selected
      PROVE  bound[x] = host[h].domain /\ x \in host[h].selected
  <2>1. x \in host[h].selected
    BY <1>1, <1>2, <1>3, <1>7, PinsComeFrom
  <2>2. x \in used
    BY <1>3, <2>1 DEF OwnInv, CatalogInv, RowsInv
  <2>3. bound'[x] \in {NULL, bound[x]}
    BY <1>1, <2>2, BindingsStay
  <2>4. host[h].domain # NULL
    BY <1>3, CatalogAssumption DEF CatalogInv, RowsInv, Row, CatalogAssumption
  <2> QED BY <1>7, <2>1, <2>3, <2>4
<1> QED BY <1>3, <1>6, <1>7 DEF ResolvedOf, BindingsOf

(* A hostname starts to publish to one more account only for the reasons    *)
(* WidensOnlyKnowingly lists, whatever requests pass each other             *)
(* (resolve_backends, delete_backend, delete_domain).                       *)
THEOREM WidensForAReason == Spec => WidensOnlyKnowingly
<1>1. CatalogInv /\ OwnInv /\ [Next]_vars =>
        [\A h \in Live :
           host'[h] # NULL /\ ~(ResolvedOf(h)' \subseteq ResolvedOf(h)) =>
             \/ \E c \in Calls : Commits(c) /\ InFlight(c, "publish")
             \/ Moved(h)
             \/ host[h].selected = {}
             \/ \A b \in host[h].selected : bound'[b] = NULL]_vars
  BY WidenStep
<1> QED BY <1>1, PutsFind, PTL DEF Spec, WidensOnlyKnowingly
=============================================================================
