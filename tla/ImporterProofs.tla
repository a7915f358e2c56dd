--------------------------- MODULE ImporterProofs ---------------------------
(***************************************************************************)
(* For every legacy database and any number of runs: the importer is typed, *)
(* never merges, implements Migration, and is never itself the reason why   *)
(* its verification fails.                                                  *)
(*                                                                         *)
(* The invariant beside TypeOK says what an open transaction can rely on:   *)
(* it is the only one with rows in it (the first INSERT is held back by the *)
(* other's usernames), the keys it has inserted are nobody's, and whatever  *)
(* it has passed is true of the source.  The rest is two facts about data:  *)
(* planned rows publish a name as the legacy service did (CarriedOver), and *)
(* compare has nothing to say of them (PlanAgrees).                         *)
(***************************************************************************)
EXTENDS Importer, FiniteSetTheorems, TLAPS

Pcs == {"idle", "planned", "empty", "owned"} \cup WithDevices \cup Committed \cup Over
RunType == [pc : Pcs, dry : BOOLEAN, create : BOOLEAN, creates : BOOLEAN]

Alone ==
  \A r, k \in Runs :
     run[r].pc \in WithDevices /\ run[k].pc \in WithDevices => r = k
Keys == \A r \in Runs, t \in Named : run[r].pc \in Inserted(t) => IsFree(t)
Passed(pc) ==
  /\ pc \in {"planned", "empty", "owned"} \cup WithDevices => Plannable(source)
  /\ pc \in WithZones => ZonesStayApart(source)
  /\ pc \in {"bindings", "hosts"} => BindingsStayApart(source)
ImportInv == TypeOK /\ Alone /\ Keys /\ \A r \in Runs : Passed(run[r].pc)

-----------------------------------------------------------------------------
(* Planned rows publish a name as the legacy service did. *)

(* The TTL of a planned name and binding is the legacy row's.               *)
LEMMA TtlSurvives ==
  ASSUME NEW s \in Sources, NEW h \in DOMAIN s.hostnames,
         IsPlaced(s, h)
  PROVE  LET d == s.hostnames[h].domain
             t == s.hostnames[h].ttl
         IN  (IF Override(s, h) # NULL THEN Override(s, h) ELSE ZoneTtl(s, d)) = t
<1> DEFINE d == s.hostnames[h].domain
           t == s.hostnames[h].ttl
<1>1. t \in Int /\ t # NULL
  BY ImporterAssumption DEF ImporterAssumption
<1>2. h \in HostsOf(s, d) /\ t \in Ttls(s, d)
  BY DEF HostsOf, Ttls
<1>3. CASE Disagrees(s, d)
  BY <1>1, <1>3 DEF Override
<1>4. CASE ~Disagrees(s, d)
  <2>1. Ttls(s, d) = {t}
    BY <1>2, <1>4 DEF Disagrees
  <2>2. ModalTtl(s, d) = t
    <3> DEFINE count(v) == Cardinality({k \in HostsOf(s, d) : s.hostnames[k].ttl = v})
               good(v) == \A u \in Ttls(s, d) :
                            count(v) > count(u) \/ (count(v) = count(u) /\ v <= u)
    <3>1. ModalTtl(s, d) = CHOOSE v \in Ttls(s, d) : good(v)
      BY DEF ModalTtl
    <3>2. t <= t
      BY <1>1
    <3>3. good(t)
      BY <2>1, <3>2
    <3> HIDE DEF good
    <3> QED BY <2>1, <3>1, <3>3
  <2> QED BY <2>2, <1>2, <1>4 DEF Override, ZoneTtl
<1> QED BY <1>3, <1>4

(* A name of the plan publishes through the same accounts, with its TTL.   *)
LEMMA CarriedOver ==
  ASSUME NEW s \in Sources, Plannable(s), ZonesStayApart(s), BindingsStayApart(s),
         NEW db, NEW h \in DOMAIN s.hostnames,
         \A x \in db.hosts : \A k \in DOMAIN s.hostnames :
            x.name = Normal[s.hostnames[k].name] => x \in PlannedHosts(s),
         PlannedHosts(s) \subseteq db.hosts,
         PlannedBindings(s) \subseteq db.bindings,
         \A b \in db.bindings : b.zone \in PlannedZones(s) => b \in PlannedBindings(s)
  PROVE  Publication(db, Normal[s.hostnames[h].name]) = LegacyPublication(s, h)
<1> DEFINE d == s.hostnames[h].domain
           n == Normal[s.hostnames[h].name]
           x == PlannedHost(s, h)
           binding(k) == [zone |-> ZoneName(s, s.backends[k].domain), type |-> TypeOf(s, k),
                          credentials |-> s.backends[k].cipher,
                          ttl |-> ZoneTtl(s, s.backends[k].domain)]
           ttl == s.hostnames[h].ttl
<1>1. IsPlaced(s, h) /\ d \in DOMAIN s.domains
  BY DEF Plannable, IsPlaced
<1>2. ZoneName(s, d) \in PlannedZones(s)
  BY <1>1 DEF PlannedZones
<1>3. \A y \in db.hosts : y.name = n => y = x
  <2> SUFFICES ASSUME NEW y \in db.hosts, y.name = n PROVE y = x
    OBVIOUS
  <2>1. PICK k \in DOMAIN s.hostnames : y = PlannedHost(s, k)
    BY DEF PlannedHosts
  <2>2. y.name = Normal[s.hostnames[k].name]
    BY <2>1 DEF PlannedHost
  <2>3. k = h
    BY <2>2 DEF Plannable, NamesStayApart
  <2> QED BY <2>1, <2>3
<1>4. x \in db.hosts /\ x.name = n /\ x.zone = ZoneName(s, d) /\ x.ttl = Override(s, h)
  BY DEF PlannedHosts, PlannedHost
<1>5. x.selected = {TypeOf(s, b) : b \in Selected(s, h)}
  BY DEF PlannedHost
<1>6. \A k \in BackendsOf(s, d) :
         /\ binding(k) \in db.bindings
         /\ binding(k).zone = ZoneName(s, d)
         /\ binding(k).type = TypeOf(s, k)
         /\ binding(k).ttl = ZoneTtl(s, d)
  BY DEF BackendsOf, PlannedBindings
<1>7. \A b \in db.bindings : b.zone = ZoneName(s, d) =>
         \E k \in BackendsOf(s, d) : b = binding(k)
  <2> SUFFICES ASSUME NEW b \in db.bindings, b.zone = ZoneName(s, d)
               PROVE  \E k \in BackendsOf(s, d) : b = binding(k)
    OBVIOUS
  <2>1. PICK k \in DOMAIN s.backends : b = binding(k)
    BY <1>2 DEF PlannedBindings
  <2>2. s.backends[k].domain \in DOMAIN s.domains
    BY DEF BindingsStayApart
  <2>3. s.backends[k].domain = d
    BY <2>1, <2>2, <1>1 DEF ZonesStayApart
  <2> QED BY <2>1, <2>3 DEF BackendsOf
<1>8. Chosen(s, h) \subseteq BackendsOf(s, d)
  BY DEF Chosen, Plannable, SelectionsAreLocal
<1>9. \A k \in BackendsOf(s, d) :
         (x.selected = {} \/ TypeOf(s, k) \in x.selected)
           <=> (Chosen(s, h) = {} \/ k \in Chosen(s, h))
  <2> SUFFICES ASSUME NEW k \in BackendsOf(s, d)
               PROVE  (x.selected = {} \/ TypeOf(s, k) \in x.selected)
                        <=> (Chosen(s, h) = {} \/ k \in Chosen(s, h))
    OBVIOUS
  <2>1. CASE Selected(s, h) = {}
    BY <2>1, <1>5, <1>8 DEF Selected
  <2>2. CASE Selected(s, h) # {}
    <3>1. Selected(s, h) = Chosen(s, h)
      BY <2>2 DEF Selected
    <3>2. x.selected # {}
      BY <2>2, <1>5
    <3>3. TypeOf(s, k) \in x.selected => k \in Chosen(s, h)
      <4> SUFFICES ASSUME TypeOf(s, k) \in x.selected PROVE k \in Chosen(s, h)
        OBVIOUS
      <4>1. PICK j \in Chosen(s, h) : TypeOf(s, k) = TypeOf(s, j)
        BY <1>5, <3>1
      <4>2. j = k
        BY <4>1, <1>8 DEF BindingsStayApart, BackendsOf
      <4> QED BY <4>1, <4>2
    <3>4. k \in Chosen(s, h) => TypeOf(s, k) \in x.selected
      BY <1>5, <3>1
    <3> QED BY <2>2, <3>1, <3>2, <3>3, <3>4
  <2> QED BY <2>1, <2>2
<1>10. (IF x.ttl # NULL THEN x.ttl ELSE ZoneTtl(s, d)) = ttl
  BY <1>1, <1>4, TtlSurvives
<1>11. Publication(db, n) =
         {<<TypeOf(s, k), ttl>> :
            k \in {k \in BackendsOf(s, d) : x.selected = {} \/ TypeOf(s, k) \in x.selected}}
  <2> DEFINE pairs == {p \in db.hosts \X db.bindings :
                         /\ p[1].name = n
                         /\ p[2].zone = p[1].zone
                         /\ p[1].selected = {} \/ p[2].type \in p[1].selected}
             value(p) == <<p[2].type, IF p[1].ttl # NULL THEN p[1].ttl ELSE p[2].ttl>>
             picked == {k \in BackendsOf(s, d) :
                          x.selected = {} \/ TypeOf(s, k) \in x.selected}
  <2>1. \A p \in pairs : \E k \in picked : value(p) = <<TypeOf(s, k), ttl>>
    <3> SUFFICES ASSUME NEW p \in pairs
                 PROVE  \E k \in picked : value(p) = <<TypeOf(s, k), ttl>>
      OBVIOUS
    <3>1. p[1] = x /\ p[2] \in db.bindings
      BY <1>3
    <3>2. p[2].zone = ZoneName(s, d)
      BY <3>1, <1>4
    <3>3. PICK k \in BackendsOf(s, d) : p[2] = binding(k)
      BY <3>1, <3>2, <1>7
    <3>4. p[2].type = TypeOf(s, k) /\ p[2].ttl = ZoneTtl(s, d)
      BY <3>3, <1>6
    <3>5. k \in picked
      BY <3>1, <3>4
    <3> QED BY <3>1, <3>4, <3>5, <1>10
  <2>2. \A k \in picked : \E p \in pairs : value(p) = <<TypeOf(s, k), ttl>>
    <3> SUFFICES ASSUME NEW k \in picked
                 PROVE  \E p \in pairs : value(p) = <<TypeOf(s, k), ttl>>
      OBVIOUS
    <3>1. <<x, binding(k)>> \in pairs
      BY <1>4, <1>6
    <3>2. value(<<x, binding(k)>>) = <<TypeOf(s, k), ttl>>
      BY <1>6, <1>10
    <3> QED BY <3>1, <3>2
  <2>3. Publication(db, n) = {value(p) : p \in pairs}
    BY DEF Publication
  <2> HIDE DEF pairs, value, picked
  <2>4. {value(p) : p \in pairs} = {<<TypeOf(s, k), ttl>> : k \in picked}
    BY <2>1, <2>2
  <2> QED BY <2>3, <2>4 DEF picked
<1>12. LegacyPublication(s, h) =
         {<<TypeOf(s, k), ttl>> :
            k \in {k \in BackendsOf(s, d) : Chosen(s, h) = {} \/ k \in Chosen(s, h)}}
  BY DEF LegacyPublication, TypeOf
<1> QED BY <1>9, <1>11, <1>12

-----------------------------------------------------------------------------
(* What a step of a run preserves. *)

LEMMA PcFacts ==
  /\ WithDevices \subseteq Pcs /\ Committed \subseteq Pcs /\ Over \subseteq Pcs
  /\ {"idle", "planned", "empty", "owned"} \subseteq Pcs
  /\ \A t \in Named : Inserted(t) \subseteq WithDevices
  /\ WithZones \subseteq WithDevices /\ WithHosts \subseteq WithDevices
  /\ WithDevices \cap (Committed \cup Over \cup {"idle", "planned", "empty", "owned"}) = {}
  BY DEF Pcs, WithDevices, WithZones, WithHosts, Committed, Over, Named, Inserted

(* A step that moves one run on, and leaves the database alone.             *)
LEMMA RunMoves ==
  ASSUME ImportInv, NEW r \in Runs, NEW pc \in Pcs, OnlyRun,
         run' \in [Runs -> RunType],
         \A k \in Runs \ {r} : run'[k] = run[k],
         run'[r].pc = pc,
         pc \in WithDevices =>
            \A k \in Runs \ {r} : run[k].pc \notin WithDevices,
         \A t \in Named : pc \in Inserted(t) => IsFree(t),
         Passed(pc)
  PROVE  ImportInv'
<1>1. \A k \in Runs : k # r => run'[k].pc = run[k].pc
  OBVIOUS
<1>2. TypeOK'
  BY DEF ImportInv, TypeOK, OnlyRun, RunType, Pcs, KeysOf
<1>3. Alone'
  <2> SUFFICES ASSUME NEW j \in Runs, NEW k \in Runs,
                      run'[j].pc \in WithDevices, run'[k].pc \in WithDevices
               PROVE  j = k
    BY DEF Alone
  <2>1. CASE j = r \/ k = r
    BY <2>1, <1>1
  <2>2. CASE j # r /\ k # r
    BY <2>2, <1>1 DEF ImportInv, Alone
  <2> QED BY <2>1, <2>2
<1>4. \A t : IsFree(t)' <=> IsFree(t)
  BY DEF OnlyRun, IsFree, KeysOf, Planned
<1>5. Keys'
  BY <1>1, <1>4 DEF ImportInv, Keys
<1>6. \A k \in Runs : Passed(run[k].pc)'
  BY <1>1 DEF ImportInv, Passed, OnlyRun
<1> QED BY <1>2, <1>3, <1>5, <1>6 DEF ImportInv

(* Goes moves one run and leaves the others.                               *)
LEMMA Going ==
  ASSUME ImportInv, NEW r \in Runs, NEW pc \in Pcs, Goes(r, pc)
  PROVE  /\ run' \in [Runs -> RunType]
         /\ \A k \in Runs \ {r} : run'[k] = run[k]
         /\ run'[r].pc = pc
  BY DEF ImportInv, TypeOK, Goes, RunType, Pcs

(* A step of anybody else, or a commit: the runs that hold rows afterwards  *)
(* are ones that held them, and the keys they hold are still nobody's.      *)
LEMMA RowsMove ==
  ASSUME ImportInv, TypeOK', UNCHANGED source,
         \A r \in Runs : run'[r].pc \in WithDevices => run'[r].pc = run[r].pc,
         \A r \in Runs : Passed(run[r].pc)',
         \A r \in Runs, t \in Named :
            run'[r].pc \in Inserted(t) /\ IsFree(t) => IsFree(t)'
  PROVE  ImportInv'
<1>1. Alone'
  BY DEF ImportInv, Alone
<1>2. Keys'
  BY PcFacts DEF ImportInv, Keys
<1> QED BY <1>1, <1>2 DEF ImportInv

LEMMA ImportInit == Init => ImportInv
<1> SUFFICES ASSUME Init PROVE ImportInv
  OBVIOUS
<1>1. TypeOK
  <2>1. run \in [Runs -> [pc : {"idle"} \cup WithDevices \cup Committed \cup Over,
                           dry : BOOLEAN, create : BOOLEAN, creates : BOOLEAN]]
    BY DEF Init
  <2>2. DOMAIN rows = Tables /\ DOMAIN taken = Named /\ \A t \in Named : taken[t] = {}
    BY DEF Init, Empty, Tables, Named
  <2>3. edits \in 0..MaxEdits
    BY ImporterAssumption DEF Init, ImporterAssumption
  <2> QED BY <2>1, <2>2, <2>3 DEF Init, TypeOK, Empty
<1>2. \A r \in Runs : run[r].pc = "idle"
  BY DEF Init
<1>3. "idle" \notin WithDevices /\ \A t \in Named : "idle" \notin Inserted(t)
  BY PcFacts
<1>4. Alone /\ Keys
  BY <1>2, <1>3 DEF Alone, Keys
<1>5. Passed("idle")
  BY DEF Passed, WithDevices, WithZones
<1> QED BY <1>1, <1>2, <1>4, <1>5 DEF ImportInv

(* The steps of a run up to its commit, and after it.                       *)
LEMMA RunSteps ==
  ASSUME ImportInv, NEW r \in Runs,
         \/ BuildPlan(r) \/ AssertEmpty(r) \/ ResolveOwner(r)
         \/ InsertDevices(r) \/ InsertZones(r) \/ InsertBindings(r) \/ InsertHosts(r)
         \/ DryRun(r) \/ Verify(r) \/ Dies(r)
  PROVE  ImportInv'
<1>1. ASSUME NEW pc \in Pcs \ WithDevices, Goes(r, pc), OnlyRun, Passed(pc)
      PROVE  ImportInv'
  <2>1. \A t \in Named : pc \notin Inserted(t)
    BY PcFacts
  <2> QED BY <1>1, <2>1, Going, RunMoves
<1>2. \A pc \in {"refused", "failed", "dry", "agreed", "disagreed", "unverified"} :
         pc \in Pcs \ WithDevices /\ Passed(pc)
  BY DEF Pcs, Over, WithDevices, WithZones, Passed
<1>3. \A pc \in {"planned", "empty", "owned"} :
         pc \in Pcs \ WithDevices /\ (Plannable(source) => Passed(pc))
  BY DEF Pcs, WithDevices, WithZones, Passed
<1>4. Passed(run[r].pc)
  BY DEF ImportInv
<1>5. CASE BuildPlan(r)
  BY <1>1, <1>2, <1>3, <1>5 DEF BuildPlan
<1>6. CASE AssertEmpty(r)
  BY <1>1, <1>2, <1>3, <1>4, <1>6 DEF AssertEmpty, Passed
<1>7. CASE ResolveOwner(r)
  <2>1. run[r].pc = "empty" /\ OnlyRun /\ Passed("owned")
    BY <1>3, <1>4, <1>7 DEF ResolveOwner, Passed
  <2>2. CASE Goes(r, "owned") \/ Goes(r, "refused")
    BY <1>1, <1>2, <1>3, <2>1, <2>2
  <2>3. CASE run' = [run EXCEPT ![r].pc = "owned", ![r].creates = TRUE]
    <3>1. /\ run' \in [Runs -> RunType]
          /\ \A k \in Runs \ {r} : run'[k] = run[k]
          /\ run'[r].pc = "owned"
      BY <2>3 DEF ImportInv, TypeOK, RunType, Pcs
    <3>2. "owned" \in Pcs /\ "owned" \notin WithDevices
          /\ \A t \in Named : "owned" \notin Inserted(t)
      BY PcFacts, <1>3
    <3> QED BY <2>1, <3>1, <3>2, RunMoves
  <2> QED BY <1>7, <2>2, <2>3 DEF ResolveOwner
<1>8. CASE InsertDevices(r)
  <2>1. CASE Goes(r, "failed")
    BY <1>1, <1>2, <1>8, <2>1 DEF InsertDevices, Insert
  <2>2. CASE Goes(r, "devices") /\ IsFree("devices")
    <3>1. Passed("devices")
      BY <1>4, <1>8 DEF InsertDevices, Insert, Passed, WithDevices, WithZones
    <3>2. \A k \in Runs \ {r} : run[k].pc \notin WithDevices
      BY <1>8 DEF InsertDevices, Insert, Inserted
    <3>3. \A t \in Named : "devices" \in Inserted(t) => t = "devices"
      BY DEF Named, Inserted, WithDevices, WithZones, WithHosts
    <3>4. "devices" \in Pcs
      BY DEF Pcs, WithDevices
    <3> QED BY <1>8, <2>2, <3>1, <3>2, <3>3, <3>4, Going, RunMoves DEF InsertDevices, Insert
  <2> QED BY <1>8, <2>1, <2>2 DEF InsertDevices, Insert
<1>9. ASSUME run[r].pc \in WithDevices
      PROVE  /\ \A k \in Runs \ {r} : run[k].pc \notin WithDevices
             /\ \A t \in Named : run[r].pc \in Inserted(t) => IsFree(t)
  BY <1>9 DEF ImportInv, Alone, Keys
<1>10. CASE InsertZones(r)
  <2>1. CASE Goes(r, "failed")
    BY <1>1, <1>2, <1>10, <2>1 DEF InsertZones, Insert
  <2>2. CASE Goes(r, "zones") /\ IsFree("zones") /\ ZonesStayApart(source)
    <3>1. run[r].pc = "devices" /\ OnlyRun
      BY <1>10 DEF InsertZones, Insert
    <3>2. Passed("zones")
      BY <1>4, <2>2, <3>1 DEF Passed, WithDevices, WithZones
    <3>3. \A t \in Named : "zones" \in Inserted(t) => t = "zones" \/ "devices" \in Inserted(t)
      BY DEF Named, Inserted, WithDevices, WithZones, WithHosts
    <3>4. "zones" \in Pcs /\ run[r].pc \in WithDevices
      BY <3>1 DEF Pcs, WithDevices
    <3> QED BY <1>9, <2>2, <3>1, <3>2, <3>3, <3>4, Going, RunMoves
  <2> QED BY <1>10, <2>1, <2>2 DEF InsertZones, Insert
<1>11. CASE InsertBindings(r)
  <2>1. CASE Goes(r, "failed")
    BY <1>1, <1>2, <1>11, <2>1 DEF InsertBindings
  <2>2. CASE Goes(r, "bindings") /\ BindingsStayApart(source)
    <3>1. run[r].pc = "zones" /\ OnlyRun
      BY <1>11 DEF InsertBindings
    <3>2. Passed("bindings")
      BY <1>4, <2>2, <3>1 DEF Passed, WithDevices, WithZones
    <3>3. \A t \in Named : "bindings" \in Inserted(t) => "zones" \in Inserted(t)
      BY DEF Named, Inserted, WithDevices, WithZones, WithHosts
    <3>4. "bindings" \in Pcs /\ run[r].pc \in WithDevices
      BY <3>1 DEF Pcs, WithDevices
    <3> QED BY <1>9, <2>2, <3>1, <3>2, <3>3, <3>4, Going, RunMoves
  <2> QED BY <1>11, <2>1, <2>2 DEF InsertBindings
<1>12. CASE InsertHosts(r)
  <2>1. CASE Goes(r, "failed")
    BY <1>1, <1>2, <1>12, <2>1 DEF InsertHosts, Insert
  <2>2. CASE Goes(r, "hosts") /\ IsFree("hosts")
    <3>1. run[r].pc = "bindings" /\ OnlyRun
      BY <1>12 DEF InsertHosts, Insert
    <3>2. Passed("hosts")
      BY <1>4, <3>1 DEF Passed, WithDevices, WithZones
    <3>3. \A t \in Named : "hosts" \in Inserted(t) => t = "hosts" \/ "bindings" \in Inserted(t)
      BY DEF Named, Inserted, WithDevices, WithZones, WithHosts
    <3>4. "hosts" \in Pcs /\ run[r].pc \in WithDevices
      BY <3>1 DEF Pcs, WithDevices
    <3> QED BY <1>9, <2>2, <3>1, <3>2, <3>3, <3>4, Going, RunMoves
  <2> QED BY <1>12, <2>1, <2>2 DEF InsertHosts, Insert
<1>13. CASE DryRun(r)
  BY <1>1, <1>2, <1>13 DEF DryRun
<1>14. CASE Verify(r)
  BY <1>1, <1>2, <1>14 DEF Verify
<1>15. CASE Dies(r)
  BY <1>1, <1>2, <1>15 DEF Dies
<1> QED BY <1>5, <1>6, <1>7, <1>8, <1>10, <1>11, <1>12, <1>13, <1>14, <1>15

(* A commit keeps the invariant, and what it adds was free.                *)
LEMMA CommitStep ==
  ASSUME ImportInv, NEW r \in Runs, Commit(r)
  PROVE  ImportInv' /\ \A t \in Named : IsFree(t)
<1>1. run[r].pc = "hosts" /\ run'[r].pc = "committed"
      /\ \A k \in Runs \ {r} : run'[k] = run[k]
  <2>1. "committed" \in Pcs
    BY DEF Pcs, Committed
  <2> QED BY <2>1, Going DEF Commit
<1>2. \A t \in Named : IsFree(t)
  BY <1>1 DEF ImportInv, Keys, Named, Inserted, WithDevices, WithZones, WithHosts
<1>3. Plannable(source) /\ ZonesStayApart(source) /\ BindingsStayApart(source)
  BY <1>1 DEF ImportInv, Passed, WithDevices, WithZones
<1>4. /\ rows'.devices = rows.devices \cup PlannedDevices(source)
      /\ rows'.zones = rows.zones \cup PlannedZones(source)
      /\ rows'.bindings = rows.bindings \cup PlannedBindings(source)
      /\ rows'.hosts = rows.hosts \cup PlannedHosts(source)
      /\ DOMAIN rows' = Tables
  BY DEF Commit, Union, Tables, Planned
<1>5. TypeOK'
  <2>1. UNCHANGED <<source, taken, edits>> /\ account' = "active"
    BY DEF Commit
  <2>2. run' \in [Runs -> RunType]
    BY Going, PcFacts DEF Commit, Committed
  <2>3. \A t \in Named : KeysOf(rows')[t] = KeysOf(rows)[t] \cup KeysOf(Planned)[t]
    BY <1>4 DEF KeysOf, Named, Planned
  <2>4. \A t \in Named : KeysOf(rows')[t] \cap taken[t] = {}
    BY <1>2, <2>3 DEF IsFree, ImportInv, TypeOK
  <2>5. \A x, y \in rows'.hosts : x.name = y.name => x = y
    <3>1. \A x, y \in PlannedHosts(source) : x.name = y.name => x = y
      <4> SUFFICES ASSUME NEW h \in DOMAIN source.hostnames, NEW k \in DOMAIN source.hostnames,
                          PlannedHost(source, h).name = PlannedHost(source, k).name
                   PROVE  h = k
        BY DEF PlannedHosts
      <4>1. Normal[source.hostnames[h].name] = Normal[source.hostnames[k].name]
        BY DEF PlannedHost
      <4> QED BY <4>1, <1>3 DEF Plannable, NamesStayApart
    <3>2. \A x \in PlannedHosts(source), y \in rows.hosts : x.name # y.name
      <4>1. KeysOf(Planned)["hosts"] \cap KeysOf(rows)["hosts"] = {}
        BY <1>2 DEF IsFree, Named
      <4>2. KeysOf(Planned)["hosts"] = {x.name : x \in PlannedHosts(source)}
            /\ KeysOf(rows)["hosts"] = {x.name : x \in rows.hosts}
        BY DEF KeysOf, Planned
      <4> QED BY <4>1, <4>2
    <3>3. \A x, y \in rows.hosts : x.name = y.name => x = y
      BY DEF ImportInv, TypeOK
    <3> QED BY <1>4, <3>1, <3>2, <3>3
  <2>6. \A x \in rows'.hosts : x.zone \in rows'.zones
    <3>1. \A x \in PlannedHosts(source) : x.zone \in PlannedZones(source)
      BY <1>3 DEF PlannedHosts, PlannedHost, PlannedZones, Plannable, IsPlaced
    <3> QED BY <1>4, <3>1 DEF ImportInv, TypeOK
  <2>7. \A b \in rows'.bindings : b.zone \in rows'.zones
    <3>1. \A b \in PlannedBindings(source) : b.zone \in PlannedZones(source)
      BY <1>3 DEF PlannedBindings, PlannedZones, BindingsStayApart
    <3> QED BY <1>4, <3>1 DEF ImportInv, TypeOK
  <2> QED BY <1>4, <2>1, <2>2, <2>4, <2>5, <2>6, <2>7 DEF ImportInv, TypeOK, RunType, Pcs
<1>6. \A k \in Runs : run'[k].pc \notin WithDevices
  BY <1>1 DEF ImportInv, Alone, WithDevices, WithZones
<1>7. \A k \in Runs : Passed(run[k].pc)'
  <2>1. source' = source
    BY DEF Commit
  <2>2. Passed(run[r].pc)'
    BY <1>1 DEF Passed, WithDevices, WithZones
  <2> QED BY <1>1, <2>1, <2>2 DEF ImportInv, Passed
<1> QED BY <1>2, <1>5, <1>6, <1>7, RowsMove, PcFacts DEF Commit

(* What others write.                                                       *)
LEMMA OthersStep ==
  ASSUME ImportInv,
         \/ \E t \in Named : TenantTakes(t)
         \/ OwnerAdds \/ OwnerDropsZone \/ OwnerDropsDevice \/ OwnerRepins
         \/ DeviceCalls \/ TenantIsDeleted
  PROVE  ImportInv'
<1> USE DEF ImportInv
<1>1. ASSUME UNCHANGED <<source, run>>, TypeOK',
             \A t \in Named : Held(t) /\ IsFree(t) => IsFree(t)'
      PROVE  ImportInv'
  <2>1. \A k \in Runs : Passed(run[k].pc)'
    BY <1>1 DEF Passed
  <2>2. \A k \in Runs, t \in Named : run'[k].pc \in Inserted(t) => Held(t)
    BY <1>1 DEF Held
  <2> QED BY <1>1, <2>1, <2>2, RowsMove
<1>2. ASSUME UNCHANGED <<source, taken>>,
             \A t \in Named : KeysOf(rows')[t] \subseteq KeysOf(rows)[t]
      PROVE  /\ \A t \in Named : IsFree(t) => IsFree(t)'
             /\ \A t \in Named : KeysOf(rows')[t] \cap taken'[t] = {}
  BY <1>2 DEF IsFree, Planned, TypeOK
<1>3. ASSUME NEW db, InScope(db)
      PROVE  /\ UNCHANGED <<source, account, taken, run>>
             /\ rows' = db /\ edits' \in 0..MaxEdits
  BY <1>3, ImporterAssumption DEF InScope, TypeOK, ImporterAssumption
<1>4. ASSUME NEW table \in Named, TenantTakes(table) PROVE ImportInv'
  <2>1. UNCHANGED <<source, account, rows, run, edits>> /\ ~Held(table)
    BY <1>4 DEF TenantTakes
  <2>2. PICK k \in KeysOf(Planned)[table] \ (KeysOf(rows)[table] \cup taken[table]) :
           taken' = [taken EXCEPT ![table] = @ \cup {k}]
    BY <1>4 DEF TenantTakes
  <2>3. DOMAIN taken' = Named /\ taken'[table] = taken[table] \cup {k}
        /\ \A t \in Named \ {table} : taken'[t] = taken[t]
    BY <2>2 DEF TypeOK
  <2>4. \A t \in Named : KeysOf(rows)[t] \cap taken'[t] = {}
    BY <2>2, <2>3 DEF TypeOK
  <2>5. TypeOK'
    BY <2>1, <2>3, <2>4 DEF TypeOK
  <2>6. \A t \in Named \ {table} : IsFree(t) => IsFree(t)'
    BY <2>1, <2>3 DEF IsFree, Planned
  <2> QED BY <1>1, <2>1, <2>5, <2>6
<1>5. CASE OwnerAdds
  <2>1. PICK z : /\ z \notin rows.zones \cup taken.zones
                 /\ z \in PlannedZones(source) => ~Held("zones")
                 /\ InScope([rows EXCEPT !.zones = @ \cup {z}])
    BY <1>5 DEF OwnerAdds
  <2>2. /\ UNCHANGED <<source, account, taken, run>> /\ edits' \in 0..MaxEdits
        /\ rows' = [rows EXCEPT !.zones = @ \cup {z}]
    BY <1>3, <2>1
  <2>3. /\ DOMAIN rows' = Tables /\ rows'.zones = rows.zones \cup {z}
        /\ rows'.devices = rows.devices /\ rows'.bindings = rows.bindings
        /\ rows'.hosts = rows.hosts
    BY <2>2 DEF TypeOK, Tables
  <2>4. /\ KeysOf(rows')["zones"] = rows.zones \cup {z}
        /\ KeysOf(rows)["zones"] = rows.zones
        /\ \A t \in Named \ {"zones"} : KeysOf(rows')[t] = KeysOf(rows)[t]
    <3>1. \A db : KeysOf(db)["devices"] = {d.username : d \in db.devices}
      BY DEF KeysOf
    <3>2. \A db : KeysOf(db)["zones"] = db.zones
      BY DEF KeysOf
    <3>3. \A db : KeysOf(db)["hosts"] = {x.name : x \in db.hosts}
      BY DEF KeysOf
    <3>4. KeysOf(rows')["devices"] = KeysOf(rows)["devices"]
      BY <2>3, <3>1
    <3>5. KeysOf(rows')["hosts"] = KeysOf(rows)["hosts"]
      BY <2>3, <3>3
    <3> QED BY <2>3, <3>2, <3>4, <3>5 DEF Named
  <2>5. \A t \in Named : KeysOf(rows')[t] \cap taken[t] = {}
    BY <2>1, <2>4 DEF TypeOK, Named
  <2>6. TypeOK'
    BY <2>2, <2>3, <2>5 DEF TypeOK
  <2>7. \A t \in Named : Held(t) /\ IsFree(t) => IsFree(t)'
    <3>1. ASSUME NEW t \in Named, t # "zones" PROVE IsFree(t) => IsFree(t)'
      BY <2>2, <2>4, <3>1 DEF IsFree, Planned
    <3>2. Held("zones") /\ IsFree("zones") => IsFree("zones")'
      BY <2>1, <2>2, <2>4 DEF IsFree, Planned, KeysOf
    <3> QED BY <3>1, <3>2
  <2> QED BY <1>1, <2>2, <2>6, <2>7
<1>6. CASE OwnerDropsZone
  <2>1. PICK z \in rows.zones :
           InScope([rows EXCEPT !.zones = @ \ {z},
                                !.bindings = {b \in @ : b.zone # z},
                                !.hosts = {x \in @ : x.zone # z}])
    BY <1>6 DEF OwnerDropsZone
  <2>2. /\ UNCHANGED <<source, account, taken, run>> /\ edits' \in 0..MaxEdits
        /\ rows' = [rows EXCEPT !.zones = @ \ {z},
                                !.bindings = {b \in @ : b.zone # z},
                                !.hosts = {x \in @ : x.zone # z}]
    BY <1>3, <2>1
  <2>3. /\ DOMAIN rows' = Tables /\ rows'.zones = rows.zones \ {z}
        /\ rows'.devices = rows.devices
        /\ rows'.bindings = {b \in rows.bindings : b.zone # z}
        /\ rows'.hosts = {x \in rows.hosts : x.zone # z}
    BY <2>2 DEF TypeOK, Tables
  <2>4. \A t \in Named : KeysOf(rows')[t] \subseteq KeysOf(rows)[t]
    BY <2>3 DEF KeysOf, Named
  <2>5. TypeOK'
    BY <1>2, <2>2, <2>3, <2>4 DEF TypeOK
  <2> QED BY <1>1, <1>2, <2>2, <2>4, <2>5
<1>7. ASSUME NEW D, NEW H,
             rows' = [rows EXCEPT !.devices = D, !.hosts = H],
             UNCHANGED <<source, account, taken, run>>, edits' \in 0..MaxEdits,
             \A d \in D : \E e \in rows.devices : d.username = e.username,
             \A x \in H : \E y \in rows.hosts : x.name = y.name /\ x.zone = y.zone,
             \A x, y \in H : x.name = y.name => x = y
      PROVE  ImportInv'
  <2>1. /\ DOMAIN rows' = Tables /\ rows'.zones = rows.zones
        /\ rows'.devices = D /\ rows'.bindings = rows.bindings /\ rows'.hosts = H
    BY <1>7 DEF TypeOK, Tables
  <2>2. \A t \in Named : KeysOf(rows')[t] \subseteq KeysOf(rows)[t]
    <3>1. {d.username : d \in D} \subseteq {d.username : d \in rows.devices}
      BY <1>7
    <3>2. {x.name : x \in H} \subseteq {x.name : x \in rows.hosts}
      BY <1>7
    <3> QED BY <2>1, <3>1, <3>2 DEF KeysOf, Named
  <2>3. TypeOK'
    BY <1>2, <1>7, <2>1, <2>2 DEF TypeOK
  <2> QED BY <1>1, <1>2, <1>7, <2>2, <2>3
<1>8. CASE OwnerDropsDevice
  <2>1. PICK d \in rows.devices :
           InScope([rows EXCEPT !.devices = @ \ {d},
                                !.hosts = {IF x.device = d.username
                                           THEN [x EXCEPT !.device = NULL] ELSE x : x \in @}])
    BY <1>8 DEF OwnerDropsDevice
  <2> DEFINE f(x) == IF x.device = d.username THEN [x EXCEPT !.device = NULL] ELSE x
  <2>2. rows' = [rows EXCEPT !.devices = rows.devices \ {d},
                             !.hosts = {f(x) : x \in rows.hosts}]
    BY <1>3, <2>1
  <2>3. \A x : f(x).name = x.name /\ f(x).zone = x.zone
    OBVIOUS
  <2> HIDE DEF f
  <2>4. \A x, y \in {f(x) : x \in rows.hosts} : x.name = y.name => x = y
    BY <2>3 DEF TypeOK
  <2>5. \A x \in {f(x) : x \in rows.hosts} :
           \E y \in rows.hosts : x.name = y.name /\ x.zone = y.zone
    BY <2>3
  <2>6. \A k \in rows.devices \ {d} : \E j \in rows.devices : k.username = j.username
    OBVIOUS
  <2>7. UNCHANGED <<source, account, taken, run>> /\ edits' \in 0..MaxEdits
    BY <1>3, <2>1
  <2> QED BY <1>7, <2>2, <2>4, <2>5, <2>6, <2>7
<1>9. CASE OwnerRepins
  <2>1. PICK x \in rows.hosts :
           \E y \in {[x EXCEPT !.selected = {}], [x EXCEPT !.ttl = NULL]} :
              y # x /\ InScope([rows EXCEPT !.hosts = (@ \ {x}) \cup {y}])
    BY <1>9 DEF OwnerRepins
  <2>2. PICK y \in {[x EXCEPT !.selected = {}], [x EXCEPT !.ttl = NULL]} :
              InScope([rows EXCEPT !.hosts = (@ \ {x}) \cup {y}])
    BY <2>1
  <2>3. y.name = x.name /\ y.zone = x.zone
    <3>1. CASE y = [x EXCEPT !.selected = {}]
      BY <3>1
    <3>2. CASE y = [x EXCEPT !.ttl = NULL]
      BY <3>2
    <3> QED BY <2>2, <3>1, <3>2
  <2>4. rows' = [rows EXCEPT !.devices = rows.devices, !.hosts = (rows.hosts \ {x}) \cup {y}]
    BY <1>3, <2>2 DEF TypeOK, Tables
  <2>5. \A v, w \in (rows.hosts \ {x}) \cup {y} : v.name = w.name => v = w
    BY <2>3 DEF TypeOK
  <2>6. \A v \in (rows.hosts \ {x}) \cup {y} :
           \E w \in rows.hosts : v.name = w.name /\ v.zone = w.zone
    BY <2>3
  <2>7. UNCHANGED <<source, account, taken, run>> /\ edits' \in 0..MaxEdits
    BY <1>3, <2>2
  <2> QED BY <1>7, <2>4, <2>5, <2>6, <2>7
<1>10. CASE DeviceCalls
  <2>1. PICK d \in rows.devices :
           InScope([rows EXCEPT
             !.devices = (@ \ {d}) \cup {[d EXCEPT !.hash = "argon2id"]},
             !.hosts = {IF x.device = d.username THEN [x EXCEPT !.ip = "newer"] ELSE x : x \in @}])
    BY <1>10 DEF DeviceCalls
  <2> DEFINE f(x) == IF x.device = d.username THEN [x EXCEPT !.ip = "newer"] ELSE x
             e == [d EXCEPT !.hash = "argon2id"]
  <2>2. rows' = [rows EXCEPT !.devices = (rows.devices \ {d}) \cup {e},
                             !.hosts = {f(x) : x \in rows.hosts}]
    BY <1>3, <2>1
  <2>3. e.username = d.username /\ \A x : f(x).name = x.name /\ f(x).zone = x.zone
    OBVIOUS
  <2> HIDE DEF f, e
  <2>4. \A x, y \in {f(x) : x \in rows.hosts} : x.name = y.name => x = y
    BY <2>3 DEF TypeOK
  <2>5. \A x \in {f(x) : x \in rows.hosts} :
           \E y \in rows.hosts : x.name = y.name /\ x.zone = y.zone
    BY <2>3
  <2>6. \A k \in (rows.devices \ {d}) \cup {e} : \E j \in rows.devices : k.username = j.username
    BY <2>3
  <2>7. UNCHANGED <<source, account, taken, run>> /\ edits' \in 0..MaxEdits
    BY <1>3, <2>1
  <2> QED BY <1>7, <2>2, <2>4, <2>5, <2>6, <2>7
<1>11. CASE TenantIsDeleted
  <2>1. /\ UNCHANGED <<source, taken, run>> /\ account' = "absent" /\ rows' = Empty
        /\ edits' \in 0..MaxEdits
    BY <1>11, ImporterAssumption DEF TenantIsDeleted, TypeOK, ImporterAssumption
  <2>2. DOMAIN Empty = Tables /\ Empty.hosts = {} /\ Empty.bindings = {}
        /\ \A t \in Named : KeysOf(Empty)[t] = {}
    BY DEF Empty, Tables, Named, KeysOf
  <2>3. TypeOK'
    BY <1>2, <2>1, <2>2 DEF TypeOK
  <2> QED BY <1>1, <1>2, <2>1, <2>2, <2>3
<1> QED BY <1>4, <1>5, <1>6, <1>8, <1>9, <1>10, <1>11

-----------------------------------------------------------------------------
(* The theorems. *)

LEMMA ImportStep == ImportInv /\ [Next]_vars => ImportInv'
<1> SUFFICES ASSUME ImportInv, [Next]_vars PROVE ImportInv'
  OBVIOUS
<1>1. CASE UNCHANGED vars
  BY <1>1 DEF vars, ImportInv, TypeOK, Alone, Keys, Passed, IsFree, KeysOf, Planned
<1>2. CASE Next
  BY <1>2, RunSteps, CommitStep, OthersStep DEF Next
<1> QED BY <1>1, <1>2

LEMMA ImportInvariant == Spec => []ImportInv
  BY ImportInit, ImportStep, PTL DEF Spec

(* Every variable keeps its type, and no two committed rows share a key:    *)
(* no other tenant's, and no other hostname of the owner.                   *)
THEOREM ImporterTypeCorrect == Spec => []TypeOK
<1>1. ImportInv => TypeOK
  BY DEF ImportInv
<1> QED BY <1>1, ImportInvariant, PTL

(* Whatever is committed between an import's look at the target and its     *)
(* commit, by other tenants, by the owner or by another import, it is never *)
(* merged with rows that use one of its names.                              *)
THEOREM ImportsNeverMerge == Spec => NeverMerges
<1>1. ImportInv /\ [Next]_vars =>
        \A r \in Runs : Commit(r) => \A t \in Named : IsFree(t)
  BY CommitStep
<1> QED BY <1>1, ImportInvariant, PTL DEF Spec, NeverMerges

(* No step but a commit moves the fleet, and none changes the source.      *)
LEMMA OnlyCommitsMove ==
  ASSUME ImportInv, [Next]_vars, \A r \in Runs : ~Commit(r)
  PROVE  source' = source /\ (MappedMoved' <=> MappedMoved)
<1> USE DEF ImportInv
<1>1. ASSUME UNCHANGED <<source, run>>
      PROVE  source' = source /\ (MappedMoved' <=> MappedMoved)
  BY <1>1 DEF MappedMoved
<1>2. ASSUME NEW r \in Runs, NEW pc \in Pcs, Goes(r, pc), OnlyRun,
             run[r].pc \in Committed <=> pc \in Committed
      PROVE  source' = source /\ (MappedMoved' <=> MappedMoved)
  BY <1>2, Going DEF MappedMoved, OnlyRun
<1>3. ASSUME NEW r \in Runs,
             \/ BuildPlan(r) \/ AssertEmpty(r) \/ ResolveOwner(r)
             \/ InsertDevices(r) \/ InsertZones(r) \/ InsertBindings(r) \/ InsertHosts(r)
             \/ DryRun(r) \/ Verify(r) \/ Dies(r)
      PROVE  source' = source /\ (MappedMoved' <=> MappedMoved)
  <2> USE DEF Pcs, Committed, Over, WithDevices, WithZones
  <2>1. CASE BuildPlan(r)
    BY <1>2, <2>1 DEF BuildPlan
  <2>2. CASE AssertEmpty(r)
    BY <1>2, <2>2 DEF AssertEmpty
  <2>3. CASE ResolveOwner(r)
    <3>1. CASE run' = [run EXCEPT ![r].pc = "owned", ![r].creates = TRUE]
      <4>1. run'[r].pc = "owned" /\ \A k \in Runs \ {r} : run'[k] = run[k]
        BY <3>1 DEF TypeOK
      <4> QED BY <2>3, <4>1 DEF ResolveOwner, MappedMoved, OnlyRun
    <3> QED BY <1>2, <2>3, <3>1 DEF ResolveOwner
  <2>4. CASE InsertDevices(r)
    BY <1>2, <2>4 DEF InsertDevices, Insert
  <2>5. CASE InsertZones(r)
    BY <1>2, <2>5 DEF InsertZones, Insert
  <2>6. CASE InsertBindings(r)
    BY <1>2, <2>6 DEF InsertBindings
  <2>7. CASE InsertHosts(r)
    BY <1>2, <2>7 DEF InsertHosts, Insert
  <2>8. CASE DryRun(r)
    BY <1>2, <2>8 DEF DryRun
  <2>9. CASE Verify(r)
    BY <1>2, <2>9 DEF Verify
  <2>10. CASE Dies(r)
    BY <1>2, <2>10 DEF Dies, TypeOK
  <2> QED BY <1>3, <2>1, <2>2, <2>3, <2>4, <2>5, <2>6, <2>7, <2>8, <2>9, <2>10
<1>4. ASSUME \/ \E t \in Named : TenantTakes(t)
             \/ OwnerAdds \/ OwnerDropsZone \/ OwnerDropsDevice \/ OwnerRepins
             \/ DeviceCalls \/ TenantIsDeleted
      PROVE  UNCHANGED <<source, run>>
  BY <1>4 DEF TenantTakes, OwnerAdds, OwnerDropsZone, OwnerDropsDevice, OwnerRepins,
              DeviceCalls, TenantIsDeleted, InScope
<1> QED BY <1>1, <1>3, <1>4 DEF Next, vars

(* The rows a commit leaves publish every name of the fleet as before.      *)
LEMMA CommitPublishes ==
  ASSUME ImportInv, NEW r \in Runs, Commit(r)
  PROVE  [n \in MigratedNames |-> Publication(rows', n)] = LegacyFleet(source)
<1>1. Plannable(source) /\ ZonesStayApart(source) /\ BindingsStayApart(source)
  BY DEF Commit, ImportInv, Passed, WithDevices, WithZones
<1>2. /\ rows'.bindings = rows.bindings \cup PlannedBindings(source)
      /\ rows'.hosts = rows.hosts \cup PlannedHosts(source)
  BY DEF Commit, Union, Tables, Planned
<1>3. IsFree("zones") /\ IsFree("hosts")
  BY CommitStep DEF Named
<1>4. rows.zones \cap PlannedZones(source) = {}
  BY <1>3 DEF IsFree, KeysOf, Planned
<1>5. \A b \in rows'.bindings :
         b.zone \in PlannedZones(source) => b \in PlannedBindings(source)
  BY <1>2, <1>4 DEF ImportInv, TypeOK
<1>6. \A x \in rows'.hosts : \A k \in DOMAIN source.hostnames :
         x.name = Normal[source.hostnames[k].name] => x \in PlannedHosts(source)
  <2> SUFFICES ASSUME NEW x \in rows.hosts, NEW k \in DOMAIN source.hostnames,
                      x.name = Normal[source.hostnames[k].name]
               PROVE  FALSE
    BY <1>2
  <2>1. KeysOf(rows)["hosts"] = {y.name : y \in rows.hosts}
    BY DEF KeysOf
  <2>2. KeysOf(Planned)["hosts"] = {y.name : y \in PlannedHosts(source)}
    BY DEF KeysOf, Planned
  <2>3. PlannedHost(source, k) \in PlannedHosts(source)
        /\ PlannedHost(source, k).name = x.name
    BY DEF PlannedHosts, PlannedHost
  <2>4. x.name \in KeysOf(rows)["hosts"] /\ x.name \in KeysOf(Planned)["hosts"]
    BY <2>1, <2>2, <2>3
  <2> QED BY <2>4, <1>3 DEF IsFree
<1>7. source \in Sources
  BY DEF ImportInv, TypeOK
<1>8. \A h \in DOMAIN source.hostnames :
         Publication(rows', Normal[source.hostnames[h].name]) = LegacyPublication(source, h)
  BY <1>1, <1>2, <1>5, <1>6, <1>7, CarriedOver
<1>9. ASSUME NEW n \in MigratedNames
      PROVE  Publication(rows', n) =
               UNION {LegacyPublication(source, h) :
                        h \in {h \in DOMAIN source.hostnames :
                                 Normal[source.hostnames[h].name] = n}}
  <2>1. PICK h \in DOMAIN source.hostnames : Normal[source.hostnames[h].name] = n
    BY DEF MigratedNames
  <2>2. {k \in DOMAIN source.hostnames : Normal[source.hostnames[k].name] = n} = {h}
    BY <2>1, <1>1 DEF Plannable, NamesStayApart
  <2> QED BY <2>1, <2>2, <1>8
<1> QED BY <1>9 DEF MigratedNames, LegacyFleet

(* The importer implements Migration, for every legacy database, any number *)
(* of runs and whatever the others write: the fleet moves in one step or    *)
(* not at all, and each name then publishes as it did.                      *)
THEOREM FleetMovesAtOnce == Spec => MovesAtOnce
<1>1. Init => Fleet!Init
  <2> SUFFICES ASSUME Init PROVE Fleet!Init
    OBVIOUS
  <2>1. ~MappedMoved
    BY DEF Init, MappedMoved, Committed
  <2>2. source \in Sources
    BY DEF Init
  <2> QED BY <2>1, <2>2 DEF Fleet!Init, MappedPublishes
<1>2. ImportInv /\ [Next]_vars => [Fleet!Next]_Fleet!vars
  <2> SUFFICES ASSUME ImportInv, [Next]_vars PROVE [Fleet!Next]_Fleet!vars
    OBVIOUS
  <2>1. ASSUME \A r \in Runs : ~Commit(r) PROVE [Fleet!Next]_Fleet!vars
    <3>1. source' = source /\ (MappedMoved' <=> MappedMoved)
      BY <2>1, OnlyCommitsMove
    <3>2. CASE MappedMoved
      BY <3>1, <3>2 DEF Fleet!Next, Fleet!Edit
    <3>3. CASE ~MappedMoved
      <4>1. MappedPublishes = LegacyFleet(source)
        BY <3>3 DEF MappedPublishes
      <4>2. MappedPublishes' = LegacyFleet(source)
        BY <3>1, <3>3 DEF MappedPublishes, LegacyFleet, LegacyPublication, BackendsOf, Chosen
      <4> QED BY <3>1, <3>3, <4>1, <4>2 DEF Fleet!vars
    <3> QED BY <3>2, <3>3
  <2>2. ASSUME NEW r \in Runs, Commit(r) PROVE [Fleet!Next]_Fleet!vars
    <3>1. run'[r].pc = "committed" /\ "committed" \in Committed /\ source' = source
      BY <2>2, Going DEF Commit, Pcs, Committed
    <3>2. MappedMoved'
      BY <3>1 DEF MappedMoved, Committed
    <3>3. CASE MappedMoved
      BY <3>2, <3>3 DEF Fleet!Next, Fleet!Edit
    <3>4. CASE ~MappedMoved
      <4>1. MappedPublishes = LegacyFleet(source)
        BY <3>4 DEF MappedPublishes
      <4>2. MappedPublishes' = [n \in MigratedNames |-> Publication(rows', n)]
        BY <3>1, <3>2 DEF MappedPublishes, MigratedNames
      <4>3. MappedPublishes' = MappedPublishes
        BY <4>1, <4>2, <2>2, CommitPublishes
      <4> QED BY <3>2, <3>4, <4>3 DEF Fleet!Next, Fleet!Move
    <3> QED BY <3>3, <3>4
  <2> QED BY <2>1, <2>2
<1> QED BY <1>1, <1>2, ImportInvariant, PTL DEF Spec, MovesAtOnce, Fleet!Spec

-----------------------------------------------------------------------------
(* Why a verification fails. *)

Sound(s) == Plannable(s) /\ ZonesStayApart(s) /\ BindingsStayApart(s)

(* While nobody else has written in the owner's scope, the target is as it  *)
(* was before the import or exactly the plan, and the plan verifies.        *)
Undisturbed ==
  edits = 0 =>
    /\ MappedMoved => Sound(source) /\ rows = Planned
    /\ ~MappedMoved => rows = Empty
    /\ \A r \in Runs : run[r].pc # "disagreed"

(* A table whose rows are told apart has as many as it is made from.        *)
LEMMA AsMany ==
  ASSUME NEW S, IsFiniteSet(S), NEW f,
         DOMAIN f = S, \A x, y \in S : f[x] = f[y] => x = y
  PROVE  Cardinality({f[x] : x \in S}) = Cardinality(S)
<1> DEFINE T == {f[x] : x \in S}
           g == [x \in S |-> f[x]]
<1>1. g \in Bijection(S, T)
  BY DEF Bijection, Injection, Surjection, IsInjective
<1> HIDE DEF T
<1> QED BY <1>1, FS_Bijection DEF ExistsBijection, T

(* compare finds nothing to say of a target that holds the plan alone: the  *)
(* counts, because the plan's natural keys are as many as the legacy rows.  *)
LEMMA PlanAgrees ==
  ASSUME NEW s \in Sources, Sound(s), NEW db,
         db.devices = PlannedDevices(s), db.zones = PlannedZones(s),
         db.bindings = PlannedBindings(s), db.hosts = PlannedHosts(s)
  PROVE  Agrees(s, db)
<1> USE DEF Sound
<1>1. /\ IsFiniteSet(DOMAIN s.users) /\ IsFiniteSet(DOMAIN s.domains)
      /\ IsFiniteSet(DOMAIN s.backends) /\ IsFiniteSet(DOMAIN s.hostnames)
  BY ImporterAssumption DEF ImporterAssumption
<1>2. SameSize(db.devices, DeviceRows(s))
  <2> DEFINE f == [u \in DeviceRows(s) |-> [username |-> u, hash |-> s.users[u].hash]]
  <2>1. IsFiniteSet(DeviceRows(s))
    BY <1>1, FS_Subset DEF DeviceRows
  <2>2. PlannedDevices(s) = {f[u] : u \in DeviceRows(s)}
    BY DEF PlannedDevices
  <2>3. \A u, v \in DeviceRows(s) : f[u] = f[v] => u = v
    <3> SUFFICES ASSUME NEW u \in DeviceRows(s), NEW v \in DeviceRows(s), f[u] = f[v]
                 PROVE  u = v
      OBVIOUS
    <3>1. f[u].username = u /\ f[v].username = v
      OBVIOUS
    <3> QED BY <3>1
  <2>4. DOMAIN f = DeviceRows(s)
    OBVIOUS
  <2> HIDE DEF f
  <2> QED BY <2>1, <2>2, <2>3, <2>4, AsMany DEF SameSize
<1>3. SameSize(db.zones, DOMAIN s.domains)
  <2> DEFINE f == [d \in DOMAIN s.domains |-> ZoneName(s, d)]
  <2>1. PlannedZones(s) = {f[d] : d \in DOMAIN s.domains}
    BY DEF PlannedZones
  <2>2. \A d, e \in DOMAIN s.domains : f[d] = f[e] => d = e
    BY DEF ZonesStayApart
  <2>3. DOMAIN f = DOMAIN s.domains
    OBVIOUS
  <2> HIDE DEF f
  <2> QED BY <1>1, <2>1, <2>2, <2>3, AsMany DEF SameSize
<1>4. SameSize(db.bindings, DOMAIN s.backends)
  <2> DEFINE f == [b \in DOMAIN s.backends |->
                     [zone |-> ZoneName(s, s.backends[b].domain), type |-> TypeOf(s, b),
                      credentials |-> s.backends[b].cipher,
                      ttl |-> ZoneTtl(s, s.backends[b].domain)]]
  <2>1. PlannedBindings(s) = {f[b] : b \in DOMAIN s.backends}
    BY DEF PlannedBindings
  <2>2. \A b, c \in DOMAIN s.backends : f[b] = f[c] => b = c
    <3> SUFFICES ASSUME NEW b \in DOMAIN s.backends, NEW c \in DOMAIN s.backends, f[b] = f[c]
                 PROVE  b = c
      OBVIOUS
    <3>1. /\ f[b].zone = ZoneName(s, s.backends[b].domain) /\ f[b].type = TypeOf(s, b)
          /\ f[c].zone = ZoneName(s, s.backends[c].domain) /\ f[c].type = TypeOf(s, c)
      OBVIOUS
    <3> HIDE DEF f
    <3>2. s.backends[b].domain = s.backends[c].domain
      BY <3>1 DEF BindingsStayApart, ZonesStayApart
    <3> QED BY <3>1, <3>2 DEF BindingsStayApart
  <2>3. DOMAIN f = DOMAIN s.backends
    OBVIOUS
  <2> HIDE DEF f
  <2> QED BY <1>1, <2>1, <2>2, <2>3, AsMany DEF SameSize
<1>5. SameSize(db.hosts, DOMAIN s.hostnames)
  <2> DEFINE f == [h \in DOMAIN s.hostnames |-> PlannedHost(s, h)]
  <2>1. PlannedHosts(s) = {f[h] : h \in DOMAIN s.hostnames}
    BY DEF PlannedHosts
  <2>2. \A h, k \in DOMAIN s.hostnames : f[h] = f[k] => h = k
    <3> SUFFICES ASSUME NEW h \in DOMAIN s.hostnames, NEW k \in DOMAIN s.hostnames,
                        PlannedHost(s, h) = PlannedHost(s, k)
                 PROVE  h = k
      OBVIOUS
    <3>1. /\ PlannedHost(s, h).name = Normal[s.hostnames[h].name]
          /\ PlannedHost(s, k).name = Normal[s.hostnames[k].name]
      BY DEF PlannedHost
    <3> QED BY <3>1 DEF Plannable, NamesStayApart
  <2>3. DOMAIN f = DOMAIN s.hostnames
    OBVIOUS
  <2> HIDE DEF f
  <2> QED BY <1>1, <2>1, <2>2, <2>3, AsMany DEF SameSize
<1>6. ASSUME NEW h \in DOMAIN s.hostnames
      PROVE  Publication(db, Normal[s.hostnames[h].name]) = ExpectedPublication(s, h)
  <2> DEFINE d == s.hostnames[h].domain
  <2>1. Publication(db, Normal[s.hostnames[h].name]) = LegacyPublication(s, h)
    BY CarriedOver
  <2>2. Chosen(s, h) \subseteq BackendsOf(s, d)
    BY DEF Chosen, Plannable, SelectionsAreLocal
  <2>3. \A b \in BackendsOf(s, d) :
           (Selected(s, h) = {} \/ b \in Selected(s, h))
             <=> (Chosen(s, h) = {} \/ b \in Chosen(s, h))
    BY <2>2 DEF Selected
  <2> QED BY <2>1, <2>3 DEF LegacyPublication, ExpectedPublication, TypeOf
<1> QED BY <1>2, <1>3, <1>4, <1>5, <1>6 DEF Agrees

(* A run's own steps leave the target undisturbed, its verification too.   *)
LEMMA UndisturbedStep ==
  ASSUME ImportInv, Undisturbed, [Next]_vars
  PROVE  Undisturbed'
<1>1. edits \in Nat
  BY DEF ImportInv, TypeOK
<1>2. CASE edits' # 0
  BY <1>2 DEF Undisturbed
<1>3. ASSUME NEW r \in Runs, Commit(r), edits' = 0
      PROVE  Undisturbed'
  <2>1. /\ edits = 0 /\ source' = source
        /\ rows' = Union(rows, Planned)
        /\ run'[r].pc = "committed" /\ \A k \in Runs \ {r} : run'[k] = run[k]
    BY <1>3, Going DEF Commit, Pcs, Committed
  <2>2. Sound(source)
    BY <1>3 DEF Commit, ImportInv, Passed, WithDevices, WithZones, Sound
  <2>3. ~MappedMoved
    <3> SUFFICES ASSUME MappedMoved PROVE FALSE
      OBVIOUS
    <3>1. rows = Planned
      BY <2>1 DEF Undisturbed
    <3>2. KeysOf(Planned)["devices"] = {}
      BY <1>3, <3>1, CommitStep DEF Named, IsFree
    <3>3. PICK u : u \in DeviceRows(source)
      BY <2>2 DEF Sound, Plannable
    <3>4. [username |-> u, hash |-> source.users[u].hash] \in Planned.devices
      BY <3>3 DEF Planned, PlannedDevices
    <3>5. KeysOf(Planned)["devices"] = {x.username : x \in Planned.devices}
      BY DEF KeysOf
    <3> QED BY <3>2, <3>4, <3>5
  <2>4. rows' = Planned
    <3>1. rows = Empty
      BY <2>1, <2>3 DEF Undisturbed
    <3>2. \A t \in Tables : Empty[t] = {}
      BY DEF Empty, Tables
    <3>3. Planned = [t \in Tables |-> Planned[t]]
      BY DEF Planned, Tables
    <3> QED BY <2>1, <3>1, <3>2, <3>3 DEF Union
  <2>5. MappedMoved'
    BY <2>1 DEF MappedMoved, Committed
  <2>6. \A k \in Runs : run'[k].pc # "disagreed"
    BY <2>1 DEF Undisturbed
  <2>7. Planned' = Planned /\ Sound(source')
    BY <2>1, <2>2 DEF Planned
  <2> QED BY <2>1, <2>4, <2>5, <2>6, <2>7 DEF Undisturbed
<1>4. ASSUME \A r \in Runs : ~Commit(r), edits' = edits, rows' = rows,
             \A r \in Runs : run'[r].pc = "disagreed" => run[r].pc = "disagreed"
      PROVE  Undisturbed'
  <2>1. source' = source /\ (MappedMoved' <=> MappedMoved)
    BY <1>4, OnlyCommitsMove
  <2>2. Planned' = Planned
    BY <2>1 DEF Planned
  <2> QED BY <1>4, <2>1, <2>2 DEF Undisturbed
<1>5. ASSUME \A r \in Runs : ~Commit(r), edits' = 0, NEW r \in Runs,
             \/ BuildPlan(r) \/ AssertEmpty(r) \/ ResolveOwner(r)
             \/ InsertDevices(r) \/ InsertZones(r) \/ InsertBindings(r) \/ InsertHosts(r)
             \/ DryRun(r) \/ Verify(r) \/ Dies(r)
      PROVE  Undisturbed'
  <2>1. OnlyRun
    BY <1>5 DEF BuildPlan, AssertEmpty, ResolveOwner, InsertDevices, InsertZones,
                InsertBindings, InsertHosts, Insert, DryRun, Verify, Dies
  <2>2. ASSUME NEW pc \in Pcs \ {"disagreed"}, Goes(r, pc) PROVE Undisturbed'
    BY <1>4, <1>5, <2>1, <2>2, Going DEF OnlyRun
  <2>3. CASE Verify(r)
    <3>1. MappedMoved /\ edits = 0
      BY <1>5, <2>1, <2>3 DEF Verify, MappedMoved, Committed, OnlyRun
    <3>2. Sound(source) /\ rows = Planned
      BY <3>1 DEF Undisturbed
    <3>3. Agrees(source, rows)
      BY <3>2, PlanAgrees DEF Planned, ImportInv, TypeOK
    <3>4. Goes(r, "agreed") /\ "agreed" \in Pcs \ {"disagreed"}
      BY <2>3, <3>3 DEF Verify, Pcs, Committed
    <3> QED BY <2>2, <3>4
  <2>4. CASE ResolveOwner(r)
    <3>1. CASE run' = [run EXCEPT ![r].pc = "owned", ![r].creates = TRUE]
      <4>1. run'[r].pc = "owned" /\ \A k \in Runs \ {r} : run'[k] = run[k]
        BY <3>1 DEF ImportInv, TypeOK
      <4> QED BY <1>4, <1>5, <2>1, <4>1 DEF OnlyRun
    <3>2. {"owned", "refused"} \subseteq Pcs \ {"disagreed"}
      BY DEF Pcs, Over
    <3> QED BY <2>2, <2>4, <3>1, <3>2 DEF ResolveOwner
  <2>5. {"planned", "refused", "empty", "devices", "zones", "bindings", "hosts", "failed", "dry",
         "unverified"} \subseteq Pcs \ {"disagreed"}
    BY DEF Pcs, Over, WithDevices
  <2>6. CASE BuildPlan(r) \/ AssertEmpty(r) \/ DryRun(r) \/ Dies(r)
    BY <2>2, <2>5, <2>6 DEF BuildPlan, AssertEmpty, DryRun, Dies
  <2>7. CASE InsertDevices(r) \/ InsertZones(r) \/ InsertBindings(r) \/ InsertHosts(r)
    BY <2>2, <2>5, <2>7 DEF InsertDevices, InsertZones, InsertBindings, InsertHosts, Insert
  <2> QED BY <1>5, <2>3, <2>4, <2>6, <2>7
<1>6. ASSUME \A r \in Runs : ~Commit(r), NEW t, TenantTakes(t)
      PROVE  Undisturbed'
  BY <1>4, <1>6 DEF TenantTakes
<1>7. ASSUME \/ OwnerAdds \/ OwnerDropsZone \/ OwnerDropsDevice \/ OwnerRepins
             \/ DeviceCalls \/ TenantIsDeleted
      PROVE  edits' # 0
  <2>1. edits' = edits + 1
    BY <1>7, Zenon DEF OwnerAdds, OwnerDropsZone, OwnerDropsDevice, OwnerRepins,
                       DeviceCalls, TenantIsDeleted, InScope
  <2> QED BY <1>1, <2>1
<1>8. ASSUME \A r \in Runs : ~Commit(r), UNCHANGED vars
      PROVE  Undisturbed'
  BY <1>4, <1>8 DEF vars
<1> QED BY <1>2, <1>3, <1>5, <1>6, <1>7, <1>8 DEF Next

(* An import on its own never ends in exit code 1: whatever legacy database *)
(* it accepts, and however many runs and other tenants there are, a         *)
(* verification that fails saw somebody else's writes in the owner's scope. *)
THEOREM AlarmsHaveCauses == Spec => []AlarmHasACause
<1>1. Init => Undisturbed
  BY DEF Init, Undisturbed, MappedMoved, Committed
<1>2. Undisturbed /\ TypeOK => AlarmHasACause
  BY DEF Undisturbed, AlarmHasACause, TypeOK
<1>3. ImportInv => TypeOK
  BY DEF ImportInv
<1> QED BY <1>1, <1>2, <1>3, UndisturbedStep, ImportInvariant, PTL DEF Spec
=============================================================================
