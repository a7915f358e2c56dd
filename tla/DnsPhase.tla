------------------------------ MODULE DnsPhase ------------------------------
(***************************************************************************)
(* The DNS phase of one hostname's publish over every backend of its zone: *)
(* load_plans and resolve_backends choose the backends, run_dns_phase asks *)
(* them one after another, aggregate makes one answer of their answers and *)
(* persist_updates records it.  The calls of a device are serialised by    *)
(* its row (see Publishing), so one call is in flight here.                *)
(*                                                                         *)
(* The adapters differ in whom they ask whether a write is needed:         *)
(* nsupdate asks the server it is about to update, route53 and hetzner ask *)
(* the nameserver the parent zone delegates to, whoever runs it.  A delete  *)
(* is one message to nsupdate, a listing and a batch to route53, and a     *)
(* request per record type to hetzner.                                     *)
(***************************************************************************)
EXTENDS Naturals, Sequences, FiniteSets

CONSTANTS
  N,            \* backends are numbered in DomainBackend.id order
  Kind,         \* the adapter of each: "route53", "hetzner" or "nsupdate"
  Delegated,    \* the backends whose servers the parent zone delegates to
  Families,     \* the record types, in the order a delete goes through them
  Ips, NULL,
  Faults        \* which of the faults below may happen

Backends == 1..N

ASSUME DnsPhaseAssumption ==
  /\ N \in Nat \ {0}
  /\ Kind \in [Backends -> {"route53", "hetzner", "nsupdate"}]
  /\ Delegated \subseteq Backends /\ Delegated # {}
  /\ NULL \notin Ips
  /\ Families \subseteq {"A", "AAAA"} /\ Families # {}
  /\ Faults \subseteq {"provider", "discovery", "page", "resolver", "foreign",
                   "bindings", "credentials", "zone"}

VARIABLES
  bound,     \* Domain.backends, the rows of ddns_domain_backend
  selected,  \* Hostname.selected_backends; none means all of bound
  creds,     \* each backend's credentials: none to reveal, incomplete, or whole
  inside,    \* the hostname is inside its zone (zone_contains)
  hosted,    \* the backends whose provider account has the zone
  holds,     \* the record set each backend's own servers answer
  last,      \* last_ip_v4 and last_ip_v6
  home,      \* the device's addresses
  call       \* the request in its DNS phase

configuration == <<bound, selected, creds, inside, hosted>>
vars == <<configuration, holds, last, home, call>>

Address == Ips \cup {NULL}
Credentials == {"none", "partial", "whole"}
Statuses == {"good", "nochg", "dnserr", "911", "nohost"}

(* What an adapter keeps from one exchange of a delete to the next: the    *)
(* handle of the zone, the record types gone through and whether any was   *)
(* there (hetzner), the record sets listed (route53).                      *)
Nothing == [f \in Families |-> NULL]
Fresh == [begun |-> FALSE, handle |-> FALSE, gone |-> {}, any |-> FALSE, listed |-> Nothing]

(* excused is history: the backends whose record sets somebody else has    *)
(* edited during the call, or the call was not shown whole.                *)
Idle == [op |-> "none", fams |-> {}, ip |-> NULL, plan |-> <<>>,
         creds |-> [b \in Backends |-> "none"], inside |-> FALSE,
         answers |-> <<>>, turn |-> Fresh, excused |-> {}]

Init ==
  /\ bound = Backends /\ selected \in SUBSET Backends
  /\ creds \in [Backends -> Credentials]
  /\ inside = TRUE
  /\ hosted = Backends
  /\ holds = [b \in Backends |-> Nothing]
  /\ last = Nothing
  /\ home \in [Families -> Ips]
  /\ call = Idle

-----------------------------------------------------------------------------
(* resolve_backends: the selection, or every backend when there is none,   *)
(* in the zone's order.                                                    *)
Resolved == IF selected = {} THEN bound ELSE bound \cap selected

Rank(b, S) == Cardinality({x \in S : x < b})
InOrder(S) == [i \in 1..Cardinality(S) |-> CHOOSE b \in S : Rank(b, S) = i - 1]

(* aggregate: any good, else all nochg, else the first of the others.      *)
Settled == {"good", "nochg"}

(* Mutant: the last of the others.                                         *)
AggregateLast(s) ==
  IF \E i \in DOMAIN s : s[i] = "good" THEN "good" ELSE s[Len(s)]

(* Mutant: a nochg outweighs failures.                                     *)
AggregateHiding(s) ==
  IF \E i \in DOMAIN s : s[i] = "good" THEN "good"
  ELSE IF \E i \in DOMAIN s : s[i] = "nochg" THEN "nochg"
  ELSE s[1]

Aggregate(s) ==
  IF \E i \in DOMAIN s : s[i] = "good" THEN "good"
  ELSE IF \A i \in DOMAIN s : s[i] = "nochg" THEN "nochg"
  ELSE s[CHOOSE i \in DOMAIN s :
           s[i] \notin Settled /\ \A j \in 1..(i - 1) : s[j] \in Settled]

(* A hostname with no backend is answered before aggregate is reached.     *)
Answer(s) == IF s = <<>> THEN "911" ELSE Aggregate(s)

-----------------------------------------------------------------------------
Start(op, fams, ip) ==
  /\ call.op = "none"
  /\ call' = [Idle EXCEPT !.op = op, !.fams = fams, !.ip = ip, !.plan = InOrder(Resolved),
                          !.creds = creds, !.inside = inside]
  /\ UNCHANGED <<configuration, holds, last, home>>

StartUpdate(f) == Start("update", {f}, home[f])
StartDelete(fams) == Start("delete", fams, NULL)

Asking == call.op # "none" /\ Len(call.answers) < Len(call.plan)
Current == call.plan[Len(call.answers) + 1]

Answered(status) == [call EXCEPT !.answers = Append(@, status), !.turn = Fresh]

(* _run_backend: no credentials, or the owner's key is shredded, is 911; a *)
(* hostname outside the zone is nohost; an adapter that misses one of the  *)
(* keys it requires says dnserr and asks nobody.                           *)
Unprovisioned ==
  /\ Asking
  /\ \/ call.creds[Current] = "none" /\ call' = Answered("911")
     \/ call.creds[Current] # "none" /\ ~call.inside /\ call' = Answered("nohost")
     \/ call.creds[Current] = "partial" /\ call.inside /\ call' = Answered("dnserr")
  /\ UNCHANGED <<configuration, holds, last, home>>

Provisioned(op) ==
  /\ Asking /\ call.op = op
  /\ call.creds[Current] = "whole" /\ call.inside

(* Discovery looks the zone up in the account.  Where that fails, or the   *)
(* account has no such zone, the configured name stands in for the handle  *)
(* and the provider knows no zone by it.  nsupdate looks nothing up.       *)
Unfound == Current \notin hosted \/ ("discovery" \in Faults /\ Kind[Current] # "nsupdate")
Refusing == Unfound \/ "provider" \in Faults

(* The provider applies a write, and its answer may still be lost.         *)
Applied ==
  /\ Current \in hosted
  /\ call' = Answered("good") \/ ("provider" \in Faults /\ call' = Answered("dnserr"))

Refused ==
  /\ Refusing
  /\ call' = Answered("dnserr")
  /\ UNCHANGED holds

(* Mutant: every adapter asks the delegated nameserver.                    *)
AskedElsewhere(b) == Delegated

(* check_hostnameon_server: the servers that are asked about backend b.    *)
Asked(b) == IF Kind[b] = "nsupdate" THEN {b} ELSE Delegated

(* createrecords finds the address served: nothing is written.             *)
Unchanged(f) ==
  /\ Provisioned("update") /\ f \in call.fams
  /\ \E b \in Asked(Current) : holds[b][f] = call.ip
  /\ call' = Answered("nochg")
  /\ UNCHANGED <<configuration, holds, last, home>>

Differs(f) == \E b \in Asked(Current) : holds[b][f] # call.ip

(* It finds another, or cannot tell, and upserts.                          *)
Upsert(f) ==
  /\ Provisioned("update") /\ f \in call.fams
  /\ Differs(f) \/ "resolver" \in Faults
  /\ \/ holds' = [holds EXCEPT ![Current][f] = call.ip] /\ Applied
     \/ Refused
  /\ UNCHANGED <<configuration, last, home>>

Without(fams) == [holds EXCEPT ![Current] =
                    [f \in Families |-> IF f \in fams THEN NULL ELSE @[f]]]
Present == {f \in call.fams : holds[Current][f] # NULL}

(* deleterecords of nsupdate: one message for all, and a record that is    *)
(* not there is deleted like any other.                                    *)
DeleteMessage ==
  /\ Provisioned("delete") /\ Kind[Current] = "nsupdate"
  /\ \/ holds' = Without(call.fams) /\ Applied
     \/ Refused
  /\ UNCHANGED <<configuration, last, home>>

(* Of route53: the zone is listed, one page of it, in order of the types.  *)
Pages == IF "page" \in Faults THEN {call.fams, call.fams \cap {"A"}, {}} ELSE {call.fams}

ListRecords ==
  /\ Provisioned("delete") /\ Kind[Current] = "route53" /\ ~call.turn.begun
  /\ \/ /\ Current \in hosted
        /\ \E page \in Pages :
             LET unseen == IF Present \subseteq page THEN {} ELSE {Current}
             IN IF Present \cap page = {}
                THEN call' = [Answered("nochg") EXCEPT !.excused = @ \cup unseen]
                ELSE call' = [call EXCEPT
                       !.excused = @ \cup unseen, !.turn.begun = TRUE,
                       !.turn.listed = [f \in Families |->
                          IF f \in Present \cap page THEN holds[Current][f] ELSE NULL]]
        /\ UNCHANGED holds
     \/ Refused
  /\ UNCHANGED <<configuration, last, home>>

(* Then what was listed is deleted in one batch, if it is all as listed.   *)
Listed == {f \in Families : call.turn.listed[f] # NULL}
AsListed == \A f \in Listed : holds[Current][f] = call.turn.listed[f]

DeleteListed ==
  /\ Provisioned("delete") /\ Kind[Current] = "route53" /\ call.turn.begun
  /\ \/ AsListed /\ holds' = Without(Listed) /\ Applied
     \/ /\ ~AsListed \/ "provider" \in Faults
        /\ call' = Answered("dnserr") /\ UNCHANGED holds
  /\ UNCHANGED <<configuration, last, home>>

(* Of hetzner: record type after record type, A first; a 404 goes on to    *)
(* the next, and any other failure ends it half-way.                       *)
NextType == LET left == call.fams \ call.turn.gone IN IF "A" \in left THEN "A" ELSE "AAAA"

(* Whether the handle is the zone's, found once for the whole delete.      *)
Handles ==
  IF call.turn.begun THEN {call.turn.handle}
  ELSE {h \in BOOLEAN : IF h THEN Current \in hosted ELSE Unfound}

(* Mutant: a record set that is not there ends the delete.                 *)
DeletedUnlessMissing(f, any, there) ==
  IF ~there \/ call.fams \subseteq call.turn.gone \cup {f}
  THEN Answered(IF any THEN "good" ELSE "nochg")
  ELSE [call EXCEPT !.turn.gone = @ \cup {f}, !.turn.any = any]

(* The last record type makes the answer: good if any was there.           *)
Deleted(f, any, there) ==
  IF call.fams \subseteq call.turn.gone \cup {f}
  THEN Answered(IF any THEN "good" ELSE "nochg")
  ELSE [call EXCEPT !.turn.gone = @ \cup {f}, !.turn.any = any]

DeleteNextType ==
  /\ Provisioned("delete") /\ Kind[Current] = "hetzner"
  /\ LET f == NextType IN
     \E handle \in Handles :
       LET there == handle /\ f \in Present
           unseen == IF ~handle /\ f \in Present THEN {Current} ELSE {}
           after == Deleted(f, call.turn.any \/ there, there)
       IN \/ /\ holds' = IF there THEN Without({f}) ELSE holds
             /\ call' = IF Len(after.answers) > Len(call.answers)
                        THEN [after EXCEPT !.excused = @ \cup unseen]
                        ELSE [after EXCEPT !.excused = @ \cup unseen, !.turn.begun = TRUE,
                                           !.turn.handle = handle]
          \/ /\ "provider" \in Faults
             /\ holds' \in {holds, IF there THEN Without({f}) ELSE holds}
             /\ call' = Answered("dnserr")
  /\ UNCHANGED <<configuration, last, home>>

(* Mutant: the answer is not looked at.                                    *)
FinishRecording ==
  /\ call.op # "none" /\ ~Asking
  /\ last' = [f \in Families |-> IF f \in call.fams THEN call.ip ELSE last[f]]
  /\ call' = Idle
  /\ UNCHANGED <<configuration, holds, home>>

(* persist_updates records an update that settled; a delete records none.  *)
Finish ==
  /\ call.op # "none" /\ ~Asking
  /\ last' = IF call.op = "update" /\ Answer(call.answers) \in Settled
               THEN [f \in Families |-> IF f \in call.fams THEN call.ip ELSE last[f]]
               ELSE last
  /\ call' = Idle
  /\ UNCHANGED <<configuration, holds, home>>

-----------------------------------------------------------------------------
(* The tenant: bindings, selections and credentials, and the hostname's    *)
(* own name.  A selection names bindings of the zone, unbinding takes its  *)
(* selections with it, and a new binding has the highest id.               *)
Select(S) ==
  /\ "bindings" \in Faults
  /\ S \subseteq bound /\ selected # S
  /\ selected' = S
  /\ UNCHANGED <<bound, creds, inside, hosted, holds, last, home, call>>

Bind(b) ==
  /\ "bindings" \in Faults
  /\ \A x \in bound : x < b
  /\ bound' = bound \cup {b}
  /\ UNCHANGED <<selected, creds, inside, hosted, holds, last, home, call>>

(* Mutant: no cascade from the binding to the selections of it.            *)
UnbindOnly(b) ==
  /\ "bindings" \in Faults
  /\ b \in bound
  /\ bound' = bound \ {b}
  /\ UNCHANGED <<selected, creds, inside, hosted, holds, last, home, call>>

Unbind(b) ==
  /\ "bindings" \in Faults
  /\ b \in bound
  /\ bound' = bound \ {b} /\ selected' = selected \ {b}
  /\ UNCHANGED <<creds, inside, hosted, holds, last, home, call>>

Provision(b, c) ==
  /\ "credentials" \in Faults
  /\ creds[b] # c
  /\ creds' = [creds EXCEPT ![b] = c]
  /\ UNCHANGED <<bound, selected, inside, hosted, holds, last, home, call>>

(* Nothing holds a hostname's name inside its zone: hostnameperzone looks. *)
Rename ==
  /\ "credentials" \in Faults
  /\ inside' = ~inside
  /\ UNCHANGED <<bound, selected, creds, hosted, holds, last, home, call>>

(* Outside the program: the zone leaves the account with all it holds, or  *)
(* comes to it empty; somebody edits the record set.                       *)
Excusing(b) == IF call.op = "none" THEN call ELSE [call EXCEPT !.excused = @ \cup {b}]

Unhost(b) ==
  /\ "zone" \in Faults
  /\ b \in hosted
  /\ hosted' = hosted \ {b}
  /\ holds' = [holds EXCEPT ![b] = Nothing]
  /\ call' = Excusing(b)
  /\ UNCHANGED <<bound, selected, creds, inside, last, home>>

Host(b) ==
  /\ "zone" \in Faults
  /\ b \notin hosted
  /\ hosted' = hosted \cup {b}
  /\ UNCHANGED <<bound, selected, creds, inside, holds, last, home, call>>

ForeignEdit(b, f, a) ==
  /\ "foreign" \in Faults
  /\ b \in hosted /\ holds[b][f] # a
  /\ holds' = [holds EXCEPT ![b][f] = a]
  /\ call' = Excusing(b)
  /\ UNCHANGED <<configuration, last, home>>

DeviceMoves(f, ip) ==
  /\ home[f] # ip
  /\ home' = [home EXCEPT ![f] = ip]
  /\ UNCHANGED <<configuration, holds, last, call>>

Phase ==
  \/ Unprovisioned
  \/ \E f \in Families : Unchanged(f) \/ Upsert(f)
  \/ DeleteMessage
  \/ ListRecords \/ DeleteListed
  \/ DeleteNextType
  \/ Finish

Configuration ==
  \/ \E S \in SUBSET Backends : Select(S)
  \/ \E b \in Backends : Bind(b) \/ Unbind(b) \/ Host(b) \/ Unhost(b)
  \/ \E b \in Backends, c \in Credentials : Provision(b, c)
  \/ Rename

Next ==
  \/ \E f \in Families : StartUpdate(f)
  \/ \E fams \in SUBSET Families \ {{}} : StartDelete(fams)
  \/ Phase
  \/ Configuration
  \/ \E b \in Backends, f \in Families, a \in Address : ForeignEdit(b, f, a)
  \/ \E f \in Families, ip \in Ips : DeviceMoves(f, ip)

Spec == Init /\ [][Next]_vars

(* The device calls again and again for each family, every call runs to    *)
(* its end, and a provider that is asked again and again succeeds once.    *)
Fairness ==
  /\ \A f \in Families : SF_vars(StartUpdate(f))
  /\ WF_vars(Phase)
  /\ \A f \in Families, b \in Backends :
       SF_vars(/\ Asking /\ Current = b /\ Differs(f)
               /\ Upsert(f) /\ call'.answers[Len(call.answers) + 1] = "good")

FairSpec == Spec /\ Fairness

-----------------------------------------------------------------------------
(* Every variable has its type, a selection names bindings that exist, no   *)
(* backend is asked twice, and only one whose turn it is has an exchange.   *)
Turns == [begun : BOOLEAN, handle : BOOLEAN, gone : SUBSET Families, any : BOOLEAN,
          listed : [Families -> Address]]

Calls == [op : {"none", "update", "delete"}, fams : SUBSET Families, ip : Address,
          plan : Seq(Backends), creds : [Backends -> Credentials], inside : BOOLEAN,
          answers : Seq(Statuses), turn : Turns, excused : SUBSET Backends]

TypeOK ==
  /\ bound \subseteq Backends /\ selected \subseteq bound
  /\ creds \in [Backends -> Credentials] /\ inside \in BOOLEAN /\ hosted \subseteq Backends
  /\ holds \in [Backends -> [Families -> Address]]
  /\ last \in [Families -> Address]
  /\ home \in [Families -> Ips]
  /\ call \in Calls
  /\ \A i, j \in DOMAIN call.plan : i < j => call.plan[i] < call.plan[j]
  /\ Len(call.answers) <= Len(call.plan)
  /\ call.turn.begun => Asking

(* The servers of b answer a for f, unless somebody else edited the record *)
(* set while the call ran or the provider did not show it to the call.     *)
Serves(b, f, a) == holds[b][f] = a \/ b \in call.excused

(* A backend that has answered a delete good or nochg holds none of the    *)
(* record types asked for, however many exchanges its adapter needed and   *)
(* whatever failed half-way on the others, until the call is over.         *)
DeleteIsComplete ==
  call.op = "delete" =>
    \A i \in DOMAIN call.answers :
      call.answers[i] \in Settled => \A f \in call.fams : Serves(call.plan[i], f, NULL)

(* A device told nochg has nothing to repeat: after an update a server that *)
(* is asked on behalf of each backend of the plan has the address, after a  *)
(* delete no backend of the plan has any of the record types.               *)
NochgIsFinal ==
  [][Finish /\ Answer(call.answers) = "nochg" =>
       \A i \in DOMAIN call.plan, f \in call.fams :
         IF call.op = "update"
         THEN \E b \in Asked(call.plan[i]) : Serves(b, f, call.ip)
         ELSE Serves(call.plan[i], f, NULL)]_vars

(* What the row comes to record is held by a backend of the plan, or by a   *)
(* server the world asks: no failure is recorded as a success.              *)
RecordedIsHeld ==
  [][\A f \in Families :
       last'[f] # last[f] =>
         \E b \in Delegated \cup {call.plan[i] : i \in DOMAIN call.plan} :
           Serves(b, f, last'[f])]_vars

(* A router told of a failure is told of the earliest one, with nothing    *)
(* but backends that needed no write before it: a backend that was written *)
(* makes the word good, and repairing the one named changes the word.      *)
WordNamesTheFirstFailure ==
  [][Finish /\ call.plan # <<>> /\ Answer(call.answers) \notin Settled =>
       \E i \in DOMAIN call.answers :
         /\ call.answers[i] = Answer(call.answers)
         /\ \A j \in 1..(i - 1) : call.answers[j] = "nochg"]_vars

(* Once the device, the zone and the configuration rest, every backend the *)
(* hostname resolves to that is asked for itself comes to hold its         *)
(* addresses, those that failed behind another's good included.            *)
Disturbed ==
  \/ \E f \in Families, ip \in Ips : DeviceMoves(f, ip)
  \/ \E b \in Backends, f \in Families, a \in Address : ForeignEdit(b, f, a)
  \/ \E fams \in SUBSET Families \ {{}} : StartDelete(fams)
  \/ Configuration

Reachable(b) ==
  /\ Kind[b] = "nsupdate" \/ Delegated = {b}
  /\ creds[b] = "whole" /\ b \in hosted /\ inside

EveryBackendCatchesUp ==
  <>[][~Disturbed]_vars =>
    <>[](\A f \in Families, b \in Resolved : Reachable(b) => holds[b][f] = home[f])
=============================================================================
