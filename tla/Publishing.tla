----------------------------- MODULE Publishing -----------------------------
(***************************************************************************)
(* One hostname row, the record set its provider holds, and everything     *)
(* that races over the two of them:                                        *)
(*                                                                         *)
(*   - calls that publish: GET /nic/update from the device (WireCalls) and *)
(*     POST /hostnames/{id}/update from a person (ManualCalls), each of    *)
(*     which reads the row, writes DNS outside the transaction, and writes *)
(*     the row back;                                                       *)
(*   - GET /nic/delete, which changes DNS and leaves the row alone;        *)
(*   - health-check sweeps, the worker's (Scheduled) and the "Check now"   *)
(*     button's (Forced), which read the row, resolve with no session      *)
(*     open, and overwrite the four dns_* columns;                         *)
(*   - POST /health-checks/clear and POST /hostnames/{id}/adopt-zone.      *)
(*                                                                         *)
(* The database runs at READ COMMITTED, so a step that commits is atomic   *)
(* and a step that reads sees the last commit.  A session keeps the copy   *)
(* of the row it first loaded (the identity map) and its flush writes only *)
(* the columns that differ from that copy: Flush below.                    *)
(*                                                                         *)
(* A request naming several hostnames is one call per hostname here: the   *)
(* hostnames of one request share a commit and a device lock and nothing   *)
(* else.  A refused call (badauth, abuse, 911, notfqdn, nohost) touches    *)
(* neither the row nor DNS and is a stuttering step.                       *)
(***************************************************************************)
EXTENDS Naturals, FiniteSets

CONSTANTS
  Families,      \* the record types, "v4" for A and "v6" for AAAA
  Ips,           \* the addresses a caller may ask for
  NULL,          \* SQL NULL, and "no such record" in the zone
  WireCalls,     \* concurrent GET /nic/update requests of the device
  ManualCalls,   \* concurrent POST /hostnames/{id}/update requests
  Scheduled,     \* sweeps the worker's scheduler runs (at most one at a time)
  Forced,        \* sweeps POST /health-checks/run starts
  Adopters,      \* concurrent POST /hostnames/{id}/adopt-zone requests
  Hazards        \* which misfortunes the environment may inflict

Misfortunes == {"lag",        \* the provider's own servers answer late
                "foreign",    \* somebody else edits the zone
                "delete",     \* the device calls /nic/delete
                "commit",     \* the commit after the DNS write fails
                "provider",   \* the provider call fails, applied or not
                "resolver",   \* a DNS query fails
                "overlap"}    \* a sweep is in flight while a call is

ASSUME PublishingAssumption ==
  /\ Families # {}
  /\ NULL \notin Ips
  /\ WireCalls \cap ManualCalls = {}
  /\ Scheduled \cap Forced = {}
  /\ Hazards \subseteq Misfortunes
  /\ Ips \cap {"error", "unasked", "pending"} = {}
  /\ NULL \notin {"error", "unasked", "pending"}

Calls  == WireCalls \cup ManualCalls
Sweeps == Scheduled \cup Forced

VARIABLES
  row,        \* the committed ddns_hostname row
  grace,      \* last_updated_at > now - health_check_publish_grace_seconds
  accepted,   \* what the provider has been told the record is
  served,     \* what the zone's nameservers answer
  home,       \* the address the device has right now
  call,       \* the requests in flight
  sweep,      \* the sweeps in flight
  adopt,      \* the adoptions in flight
  carried     \* history: every address the provider has held

vars == <<row, grace, accepted, served, home, call, sweep, adopt, carried>>

Address == Ips \cup {NULL}

(* last is last_ip_v4/v6, dns is dns_ip_v4/v6, checked is "dns_checked_at  *)
(* IS NOT NULL" and error is "dns_check_error IS NOT NULL".                *)
Row == [last : [Families -> Address], dns : [Families -> Address],
        checked : BOOLEAN, error : BOOLEAN]

NewRow == [last |-> [f \in Families |-> NULL], dns |-> [f \in Families |-> NULL],
           checked |-> FALSE, error |-> FALSE]

CallState  == [pc : {"idle", "sent", "admitted", "answered"},
               fam : Families, ip : Address,
               status : {"none", "good", "nochg", "failed"}, seen : Row]
SweepState == [pc : {"idle", "resolving"},
               obs : [Families -> Address \cup {"error", "unasked", "pending"}]]
AdoptState == [pc : {"idle", "loaded"}, seen : Row]

IdleCall  == [pc |-> "idle", fam |-> CHOOSE f \in Families : TRUE,
              ip |-> NULL, status |-> "none", seen |-> NewRow]
IdleSweep == [pc |-> "idle", obs |-> [f \in Families |-> "unasked"]]
IdleAdopt == [pc |-> "idle", seen |-> NewRow]

Init ==
  /\ row = NewRow
  /\ grace = FALSE
  /\ accepted = [f \in Families |-> NULL]
  /\ served = [f \in Families |-> NULL]
  /\ home \in [Families -> Ips]
  /\ call = [c \in Calls |-> IdleCall]
  /\ sweep = [s \in Sweeps |-> IdleSweep]
  /\ adopt = [x \in Adopters |-> IdleAdopt]
  /\ carried = [f \in Families |-> {NULL}]

-----------------------------------------------------------------------------
(* What a unit of work writes: a column whose value equals the copy the    *)
(* session loaded is not in the UPDATE, whatever the row holds by then.    *)
Flush(seen, new) ==
  [last    |-> [f \in Families |-> IF new.last[f] # seen.last[f]
                                     THEN new.last[f] ELSE row.last[f]],
   dns     |-> [f \in Families |-> IF new.dns[f] # seen.dns[f]
                                     THEN new.dns[f] ELSE row.dns[f]],
   checked |-> IF new.checked # seen.checked THEN new.checked ELSE row.checked,
   error   |-> IF new.error # seen.error THEN new.error ELSE row.error]

(* The provider's record set changes; its servers follow at once, or later.*)
ProviderHolds(rec) ==
  /\ accepted' = rec
  /\ served' = IF "lag" \in Hazards THEN served ELSE rec
  /\ carried' = [f \in Families |-> carried[f] \cup {rec[f]}]

InDns(c) == call[c].pc \in {"admitted", "answered"}

(* Mutant: nothing serialises the calls of one device.                     *)
NoDeviceLock(c) == TRUE

(* _touch_device's UPDATE is flushed before the rate limit is counted, so  *)
(* a wire call holds the device row exclusively until it commits.  A       *)
(* manual call's ddns_rate_limit_event row takes the foreign key's shared  *)
(* lock on it: manual calls exclude wire calls and not one another.        *)
DeviceRowFree(c) ==
  \A o \in Calls \ {c} : InDns(o) => (c \in ManualCalls /\ o \in ManualCalls)

MayOverlapSweep == "overlap" \in Hazards \/ \A s \in Sweeps : sweep[s].pc = "idle"
MayOverlapCall  == "overlap" \in Hazards \/ \A c \in Calls : ~InDns(c)

-----------------------------------------------------------------------------
(* GET /nic/update: the device sends its address; the request then waits   *)
(* for the device row, is admitted, and loads the hostname (load_plans).   *)
WireSend(c, f) ==
  /\ call[c].pc = "idle"
  /\ call' = [call EXCEPT ![c] = [IdleCall EXCEPT !.pc = "sent", !.fam = f, !.ip = home[f]]]
  /\ UNCHANGED <<row, grace, accepted, served, home, sweep, adopt, carried>>

WireAdmit(c) ==
  /\ call[c].pc = "sent"
  /\ DeviceRowFree(c)
  /\ MayOverlapSweep
  /\ call' = [call EXCEPT ![c].pc = "admitted", ![c].seen = row]
  /\ UNCHANGED <<row, grace, accepted, served, home, sweep, adopt, carried>>

(* POST /hostnames/{id}/update: _load_publishing reads the row first; the  *)
(* call takes its lock on the device row afterwards, and load_plans keeps  *)
(* the copy the session already holds.                                     *)
ManualLoad(c, f, ip) ==
  /\ call[c].pc = "idle"
  /\ call' = [call EXCEPT ![c] = [IdleCall EXCEPT !.pc = "sent", !.fam = f, !.ip = ip,
                                                  !.seen = row]]
  /\ UNCHANGED <<row, grace, accepted, served, home, sweep, adopt, carried>>

ManualAdmit(c) ==
  /\ call[c].pc = "sent"
  /\ DeviceRowFree(c)
  /\ MayOverlapSweep
  /\ call' = [call EXCEPT ![c].pc = "admitted"]
  /\ UNCHANGED <<row, grace, accepted, served, home, sweep, adopt, carried>>

(* Mutant: nochg when the row, not the nameserver, has the address.        *)
AlreadyRecorded(c) ==
  /\ call[c].pc = "admitted"
  /\ row.last[call[c].fam] = call[c].ip
  /\ call' = [call EXCEPT ![c].pc = "answered", ![c].status = "nochg"]
  /\ UNCHANGED <<row, grace, accepted, served, home, sweep, adopt, carried>>

(* run_dns_phase for one provider: nochg when the nameserver already       *)
(* answers the address; a check that fails is a reason to write.           *)
AlreadyServed(c) ==
  /\ call[c].pc = "admitted"
  /\ served[call[c].fam] = call[c].ip
  /\ call' = [call EXCEPT ![c].pc = "answered", ![c].status = "nochg"]
  /\ UNCHANGED <<row, grace, accepted, served, home, sweep, adopt, carried>>

WriteRecord(c) ==
  /\ call[c].pc = "admitted"
  /\ served[call[c].fam] # call[c].ip \/ "resolver" \in Hazards
  /\ ProviderHolds([accepted EXCEPT ![call[c].fam] = call[c].ip])
  /\ call' = [call EXCEPT ![c].pc = "answered", ![c].status = "good"]
  /\ UNCHANGED <<row, grace, home, sweep, adopt>>

(* dnserr, or badauth from the provider: the write may have been applied.  *)
ProviderFails(c) ==
  /\ "provider" \in Hazards
  /\ call[c].pc = "admitted"
  /\ \/ UNCHANGED <<accepted, served, carried>>
     \/ ProviderHolds([accepted EXCEPT ![call[c].fam] = call[c].ip])
  /\ call' = [call EXCEPT ![c].pc = "answered", ![c].status = "failed"]
  /\ UNCHANGED <<row, grace, home, sweep, adopt>>

(* Mutant: a failed call is recorded like a good one.                      *)
PersistedOnFailure(c) ==
  [call[c].seen EXCEPT !.last[call[c].fam] = call[c].ip, !.dns[call[c].fam] = NULL,
                       !.checked = FALSE, !.error = FALSE]

(* What persist_updates assigns to the copy of the row the call loaded.    *)
Persisted(c) ==
  LET f == call[c].fam
      kept == [call[c].seen EXCEPT !.last[f] = call[c].ip]
  IN  CASE call[c].status = "good"  -> [kept EXCEPT !.dns[f] = NULL, !.checked = FALSE,
                                                    !.error = FALSE]
        [] call[c].status = "nochg" -> kept
        [] OTHER -> call[c].seen

(* persist_updates, then commit_after_dns; the locks are released.         *)
Commit(c) ==
  /\ call[c].pc = "answered"
  /\ row' = Flush(call[c].seen, Persisted(c))
  /\ grace' = (grace \/ call[c].status = "good")
  /\ call' = [call EXCEPT ![c] = IdleCall]
  /\ UNCHANGED <<accepted, served, home, sweep, adopt, carried>>

(* commit_after_dns swallows a failed commit and answers all the same; a   *)
(* process that dies after the DNS write leaves the same state behind.     *)
CommitFails(c) ==
  /\ "commit" \in Hazards
  /\ call[c].pc = "answered"
  /\ call' = [call EXCEPT ![c] = IdleCall]
  /\ UNCHANGED <<row, grace, accepted, served, home, sweep, adopt, carried>>

(* GET /nic/delete removes the record of one family or of both, one call   *)
(* to the provider each, and persists nothing to the row.                  *)
NicDelete(fams) ==
  /\ "delete" \in Hazards
  /\ \A o \in Calls : ~InDns(o)
  /\ ProviderHolds([f \in Families |-> IF f \in fams THEN NULL ELSE accepted[f]])
  /\ UNCHANGED <<row, grace, home, call, sweep, adopt>>

-----------------------------------------------------------------------------
(* Mutant: the scheduled sweep does not wait out the publish grace.        *)
DueInGrace(s) == \E f \in Families : row.last[f] # NULL

(* A sweep's first session: the row is due when it has an address to       *)
(* compare.  A checked row may be stale at any moment; a row published     *)
(* within the grace is left alone by a scheduled sweep and by no other.    *)
Due(s) ==
  /\ \E f \in Families : row.last[f] # NULL
  /\ s \in Scheduled => ~grace

SweepRead(s) ==
  /\ sweep[s].pc = "idle"
  /\ Due(s)
  /\ MayOverlapCall
  /\ sweep' = [sweep EXCEPT ![s] =
       [pc |-> "resolving",
        obs |-> [f \in Families |-> IF row.last[f] = NULL THEN "unasked" ELSE "pending"]]]
  /\ UNCHANGED <<row, grace, accepted, served, home, call, adopt, carried>>

(* _check asks the zone's nameserver for one family, with no session open. *)
SweepResolve(s, f) ==
  /\ sweep[s].pc = "resolving"
  /\ sweep[s].obs[f] = "pending"
  /\ \E answer \in {served[f]} \cup (IF "resolver" \in Hazards THEN {"error"} ELSE {}) :
       sweep' = [sweep EXCEPT ![s].obs[f] = answer]
  /\ UNCHANGED <<row, grace, accepted, served, home, call, adopt, carried>>

(* Mutant: what was observed is stored as it is, a failed query included.  *)
SweepWriteRaw(s) ==
  /\ sweep[s].pc = "resolving"
  /\ \A f \in Families : sweep[s].obs[f] # "pending"
  /\ row' = [row EXCEPT !.dns = sweep[s].obs, !.checked = TRUE,
                        !.error = (\E f \in Families : sweep[s].obs[f] = "error")]
  /\ sweep' = [sweep EXCEPT ![s] = IdleSweep]
  /\ UNCHANGED <<grace, accepted, served, home, call, adopt, carried>>

(* The second session: one UPDATE by id of all four dns_* columns.  The    *)
(* worst family decides, and dns_check_error is set when that is ERROR.    *)
SweepWrite(s) ==
  /\ sweep[s].pc = "resolving"
  /\ \A f \in Families : sweep[s].obs[f] # "pending"
  /\ row' = [row EXCEPT
       !.dns = [f \in Families |-> IF sweep[s].obs[f] \in Ips THEN sweep[s].obs[f] ELSE NULL],
       !.checked = TRUE,
       !.error = (\E f \in Families : sweep[s].obs[f] = "error")]
  /\ sweep' = [sweep EXCEPT ![s] = IdleSweep]
  /\ UNCHANGED <<grace, accepted, served, home, call, adopt, carried>>

(* The tick raises, or the process stops, between the two sessions.        *)
SweepFails(s) ==
  /\ "commit" \in Hazards
  /\ sweep[s].pc = "resolving"
  /\ sweep' = [sweep EXCEPT ![s] = IdleSweep]
  /\ UNCHANGED <<row, grace, accepted, served, home, call, adopt, carried>>

(* POST /health-checks/clear.                                              *)
ClearResults ==
  /\ row' = [row EXCEPT !.dns = NewRow.dns, !.checked = FALSE, !.error = FALSE]
  /\ UNCHANGED <<grace, accepted, served, home, call, sweep, adopt, carried>>

(* POST /hostnames/{id}/adopt-zone: refused when the zone was never read,  *)
(* or already agrees; otherwise last_ip_* := dns_ip_*, and nothing else.   *)
AdoptLoad(x) ==
  /\ adopt[x].pc = "idle"
  /\ row.checked
  /\ row.dns # row.last
  /\ adopt' = [adopt EXCEPT ![x] = [pc |-> "loaded", seen |-> row]]
  /\ UNCHANGED <<row, grace, accepted, served, home, call, sweep, carried>>

AdoptCommit(x) ==
  /\ adopt[x].pc = "loaded"
  /\ row' = Flush(adopt[x].seen, [adopt[x].seen EXCEPT !.last = adopt[x].seen.dns])
  /\ adopt' = [adopt EXCEPT ![x] = IdleAdopt]
  /\ UNCHANGED <<grace, accepted, served, home, call, sweep, carried>>

-----------------------------------------------------------------------------
(* The environment.                                                        *)
DeviceMoves(f, ip) ==
  /\ home[f] # ip
  /\ home' = [home EXCEPT ![f] = ip]
  /\ UNCHANGED <<row, grace, accepted, served, call, sweep, adopt, carried>>

ForeignEdit(f, a) ==
  /\ "foreign" \in Hazards
  /\ accepted[f] # a
  /\ ProviderHolds([accepted EXCEPT ![f] = a])
  /\ UNCHANGED <<row, grace, home, call, sweep, adopt>>

Propagate(f) ==
  /\ served[f] # accepted[f]
  /\ served' = [served EXCEPT ![f] = accepted[f]]
  /\ UNCHANGED <<row, grace, accepted, home, call, sweep, adopt, carried>>

(* The grace is set longer than a provider's propagation takes.            *)
GraceExpires ==
  /\ grace
  /\ served = accepted
  /\ grace' = FALSE
  /\ UNCHANGED <<row, accepted, served, home, call, sweep, adopt, carried>>

-----------------------------------------------------------------------------
CallStep(c) ==
  \/ AlreadyServed(c) \/ WriteRecord(c) \/ ProviderFails(c)
  \/ Commit(c) \/ CommitFails(c)

WireStep(c) ==
  \/ \E f \in Families : WireSend(c, f)
  \/ WireAdmit(c)
  \/ CallStep(c)

ManualStep(c) ==
  \/ \E f \in Families, ip \in Ips : ManualLoad(c, f, ip)
  \/ ManualAdmit(c)
  \/ CallStep(c)

SweepStep(s) ==
  \/ SweepRead(s)
  \/ \E f \in Families : SweepResolve(s, f)
  \/ SweepWrite(s)
  \/ SweepFails(s)

AdoptStep(x) == AdoptLoad(x) \/ AdoptCommit(x)

Environment ==
  \/ \E f \in Families, ip \in Ips : DeviceMoves(f, ip)
  \/ \E f \in Families, a \in Address : ForeignEdit(f, a)
  \/ \E f \in Families : Propagate(f)
  \/ GraceExpires

Next ==
  \/ \E c \in WireCalls : WireStep(c)
  \/ \E c \in ManualCalls : ManualStep(c)
  \/ \E fams \in SUBSET Families \ {{}} : NicDelete(fams)
  \/ \E s \in Sweeps : SweepStep(s)
  \/ ClearResults
  \/ \E x \in Adopters : AdoptStep(x)
  \/ Environment

Spec == Init /\ [][Next]_vars

(* Every request that started ends, since uvicorn runs it to its response; *)
(* a waiter for the device row is served in turn; the device keeps calling *)
(* with both of its addresses; the scheduler keeps ticking (60 s).  What   *)
(* may fail does not fail for ever: a provider, a nameserver and a commit  *)
(* that are tried again and again succeed in the end.                      *)
Fairness ==
  /\ \A c \in WireCalls, f \in Families : SF_vars(WireSend(c, f))
  /\ \A c \in WireCalls : /\ SF_vars(WireAdmit(c))
                           /\ SF_vars(AlreadyServed(c) \/ WriteRecord(c))
                           /\ SF_vars(call[c].status # "failed" /\ Commit(c))
  /\ \A c \in ManualCalls : SF_vars(ManualAdmit(c))
  /\ \A c \in Calls : WF_vars(CallStep(c))
  /\ \A x \in Adopters : WF_vars(AdoptCommit(x))
  /\ \A s \in Scheduled : SF_vars(SweepRead(s))
  /\ \A s \in Sweeps, f \in Families :
       SF_vars(SweepResolve(s, f) /\ sweep'[s].obs[f] # "error")
  /\ \A s \in Sweeps : SF_vars(SweepWrite(s))
  /\ \A f \in Families : WF_vars(Propagate(f))
  /\ SF_vars(GraceExpires)

FairSpec == Spec /\ Fairness

-----------------------------------------------------------------------------
(* stored_dns_status: the verdict the board and the next sweep read back.  *)
Status(f) ==
  CASE ~row.checked            -> "never_checked"
    [] row.checked /\ row.error -> "error"
    [] row.checked /\ ~row.error /\ row.dns[f] = NULL -> "missing"
    [] row.checked /\ ~row.error /\ row.dns[f] # NULL /\ row.dns[f] = row.last[f] -> "ok"
    [] OTHER -> "mismatch"

(* No call is between its DNS write and its commit.                        *)
Quiescent == \A c \in Calls : call[c].pc # "answered"

(* Every variable has its type: in particular only an address or NULL is    *)
(* ever stored in the row's address columns.                                *)
TypeOK ==
  /\ row \in Row
  /\ grace \in BOOLEAN
  /\ accepted \in [Families -> Address]
  /\ served \in [Families -> Address]
  /\ home \in [Families -> Ips]
  /\ call \in [Calls -> CallState]
  /\ sweep \in [Sweeps -> SweepState]
  /\ adopt \in [Adopters -> AdoptState]
  /\ carried \in [Families -> SUBSET Address]

(* An address recorded as published is one the provider held at some time: *)
(* no failure, race or adoption records an address that never reached DNS. *)
LastIpWasCarried == \A f \in Families : row.last[f] \in carried[f]

(* Between calls the row records what the provider holds.  The calls of    *)
(* one device are serialised by its row, so neither a slow call nor a      *)
(* stale copy of the hostname can leave an older address behind.           *)
RowTracksZone == Quiescent => \A f \in Families : row.last[f] = accepted[f]

(* A divergence on the board is a divergence in the zone: persist_updates  *)
(* clears the reading it supersedes, and a sweep waits out the provider's  *)
(* propagation, so that a publish that succeeded is never marked.          *)
DivergenceIsReal ==
  Quiescent =>
    \A f \in Families :
      row.last[f] # NULL /\ Status(f) \in {"mismatch", "missing"}
        => accepted[f] # row.last[f]

(* Once the device keeps its addresses and nobody else interferes, the     *)
(* provider, the zone, the row and the board all come to agree with it.    *)
Disturbed ==
  \/ \E f \in Families, ip \in Ips : DeviceMoves(f, ip)
  \/ \E f \in Families, a \in Address : ForeignEdit(f, a)
  \/ \E fams \in SUBSET Families \ {{}} : NicDelete(fams)
  \/ \E c \in ManualCalls, f \in Families, ip \in Ips : ManualLoad(c, f, ip)
  \/ \E x \in Adopters : AdoptLoad(x)
  \/ ClearResults

Converged ==
  \A f \in Families : /\ accepted[f] = home[f] /\ served[f] = home[f]
                      /\ row.last[f] = home[f] /\ Status(f) = "ok"

Convergence == <>[][~Disturbed]_vars => <>[]Converged
=============================================================================
