-------------------------- MODULE PublishingProofs --------------------------
(***************************************************************************)
(* Theorems about Publishing: type correctness, and what is recorded as    *)
(* published, for any number of calls, sweeps, adoptions and addresses.    *)
(***************************************************************************)
EXTENDS Publishing, TLAPS

LEMMA NewRowType == NewRow \in Row
  BY DEF NewRow, Row, Address

LEMMA IdleTypes == /\ IdleCall \in CallState
                   /\ IdleSweep \in SweepState
                   /\ IdleAdopt \in AdoptState
<1>1. (CHOOSE f \in Families : TRUE) \in Families
  BY PublishingAssumption
<1>2. QED
  BY <1>1, NewRowType DEF IdleCall, IdleSweep, IdleAdopt, CallState, SweepState, AdoptState, Address

(* A flush writes a row whatever copy it started from.                     *)
LEMMA FlushType ==
  ASSUME NEW seen \in Row, NEW new \in Row, row \in Row
  PROVE  Flush(seen, new) \in Row
  BY DEF Flush, Row

LEMMA ProviderHoldsType ==
  ASSUME TypeOK, NEW rec \in [Families -> Address], ProviderHolds(rec)
  PROVE  /\ accepted' \in [Families -> Address]
         /\ served' \in [Families -> Address]
         /\ carried' \in [Families -> SUBSET Address]
<1>1. \A f \in Families : carried[f] \cup {rec[f]} \in SUBSET Address
  BY DEF TypeOK
<1>2. carried' \in [Families -> SUBSET Address]
  BY <1>1 DEF ProviderHolds
<1>3. QED
  BY <1>2 DEF TypeOK, ProviderHolds

(* What a call persists is a row.                                          *)
LEMMA PersistedType ==
  ASSUME TypeOK, NEW c \in Calls
  PROVE  Persisted(c) \in Row
<1> DEFINE kept == [call[c].seen EXCEPT !.last[call[c].fam] = call[c].ip]
<1>1. /\ call[c].seen \in Row /\ call[c].fam \in Families /\ call[c].ip \in Address
  BY DEF TypeOK, CallState
<1>2. kept \in Row
  BY <1>1 DEF Row
<1>3. [kept EXCEPT !.dns[call[c].fam] = NULL, !.checked = FALSE, !.error = FALSE] \in Row
  BY <1>1, <1>2 DEF Row, Address
<1>4. QED
  BY <1>1, <1>2, <1>3 DEF Persisted

LEMMA TypeInit == Init => TypeOK
  BY NewRowType, IdleTypes DEF Init, TypeOK, Address

LEMMA TypeCall ==
  ASSUME TypeOK, NEW c \in Calls, CallStep(c)
  PROVE  TypeOK'
<1> USE DEF Address
<1>0. /\ call[c] \in CallState /\ call[c].fam \in Families /\ call[c].ip \in Address
      /\ call[c].seen \in Row
  BY DEF TypeOK, CallState
<1>a. [accepted EXCEPT ![call[c].fam] = call[c].ip] \in [Families -> Address]
  BY <1>0 DEF TypeOK
<1>1. CASE AlreadyServed(c)
  BY <1>0, <1>1 DEF AlreadyServed, TypeOK, CallState
<1>2. CASE WriteRecord(c)
  <2>1. call' \in [Calls -> CallState]
    BY <1>0, <1>2 DEF WriteRecord, TypeOK, CallState
  <2>2. QED
    BY <1>a, <1>2, <2>1, ProviderHoldsType DEF WriteRecord, TypeOK
<1>3. CASE ProviderFails(c)
  <2>1. call' \in [Calls -> CallState]
    BY <1>0, <1>3 DEF ProviderFails, TypeOK, CallState
  <2>2. QED
    BY <1>a, <1>3, <2>1, ProviderHoldsType DEF ProviderFails, TypeOK
<1>4. CASE Commit(c)
  <2>1. row' \in Row
    BY <1>0, <1>4, FlushType, PersistedType DEF Commit, TypeOK
  <2>2. QED
    BY <1>4, <2>1, IdleTypes DEF Commit, TypeOK
<1>5. CASE CommitFails(c)
  BY <1>5, IdleTypes DEF CommitFails, TypeOK
<1>6. QED
  BY <1>1, <1>2, <1>3, <1>4, <1>5 DEF CallStep

LEMMA TypeWire ==
  ASSUME TypeOK, NEW c \in WireCalls, WireStep(c)
  PROVE  TypeOK'
<1>0. c \in Calls
  BY DEF Calls
<1>1. CASE \E f \in Families : WireSend(c, f)
  <2>1. PICK f \in Families : WireSend(c, f)
    BY <1>1
  <2>2. home[f] \in Address
    BY DEF TypeOK, Address
  <2>3. [IdleCall EXCEPT !.pc = "sent", !.fam = f, !.ip = home[f]] \in CallState
    BY <2>2, IdleTypes DEF CallState
  <2>4. QED
    BY <1>0, <2>1, <2>3 DEF WireSend, TypeOK
<1>2. CASE WireAdmit(c)
  <2>1. [call[c] EXCEPT !.pc = "admitted", !.seen = row] \in CallState
    BY <1>0 DEF TypeOK, CallState
  <2>2. QED
    BY <1>0, <1>2, <2>1 DEF WireAdmit, TypeOK, CallState
<1>3. CASE CallStep(c)
  BY <1>0, <1>3, TypeCall
<1>4. QED
  BY <1>1, <1>2, <1>3 DEF WireStep

LEMMA TypeManual ==
  ASSUME TypeOK, NEW c \in ManualCalls, ManualStep(c)
  PROVE  TypeOK'
<1>0. c \in Calls
  BY DEF Calls
<1>1. CASE \E f \in Families, ip \in Ips : ManualLoad(c, f, ip)
  <2>1. PICK f \in Families, ip \in Ips : ManualLoad(c, f, ip)
    BY <1>1
  <2>2. [IdleCall EXCEPT !.pc = "sent", !.fam = f, !.ip = ip, !.seen = row] \in CallState
    BY IdleTypes DEF CallState, TypeOK, Address
  <2>3. QED
    BY <1>0, <2>1, <2>2 DEF ManualLoad, TypeOK
<1>2. CASE ManualAdmit(c)
  BY <1>0, <1>2 DEF ManualAdmit, TypeOK, CallState
<1>3. CASE CallStep(c)
  BY <1>0, <1>3, TypeCall
<1>4. QED
  BY <1>1, <1>2, <1>3 DEF ManualStep

LEMMA TypeSweep ==
  ASSUME TypeOK, NEW s \in Sweeps, SweepStep(s)
  PROVE  TypeOK'
<1>0. /\ sweep[s] \in SweepState
      /\ sweep[s].obs \in [Families -> Address \cup {"error", "unasked", "pending"}]
  BY DEF TypeOK, SweepState
<1>1. CASE SweepRead(s)
  BY <1>1 DEF SweepRead, TypeOK, SweepState
<1>2. CASE \E f \in Families : SweepResolve(s, f)
  <2>1. PICK f \in Families : SweepResolve(s, f)
    BY <1>2
  <2>2. PICK answer \in {served[f]} \cup (IF "resolver" \in Hazards THEN {"error"} ELSE {}) :
          sweep' = [sweep EXCEPT ![s].obs[f] = answer]
    BY <2>1 DEF SweepResolve
  <2>3. answer \in Address \cup {"error"}
    BY DEF TypeOK
  <2>4. [sweep[s] EXCEPT !.obs[f] = answer] \in SweepState
    BY <1>0, <2>3 DEF SweepState
  <2>5. sweep' \in [Sweeps -> SweepState]
    BY <2>2, <2>4 DEF TypeOK
  <2>6. QED
    BY <2>1, <2>5 DEF SweepResolve, TypeOK
<1>3. CASE SweepWrite(s)
  <2>1. row' \in Row
    BY <1>0, <1>3 DEF SweepWrite, TypeOK, Row, Address
  <2>2. QED
    BY <1>3, <2>1, IdleTypes DEF SweepWrite, TypeOK
<1>4. CASE SweepFails(s)
  BY <1>4, IdleTypes DEF SweepFails, TypeOK
<1>5. QED
  BY <1>1, <1>2, <1>3, <1>4 DEF SweepStep

LEMMA TypeAdopt ==
  ASSUME TypeOK, NEW x \in Adopters, AdoptStep(x)
  PROVE  TypeOK'
<1>1. CASE AdoptLoad(x)
  BY <1>1 DEF AdoptLoad, TypeOK, AdoptState
<1>2. CASE AdoptCommit(x)
  <2>1. /\ adopt[x].seen \in Row
        /\ [adopt[x].seen EXCEPT !.last = adopt[x].seen.dns] \in Row
    BY DEF TypeOK, AdoptState, Row
  <2>2. row' \in Row
    BY <1>2, <2>1, FlushType DEF AdoptCommit, TypeOK
  <2>3. QED
    BY <1>2, <2>2, IdleTypes DEF AdoptCommit, TypeOK
<1>3. QED
  BY <1>1, <1>2 DEF AdoptStep

LEMMA TypeClear ==
  ASSUME TypeOK, ClearResults
  PROVE  TypeOK'
<1>1. row' \in Row
  BY NewRowType DEF ClearResults, TypeOK, Row
<1>2. QED
  BY <1>1 DEF ClearResults, TypeOK

LEMMA TypeDelete ==
  ASSUME TypeOK, NEW fams \in SUBSET Families, NicDelete(fams)
  PROVE  TypeOK'
<1>1. [f \in Families |-> IF f \in fams THEN NULL ELSE accepted[f]] \in [Families -> Address]
  BY DEF TypeOK, Address
<1>2. QED
  BY <1>1, ProviderHoldsType DEF NicDelete, TypeOK

LEMMA TypeEnvironment ==
  ASSUME TypeOK, Environment
  PROVE  TypeOK'
<1>1. CASE \E f \in Families, ip \in Ips : DeviceMoves(f, ip)
  BY <1>1 DEF DeviceMoves, TypeOK
<1>2. CASE \E f \in Families, a \in Address : ForeignEdit(f, a)
  <2>1. PICK f \in Families, a \in Address : ForeignEdit(f, a)
    BY <1>2
  <2>2. [accepted EXCEPT ![f] = a] \in [Families -> Address]
    BY DEF TypeOK
  <2>3. QED
    BY <2>1, <2>2, ProviderHoldsType DEF ForeignEdit, TypeOK
<1>3. CASE \E f \in Families : Propagate(f)
  BY <1>3 DEF Propagate, TypeOK
<1>4. CASE GraceExpires
  BY <1>4 DEF GraceExpires, TypeOK
<1>5. QED
  BY <1>1, <1>2, <1>3, <1>4 DEF Environment

(* Every reachable state is well typed: no step leaves a call, a sweep or  *)
(* an adoption half-described, nor puts a marker of the sweep ("pending",  *)
(* "error") into a column of the row.                                      *)
THEOREM TypeCorrect == Spec => []TypeOK
<1>1. Init => TypeOK
  BY TypeInit
<1>2. TypeOK /\ [Next]_vars => TypeOK'
  <2> SUFFICES ASSUME TypeOK, [Next]_vars
               PROVE  TypeOK'
    OBVIOUS
  <2>1. CASE \E c \in WireCalls : WireStep(c)
    BY <2>1, TypeWire
  <2>2. CASE \E c \in ManualCalls : ManualStep(c)
    BY <2>2, TypeManual
  <2>3. CASE \E fams \in SUBSET Families \ {{}} : NicDelete(fams)
    BY <2>3, TypeDelete
  <2>4. CASE \E s \in Sweeps : SweepStep(s)
    BY <2>4, TypeSweep
  <2>5. CASE ClearResults
    BY <2>5, TypeClear
  <2>6. CASE \E x \in Adopters : AdoptStep(x)
    BY <2>6, TypeAdopt
  <2>7. CASE Environment
    BY <2>7, TypeEnvironment
  <2>8. CASE UNCHANGED vars
    BY <2>8 DEF vars, TypeOK
  <2>9. QED
    BY <2>1, <2>2, <2>3, <2>4, <2>5, <2>6, <2>7, <2>8 DEF Next
<1>3. QED
  BY <1>1, <1>2, PTL DEF Spec

-----------------------------------------------------------------------------
(* LastIpWasCarried is not inductive: what a sweep has read, what an       *)
(* adoption has loaded and what a call is about to record must have been   *)
(* carried too, each in the family it belongs to.                          *)
CarriedInv ==
  /\ \A f \in Families :
       /\ {NULL, accepted[f], served[f], row.last[f], row.dns[f]} \subseteq carried[f]
       /\ \A s \in Sweeps : sweep[s].obs[f] \in Ips => sweep[s].obs[f] \in carried[f]
       /\ \A x \in Adopters : adopt[x].seen.dns[f] \in carried[f]
  /\ \A c \in Calls : call[c].status \in {"good", "nochg"} => call[c].ip \in carried[call[c].fam]

LEMMA CarriedInit == Init => CarriedInv
<1> SUFFICES ASSUME Init PROVE CarriedInv
  OBVIOUS
<1>1. \A f \in Families : NewRow.last[f] = NULL /\ NewRow.dns[f] = NULL
  BY DEF NewRow
<1>2. /\ \A s \in Sweeps, f \in Families : sweep[s].obs[f] = "unasked"
      /\ \A x \in Adopters : adopt[x].seen = NewRow
      /\ \A c \in Calls : call[c].status = "none"
  BY DEF Init, IdleSweep, IdleAdopt, IdleCall
<1>3. "unasked" \notin Ips
  BY PublishingAssumption
<1>4. QED
  BY <1>1, <1>2, <1>3 DEF Init, CarriedInv

(* Changing the zone only ever adds to what it has carried.                *)
LEMMA ProviderHoldsCarried ==
  ASSUME TypeOK, CarriedInv, NEW rec \in [Families -> Address], ProviderHolds(rec)
  PROVE  \A f \in Families : /\ carried[f] \subseteq carried'[f]
                             /\ {accepted'[f], served'[f]} \subseteq carried'[f]
                             /\ rec[f] \in carried'[f]
  BY DEF TypeOK, CarriedInv, ProviderHolds

LEMMA CarriedCall ==
  ASSUME TypeOK, CarriedInv, NEW c \in Calls, CallStep(c)
  PROVE  CarriedInv'
<1> DEFINE g == call[c].fam
<1>0. call[c] \in CallState /\ g \in Families /\ call[c].ip \in Address /\ call[c].seen \in Row
  BY DEF TypeOK, CallState
<1>1. CASE AlreadyServed(c)
  <2>1. call[c].ip \in carried[g]
    BY <1>0, <1>1 DEF AlreadyServed, CarriedInv
  <2>2. \A d \in Calls : call'[d].fam = call[d].fam /\ call'[d].ip = call[d].ip
                         /\ (d # c => call'[d].status = call[d].status)
    BY <1>1 DEF AlreadyServed, TypeOK, CallState
  <2>3. QED
    BY <1>1, <2>1, <2>2 DEF AlreadyServed, CarriedInv
<1>2. ASSUME ProviderHolds([accepted EXCEPT ![g] = call[c].ip]),
             call' \in {[call EXCEPT ![c].pc = "answered", ![c].status = st] : st \in {"good", "failed"}},
             UNCHANGED <<row, sweep, adopt>>
      PROVE  CarriedInv'
  <2>1. [accepted EXCEPT ![g] = call[c].ip] \in [Families -> Address]
    BY <1>0 DEF TypeOK
  <2>2. /\ \A f \in Families : /\ carried[f] \subseteq carried'[f]
                               /\ {accepted'[f], served'[f]} \subseteq carried'[f]
        /\ call[c].ip \in carried'[g]
    BY <1>0, <1>2, <2>1, ProviderHoldsCarried DEF TypeOK
  <2>3. \A d \in Calls : call'[d].fam = call[d].fam /\ call'[d].ip = call[d].ip
                         /\ (d # c => call'[d].status = call[d].status)
    BY <1>2 DEF TypeOK, CallState
  <2>4. \A d \in Calls : call'[d].status \in {"good", "nochg"} => call'[d].ip \in carried'[call'[d].fam]
    <3> SUFFICES ASSUME NEW d \in Calls, call'[d].status \in {"good", "nochg"}
                 PROVE  call[d].ip \in carried'[call[d].fam]
      BY <2>3
    <3>1. CASE d = c
      BY <2>2, <3>1
    <3>2. CASE d # c
      BY <2>2, <2>3, <3>2 DEF CarriedInv, TypeOK, CallState
    <3>3. QED
      BY <3>1, <3>2
  <2>5. QED
    BY <1>2, <2>2, <2>4 DEF CarriedInv
<1>3. CASE WriteRecord(c)
  BY <1>2, <1>3 DEF WriteRecord
<1>4. CASE ProviderFails(c)
  <2>1. CASE UNCHANGED <<accepted, served, carried>>
    <3>1. \A d \in Calls : call'[d].fam = call[d].fam /\ call'[d].ip = call[d].ip
                           /\ (call'[d].status = call[d].status \/ call'[d].status = "failed")
      BY <1>4 DEF ProviderFails, TypeOK, CallState
    <3>2. QED
      BY <1>4, <2>1, <3>1 DEF ProviderFails, CarriedInv
  <2>2. CASE ProviderHolds([accepted EXCEPT ![g] = call[c].ip])
    BY <1>2, <1>4, <2>2 DEF ProviderFails
  <2>3. QED
    BY <1>4, <2>1, <2>2 DEF ProviderFails
<1>5. ASSUME call' = [call EXCEPT ![c] = IdleCall]
      PROVE  \A d \in Calls : call'[d] = IdleCall \/ call'[d] = call[d]
  BY <1>5 DEF TypeOK
<1>6. IdleCall.status = "none"
  BY DEF IdleCall
<1>7. CASE Commit(c)
  <2>1. \A f \in Families : row'.last[f] \in {row.last[f], call[c].ip}
                            /\ row'.dns[f] \in {row.dns[f], NULL}
    BY <1>0, <1>7 DEF Commit, Flush, Persisted, Row
  <2>2. \A f \in Families : row'.last[f] = call[c].ip /\ row'.last[f] # row.last[f]
                              => f = g /\ call[c].status \in {"good", "nochg"}
    BY <1>0, <1>7 DEF Commit, Flush, Persisted, Row
  <2>3. \A f \in Families : {row'.last[f], row'.dns[f]} \subseteq carried[f]
    BY <2>1, <2>2 DEF CarriedInv
  <2>4. QED
    BY <1>5, <1>6, <1>7, <2>3 DEF Commit, CarriedInv
<1>8. CASE CommitFails(c)
  BY <1>5, <1>6, <1>8 DEF CommitFails, CarriedInv
<1>9. QED
  BY <1>1, <1>3, <1>4, <1>7, <1>8 DEF CallStep

LEMMA CarriedStart ==
  ASSUME TypeOK, CarriedInv, NEW c \in Calls,
         \/ \E f \in Families : WireSend(c, f)
         \/ WireAdmit(c)
         \/ \E f \in Families, ip \in Ips : ManualLoad(c, f, ip)
         \/ ManualAdmit(c)
  PROVE  CarriedInv'
<1>1. \A d \in Calls : \/ call'[d].status = "none"
                       \/ /\ call'[d].status = call[d].status
                          /\ call'[d].ip = call[d].ip
                          /\ call'[d].fam = call[d].fam
  <2>1. CASE \E f \in Families : WireSend(c, f)
    BY <2>1 DEF WireSend, TypeOK, IdleCall
  <2>2. CASE WireAdmit(c)
    BY <2>2 DEF WireAdmit, TypeOK, CallState
  <2>3. CASE \E f \in Families, ip \in Ips : ManualLoad(c, f, ip)
    BY <2>3 DEF ManualLoad, TypeOK, IdleCall
  <2>4. CASE ManualAdmit(c)
    BY <2>4 DEF ManualAdmit, TypeOK, CallState
  <2>5. QED
    BY <2>1, <2>2, <2>3, <2>4
<1>2. UNCHANGED <<row, accepted, served, sweep, adopt, carried>>
  BY DEF WireSend, WireAdmit, ManualLoad, ManualAdmit
<1>3. QED
  BY <1>1, <1>2 DEF CarriedInv

LEMMA CarriedSweep ==
  ASSUME TypeOK, CarriedInv, NEW s \in Sweeps, SweepStep(s)
  PROVE  CarriedInv'
<1>0. /\ sweep[s] \in SweepState
      /\ sweep[s].obs \in [Families -> Address \cup {"error", "unasked", "pending"}]
      /\ Ips \cap {"error", "unasked", "pending"} = {}
  BY PublishingAssumption DEF TypeOK, SweepState
<1>1. CASE SweepRead(s)
  <2>1. \A t \in Sweeps, f \in Families : sweep'[t].obs[f] \in {sweep[t].obs[f], "unasked", "pending"}
    BY <1>1 DEF SweepRead, TypeOK, SweepState
  <2>2. QED
    BY <1>0, <1>1, <2>1 DEF SweepRead, CarriedInv
<1>2. CASE \E f \in Families : SweepResolve(s, f)
  <2>1. PICK f \in Families : SweepResolve(s, f)
    BY <1>2
  <2>2. \A t \in Sweeps, h \in Families :
          \/ sweep'[t].obs[h] = sweep[t].obs[h]
          \/ sweep'[t].obs[h] \in {served[h], "error"}
    BY <2>1 DEF SweepResolve, TypeOK, SweepState
  <2>3. QED
    BY <1>0, <2>1, <2>2 DEF SweepResolve, CarriedInv
<1>3. \A t \in Sweeps : sweep' = [sweep EXCEPT ![s] = IdleSweep]
                          => sweep'[t] = sweep[t] \/ sweep'[t] = IdleSweep
  BY DEF TypeOK
<1>4. \A f \in Families : IdleSweep.obs[f] \notin Ips
  BY <1>0 DEF IdleSweep
<1>5. CASE SweepWrite(s)
  <2>1. \A f \in Families : row'.last[f] = row.last[f] /\ row'.dns[f] \in carried[f]
    BY <1>5 DEF SweepWrite, CarriedInv, TypeOK, Row
  <2>2. QED
    BY <1>3, <1>4, <1>5, <2>1 DEF SweepWrite, CarriedInv
<1>6. CASE SweepFails(s)
  BY <1>3, <1>4, <1>6 DEF SweepFails, CarriedInv
<1>7. QED
  BY <1>1, <1>2, <1>5, <1>6 DEF SweepStep

LEMMA CarriedAdopt ==
  ASSUME TypeOK, CarriedInv, NEW x \in Adopters, AdoptStep(x)
  PROVE  CarriedInv'
<1>1. CASE AdoptLoad(x)
  <2>1. \A y \in Adopters : adopt'[y].seen = adopt[y].seen \/ adopt'[y].seen = row
    BY <1>1 DEF AdoptLoad, TypeOK, AdoptState
  <2>2. QED
    BY <1>1, <2>1 DEF AdoptLoad, CarriedInv
<1>2. CASE AdoptCommit(x)
  <2>1. adopt[x].seen \in Row
    BY DEF TypeOK, AdoptState
  <2>2. \A f \in Families : row'.last[f] \in {row.last[f], adopt[x].seen.dns[f]}
                            /\ row'.dns[f] = row.dns[f]
    BY <1>2, <2>1 DEF AdoptCommit, Flush, Row
  <2>3. \A y \in Adopters, f \in Families : adopt'[y].seen.dns[f] \in {adopt[y].seen.dns[f], NULL}
    BY <1>2 DEF AdoptCommit, IdleAdopt, NewRow, TypeOK
  <2>4. QED
    BY <1>2, <2>2, <2>3 DEF AdoptCommit, CarriedInv
<1>3. QED
  BY <1>1, <1>2 DEF AdoptStep

LEMMA CarriedZone ==
  ASSUME TypeOK, CarriedInv,
         NEW rec \in [Families -> Address], ProviderHolds(rec), UNCHANGED <<row, call, sweep, adopt>>
  PROVE  CarriedInv'
<1>1. \A f \in Families : /\ carried[f] \subseteq carried'[f]
                          /\ {accepted'[f], served'[f]} \subseteq carried'[f]
  BY ProviderHoldsCarried
<1>2. \A c \in Calls : call[c].fam \in Families
  BY DEF TypeOK, CallState
<1>3. QED
  BY <1>1, <1>2 DEF CarriedInv

LEMMA CarriedEnvironment ==
  ASSUME TypeOK, CarriedInv, Environment
  PROVE  CarriedInv'
<1>1. CASE \E f \in Families, ip \in Ips : DeviceMoves(f, ip)
  BY <1>1 DEF DeviceMoves, CarriedInv
<1>2. CASE \E f \in Families, a \in Address : ForeignEdit(f, a)
  <2>1. PICK f \in Families, a \in Address : ForeignEdit(f, a)
    BY <1>2
  <2>2. [accepted EXCEPT ![f] = a] \in [Families -> Address]
    BY DEF TypeOK
  <2>3. QED
    BY <2>1, <2>2, CarriedZone DEF ForeignEdit
<1>3. CASE \E f \in Families : Propagate(f)
  <2>1. \A f \in Families : served'[f] \in {served[f], accepted[f]}
    BY <1>3 DEF Propagate, TypeOK
  <2>2. QED
    BY <1>3, <2>1 DEF Propagate, CarriedInv
<1>4. CASE GraceExpires
  BY <1>4 DEF GraceExpires, CarriedInv
<1>5. QED
  BY <1>1, <1>2, <1>3, <1>4 DEF Environment

LEMMA CarriedStep == TypeOK /\ CarriedInv /\ [Next]_vars => CarriedInv'
<1> SUFFICES ASSUME TypeOK, CarriedInv, [Next]_vars
             PROVE  CarriedInv'
  OBVIOUS
<1>1. CASE \E c \in WireCalls : WireStep(c)
  BY <1>1, CarriedStart, CarriedCall DEF WireStep, Calls
<1>2. CASE \E c \in ManualCalls : ManualStep(c)
  BY <1>2, CarriedStart, CarriedCall DEF ManualStep, Calls
<1>3. CASE \E fams \in SUBSET Families \ {{}} : NicDelete(fams)
  <2>1. PICK fams \in SUBSET Families : NicDelete(fams)
    BY <1>3
  <2>2. [f \in Families |-> IF f \in fams THEN NULL ELSE accepted[f]] \in [Families -> Address]
    BY DEF TypeOK, Address
  <2>3. QED
    BY <2>1, <2>2, CarriedZone DEF NicDelete
<1>4. CASE \E s \in Sweeps : SweepStep(s)
  BY <1>4, CarriedSweep
<1>5. CASE ClearResults
  <2>1. \A f \in Families : row'.last[f] = row.last[f] /\ row'.dns[f] = NULL
    BY <1>5 DEF ClearResults, NewRow, TypeOK, Row
  <2>2. QED
    BY <1>5, <2>1 DEF ClearResults, CarriedInv
<1>6. CASE \E x \in Adopters : AdoptStep(x)
  BY <1>6, CarriedAdopt
<1>7. CASE Environment
  BY <1>7, CarriedEnvironment
<1>8. CASE UNCHANGED vars
  BY <1>8 DEF vars, CarriedInv
<1>9. QED
  BY <1>1, <1>2, <1>3, <1>4, <1>5, <1>6, <1>7, <1>8 DEF Next

(* Under every misfortune at once, an address the row records as published *)
(* is one the provider has held for that family.                           *)
THEOREM RecordedWasCarried == Spec => []LastIpWasCarried
<1>1. CarriedInv => LastIpWasCarried
  BY DEF CarriedInv, LastIpWasCarried
<1>2. QED
  BY <1>1, CarriedInit, CarriedStep, TypeCorrect, PTL DEF Spec

-----------------------------------------------------------------------------
(* The device is alone with its provider: nobody else writes, the provider *)
(* and the commit succeed, and the zone answers what it was told.  Queries *)
(* may fail, and sweeps and clears run whenever they like.                 *)
OnlyTheDevice ==
  /\ ManualCalls = {} /\ Adopters = {}
  /\ Hazards \cap {"lag", "foreign", "delete", "commit", "provider"} = {}

(* RowTracksZone made inductive: the device row admits one call at a time, *)
(* the copy that call loaded still is the row when it commits, and what it *)
(* is about to record is the one difference between row and provider.      *)
SerialInv ==
  /\ \A c, d \in Calls : InDns(c) /\ InDns(d) => c = d
  /\ \A c \in Calls : InDns(c) => call[c].seen.last = row.last
  /\ served = accepted
  /\ \A c \in Calls : call[c].pc = "answered" =>
       /\ call[c].status \in {"good", "nochg"}
       /\ accepted = [row.last EXCEPT ![call[c].fam] = call[c].ip]
  /\ Quiescent => accepted = row.last

LEMMA SerialInit == Init => SerialInv
<1> SUFFICES ASSUME Init PROVE SerialInv
  OBVIOUS
<1>1. \A c \in Calls : call[c].pc = "idle"
  BY DEF Init, IdleCall
<1>2. QED
  BY <1>1 DEF Init, SerialInv, InDns, NewRow

(* A step that starts nothing and touches neither zone nor last_ip_*.      *)
LEMMA SerialQuiet ==
  ASSUME SerialInv, UNCHANGED <<call, accepted, served>>, row'.last = row.last
  PROVE  SerialInv'
  BY DEF SerialInv, Quiescent, InDns

LEMMA SerialWire ==
  ASSUME OnlyTheDevice, TypeOK, SerialInv, NEW c \in WireCalls, WireStep(c)
  PROVE  SerialInv'
<1> DEFINE g == call[c].fam
<1>0. /\ c \in Calls /\ Calls = WireCalls
      /\ call[c] \in CallState /\ g \in Families /\ call[c].ip \in Address /\ call[c].seen \in Row
  BY DEF Calls, OnlyTheDevice, TypeOK, CallState
<1>1. ASSUME NEW v, call' = [call EXCEPT ![c] = v]
      PROVE  call'[c] = v /\ \A d \in Calls : d # c => call'[d] = call[d]
  BY <1>0, <1>1 DEF TypeOK
<1>2. CASE \E f \in Families : WireSend(c, f)
  <2>1. PICK f \in Families : WireSend(c, f)
    BY <1>2
  <2>2. /\ call'[c].pc = "sent" /\ call[c].pc = "idle"
        /\ \A d \in Calls : d # c => call'[d] = call[d]
    BY <2>1, <1>0, IdleTypes DEF WireSend, TypeOK, IdleCall
  <2>3. QED
    BY <2>1, <2>2, <1>0 DEF WireSend, SerialInv, InDns, Quiescent
<1>3. CASE WireAdmit(c)
  <2>1. /\ call'[c].pc = "admitted" /\ call'[c].seen = row /\ call[c].pc = "sent"
        /\ \A d \in Calls : d # c => call'[d] = call[d]
    BY <1>3, <1>0 DEF WireAdmit, TypeOK, CallState
  <2>2. \A d \in Calls : d # c => ~InDns(d)
    BY <1>0, <1>3, PublishingAssumption DEF WireAdmit, DeviceRowFree
  <2>3. UNCHANGED <<row, accepted, served>>
    BY <1>3 DEF WireAdmit
  <2>4. accepted = row.last /\ served = accepted
    BY <2>1, <2>2 DEF SerialInv, InDns, Quiescent
  <2>5. \A d \in Calls : (InDns(d))' => d = c
    BY <2>1, <2>2 DEF InDns
  <2>6. QED
    BY <2>1, <2>3, <2>4, <2>5 DEF SerialInv, InDns
<1>4. ASSUME call[c].pc = "admitted"
      PROVE  /\ \A d \in Calls : d # c => ~InDns(d)
             /\ call[c].seen.last = row.last /\ row.last = accepted
  BY <1>0, <1>4 DEF SerialInv, InDns, Quiescent
<1>5. CASE AlreadyServed(c)
  <2>1. /\ call'[c].pc = "answered" /\ call'[c].status = "nochg" /\ call'[c].ip = call[c].ip
        /\ call'[c].fam = g /\ call'[c].seen = call[c].seen /\ call[c].pc = "admitted"
        /\ \A d \in Calls : d # c => call'[d] = call[d]
    BY <1>5, <1>0 DEF AlreadyServed, TypeOK, CallState
  <2>2. accepted = [row.last EXCEPT ![g] = call[c].ip]
    BY <1>4, <1>5, <2>1, <1>0 DEF AlreadyServed, SerialInv, TypeOK, Row
  <2>3. UNCHANGED <<row, accepted, served>>
    BY <1>5 DEF AlreadyServed
  <2>4. \A d \in Calls : (InDns(d))' => d = c
    BY <1>4, <2>1 DEF InDns
  <2>5. served = accepted /\ call'[c].seen.last = row.last /\ ~Quiescent'
    BY <1>0, <1>4, <2>1 DEF SerialInv, Quiescent
  <2>6. QED
    BY <2>1, <2>2, <2>3, <2>4, <2>5 DEF SerialInv, InDns
<1>6. CASE WriteRecord(c)
  <2>1. /\ call'[c].pc = "answered" /\ call'[c].status = "good" /\ call'[c].ip = call[c].ip
        /\ call'[c].fam = g /\ call'[c].seen = call[c].seen /\ call[c].pc = "admitted"
        /\ \A d \in Calls : d # c => call'[d] = call[d]
    BY <1>6, <1>0 DEF WriteRecord, TypeOK, CallState
  <2>2. accepted' = [row.last EXCEPT ![g] = call[c].ip] /\ served' = accepted' /\ row' = row
    BY <1>4, <1>6, <2>1 DEF WriteRecord, ProviderHolds, OnlyTheDevice
  <2>3. QED
    BY <1>4, <2>1, <2>2, <1>0 DEF SerialInv, InDns, Quiescent
<1>7. CASE Commit(c)
  <2>1. /\ call[c].pc = "answered" /\ call'[c].pc = "idle"
        /\ \A d \in Calls : d # c => call'[d] = call[d] /\ ~InDns(d)
    BY <1>7, <1>0 DEF Commit, TypeOK, IdleCall, SerialInv, InDns
  <2>2. /\ call[c].status \in {"good", "nochg"} /\ call[c].seen.last = row.last
        /\ accepted = [row.last EXCEPT ![g] = call[c].ip]
    BY <1>0, <2>1 DEF SerialInv, InDns
  <2>3. Persisted(c).last = [row.last EXCEPT ![g] = call[c].ip]
    BY <1>0, <2>2 DEF Persisted, Row
  <2>4. row'.last = accepted
    <3>1. row'.last = [f \in Families |-> IF accepted[f] # row.last[f] THEN accepted[f] ELSE row.last[f]]
      BY <1>7, <2>2, <2>3 DEF Commit, Flush
    <3>2. QED
      BY <3>1 DEF TypeOK
  <2>5. QED
    BY <1>7, <2>1, <2>4, <1>0 DEF Commit, SerialInv, InDns, Quiescent
<1>8. ~ProviderFails(c) /\ ~CommitFails(c)
  BY DEF ProviderFails, CommitFails, OnlyTheDevice
<1>9. QED
  BY <1>2, <1>3, <1>5, <1>6, <1>7, <1>8 DEF WireStep, CallStep

LEMMA SerialStep ==
  ASSUME OnlyTheDevice
  PROVE  TypeOK /\ SerialInv /\ [Next]_vars => SerialInv'
<1> SUFFICES ASSUME TypeOK, SerialInv, [Next]_vars
             PROVE  SerialInv'
  OBVIOUS
<1>1. CASE \E c \in WireCalls : WireStep(c)
  BY <1>1, SerialWire
<1>2. CASE \E s \in Sweeps : SweepStep(s)
  <2>1. UNCHANGED <<call, accepted, served>> /\ row'.last = row.last
    BY <1>2 DEF SweepStep, SweepRead, SweepResolve, SweepWrite, SweepFails, TypeOK, Row
  <2>2. QED
    BY <2>1, SerialQuiet
<1>3. CASE ClearResults
  BY <1>3, SerialQuiet DEF ClearResults, TypeOK, Row
<1>4. CASE Environment
  <2>1. ~\E f \in Families : Propagate(f)
    BY DEF Propagate, SerialInv
  <2>2. UNCHANGED <<row, call, accepted, served>>
    BY <1>4, <2>1 DEF Environment, DeviceMoves, ForeignEdit, GraceExpires, OnlyTheDevice
  <2>3. QED
    BY <2>2, SerialQuiet
<1>5. CASE UNCHANGED vars
  BY <1>5, SerialQuiet DEF vars
<1>6. QED
  BY <1>1, <1>2, <1>3, <1>4, <1>5 DEF Next, NicDelete, OnlyTheDevice

(* However many calls of the device race, over however many addresses and  *)
(* families, and wherever the sweeps fall, the row records what the        *)
(* provider holds whenever no call is between its DNS write and its commit.*)
THEOREM SerialisedByTheDeviceRow ==
  ASSUME OnlyTheDevice
  PROVE  Spec => []RowTracksZone
<1>1. SerialInv => RowTracksZone
  BY DEF SerialInv, RowTracksZone
<1>2. TypeOK /\ SerialInv /\ [Next]_vars => SerialInv'
  BY SerialStep
<1>3. QED
  BY <1>1, <1>2, SerialInit, TypeCorrect, PTL DEF Spec

-----------------------------------------------------------------------------
(* No sweep runs beside a call, nobody else edits the zone, providers and   *)
(* commits succeed; where servers lag, only sweeps that wait out the grace  *)
(* run.  Deletes, failing queries and clears come whenever they like.       *)
ReadingsAreApart ==
  /\ ManualCalls = {} /\ Adopters = {}
  /\ "lag" \in Hazards => Forced = {}
  /\ Hazards \cap {"foreign", "commit", "provider", "overlap"} = {}

(* A call has written the record of f and not yet committed it.            *)
Writing(f) ==
  \E c \in Calls : call[c].pc = "answered" /\ call[c].status = "good" /\ call[c].fam = f

(* A call in its DNS phase is alone, with the row as it read it but for a  *)
(* clear, and with no sweep in flight.                                     *)
CallsAreAlone ==
  /\ \A c, d \in Calls : InDns(c) /\ InDns(d) => c = d
  /\ \A c \in Calls :
       /\ call[c].pc # "idle" => call[c].ip \in Ips
       /\ call[c].pc = "answered" => call[c].status \in {"good", "nochg"}
       /\ InDns(c) => /\ call[c].seen.last = row.last
                      /\ row.checked => call[c].seen.checked
                      /\ \A s \in Sweeps : sweep[s].pc = "idle"

ServersKeepUp == "lag" \notin Hazards => served = accepted
SweepsWait == \A s \in Scheduled : sweep[s].pc = "resolving" => ~grace

(* The record set of f, when there is one, is what the row's reading says  *)
(* it is and what a sweep in flight has seen, unless a call has just       *)
(* written it; servers that answer another are inside the grace.  This is  *)
(* what DivergenceIsReal rests on: it survives a delete, which leaves no   *)
(* record, and a nochg, which leaves the reading.                          *)
ReadingIsTrue(f) ==
  accepted[f] # NULL =>
    /\ row.last[f] # NULL \/ Writing(f)
    /\ grace \/ served[f] = accepted[f] \/ Writing(f)
    /\ row.checked /\ ~row.error => row.dns[f] = accepted[f] \/ Writing(f)
    /\ \A s \in Sweeps : sweep[s].pc = "resolving" =>
         sweep[s].obs[f] \in {accepted[f], "pending", "error"}

ReadingInv ==
  CallsAreAlone /\ ServersKeepUp /\ SweepsWait /\ \A f \in Families : ReadingIsTrue(f)

LEMMA ReadingInit == Init => ReadingInv
<1> SUFFICES ASSUME Init PROVE ReadingInv
  OBVIOUS
<1>1. \A c \in Calls : call[c].pc = "idle"
  BY DEF Init, IdleCall
<1>2. \A s \in Sweeps : sweep[s].pc = "idle"
  BY DEF Init, IdleSweep
<1>3. served = accepted /\ \A f \in Families : accepted[f] = NULL
  BY DEF Init
<1>4. CallsAreAlone
  BY <1>1 DEF CallsAreAlone, InDns
<1>5. SweepsWait
  BY <1>2 DEF SweepsWait, Sweeps
<1> QED BY <1>3, <1>4, <1>5 DEF ReadingInv, ServersKeepUp, ReadingIsTrue

(* A call that moves while it has nothing written changes no reading.      *)
LEMMA WritingStays ==
  ASSUME TypeOK, NEW c \in Calls, NEW v, call' = [call EXCEPT ![c] = v],
         ~(call[c].pc = "answered" /\ call[c].status = "good"),
         ~(v.pc = "answered" /\ v.status = "good")
  PROVE  \A f \in Families : Writing(f)' = Writing(f)
<1>1. call'[c] = v /\ \A d \in Calls : d # c => call'[d] = call[d]
  BY DEF TypeOK
<1>2. ASSUME NEW f \in Families, Writing(f) PROVE Writing(f)'
  BY <1>1, <1>2 DEF Writing
<1>3. ASSUME NEW f \in Families, Writing(f)' PROVE Writing(f)
  BY <1>1, <1>3 DEF Writing
<1> QED BY <1>2, <1>3 DEF Writing

(* A wire call's steps: it is alone at its servers, and they keep up.      *)
LEMMA ReadingWire ==
  ASSUME ReadingsAreApart, TypeOK, ReadingInv, NEW c \in WireCalls, WireStep(c)
  PROVE  ReadingInv'
<1> DEFINE g == call[c].fam
<1>0. /\ c \in Calls /\ Calls = WireCalls
      /\ call[c] \in CallState /\ g \in Families /\ call[c].ip \in Address /\ call[c].seen \in Row
      /\ NULL \notin Ips
  BY PublishingAssumption DEF Calls, ReadingsAreApart, TypeOK, CallState
<1>1. ASSUME NEW v, call' = [call EXCEPT ![c] = v]
      PROVE  call'[c] = v /\ \A d \in Calls : d # c => call'[d] = call[d]
  BY <1>0, <1>1 DEF TypeOK
<1>2. CASE \E f \in Families : WireSend(c, f)
  <2>1. PICK f \in Families : WireSend(c, f)
    BY <1>2
  <2> DEFINE v == [IdleCall EXCEPT !.pc = "sent", !.fam = f, !.ip = home[f]]
  <2>2. v.pc = "sent" /\ v.ip \in Ips
    BY <2>1, IdleTypes DEF IdleCall, TypeOK
  <2>3. call' = [call EXCEPT ![c] = v] /\ call[c].pc = "idle"
        /\ UNCHANGED <<row, grace, accepted, served, sweep>>
    BY <2>1 DEF WireSend
  <2> HIDE DEF v
  <2>4. call'[c] = v /\ \A d \in Calls : d # c => call'[d] = call[d]
    BY <1>1, <2>3
  <2>5. \A h \in Families : Writing(h)' = Writing(h)
    BY <1>0, <2>2, <2>3, WritingStays
  <2>6. CallsAreAlone'
    BY <2>2, <2>3, <2>4, <1>0 DEF ReadingInv, CallsAreAlone, InDns
  <2> QED BY <2>3, <2>5, <2>6 DEF ReadingInv, ServersKeepUp, SweepsWait, ReadingIsTrue
<1>3. CASE WireAdmit(c)
  <2> DEFINE v == [call[c] EXCEPT !.pc = "admitted", !.seen = row]
  <2>1. v.pc = "admitted" /\ v.seen = row /\ v.ip = call[c].ip
    BY <1>0 DEF CallState
  <2>2. call' = [call EXCEPT ![c] = v] /\ call[c].pc = "sent"
        /\ UNCHANGED <<row, grace, accepted, served, sweep>>
    BY <1>3, <1>0 DEF WireAdmit, TypeOK, CallState
  <2> HIDE DEF v
  <2>3. call'[c] = v /\ \A d \in Calls : d # c => call'[d] = call[d]
    BY <1>1, <2>2
  <2>4. \A d \in Calls : d # c => ~InDns(d)
    BY <1>0, <1>3, PublishingAssumption DEF WireAdmit, DeviceRowFree
  <2>5. \A s \in Sweeps : sweep[s].pc = "idle"
    BY <1>3 DEF WireAdmit, MayOverlapSweep, ReadingsAreApart
  <2>6. \A h \in Families : Writing(h)' = Writing(h)
    BY <1>0, <2>1, <2>2, WritingStays
  <2>7. CallsAreAlone'
    BY <2>1, <2>2, <2>3, <2>4, <2>5, <1>0 DEF ReadingInv, CallsAreAlone, InDns
  <2> QED BY <2>2, <2>6, <2>7 DEF ReadingInv, ServersKeepUp, SweepsWait, ReadingIsTrue
<1>4. CASE AlreadyServed(c)
  <2> DEFINE v == [call[c] EXCEPT !.pc = "answered", !.status = "nochg"]
  <2>1. v.pc = "answered" /\ v.status = "nochg" /\ v.ip = call[c].ip /\ v.seen = call[c].seen
    BY <1>0 DEF CallState
  <2>2. call' = [call EXCEPT ![c] = v] /\ call[c].pc = "admitted"
        /\ UNCHANGED <<row, grace, accepted, served, sweep>>
    BY <1>4, <1>0 DEF AlreadyServed, TypeOK, CallState
  <2> HIDE DEF v
  <2>3. call'[c] = v /\ \A d \in Calls : d # c => call'[d] = call[d]
    BY <1>1, <2>2
  <2>4. \A h \in Families : Writing(h)' = Writing(h)
    BY <1>0, <2>1, <2>2, WritingStays
  <2>5. CallsAreAlone'
    BY <2>1, <2>2, <2>3, <1>0 DEF ReadingInv, CallsAreAlone, InDns
  <2> QED BY <2>2, <2>4, <2>5 DEF ReadingInv, ServersKeepUp, SweepsWait, ReadingIsTrue
<1>5. CASE WriteRecord(c)
  <2> DEFINE v == [call[c] EXCEPT !.pc = "answered", !.status = "good"]
  <2>1. v.pc = "answered" /\ v.status = "good" /\ v.ip = call[c].ip /\ v.seen = call[c].seen /\ v.fam = g
    BY <1>0 DEF CallState
  <2>2. call' = [call EXCEPT ![c] = v] /\ call[c].pc = "admitted" /\ UNCHANGED <<row, grace, sweep>>
    BY <1>5, <1>0 DEF WriteRecord, TypeOK, CallState
  <2> HIDE DEF v
  <2>3. call'[c] = v /\ \A d \in Calls : d # c => call'[d] = call[d]
    BY <1>1, <2>2
  <2>4. \A h \in Families : h = g \/ Writing(h) => Writing(h)'
    BY <1>0, <2>1, <2>2, <2>3 DEF Writing
  <2>5. CallsAreAlone'
    BY <2>1, <2>2, <2>3, <1>0 DEF ReadingInv, CallsAreAlone, InDns
  <2>6. \A s \in Sweeps : sweep[s].pc = "idle"
    BY <1>0, <2>2 DEF ReadingInv, CallsAreAlone, InDns
  <2>7. /\ accepted' = [accepted EXCEPT ![g] = call[c].ip]
        /\ "lag" \notin Hazards => served' = accepted'
        /\ served' = served \/ served' = accepted'
    BY <1>5 DEF WriteRecord, ProviderHolds
  <2>8. \A h \in Families : h # g => accepted'[h] = accepted[h]
    BY <2>7 DEF TypeOK
  <2>9. ASSUME NEW h \in Families PROVE ReadingIsTrue(h)'
    <3>1. CASE h = g
      <4>1. Writing(h)'
        BY <3>1, <2>4
      <4> QED BY <4>1, <2>2, <2>6 DEF ReadingIsTrue
    <3>2. CASE h # g
      <4>1. ReadingIsTrue(h)
        BY DEF ReadingInv
      <4>2. accepted'[h] = accepted[h] /\ (served'[h] = served[h] \/ served'[h] = accepted'[h])
        BY <3>2, <2>7, <2>8
      <4> QED BY <4>1, <4>2, <2>2, <2>4, <2>6 DEF ReadingIsTrue
    <3> QED BY <3>1, <3>2
  <2> QED BY <2>2, <2>5, <2>7, <2>9 DEF ReadingInv, ServersKeepUp, SweepsWait
<1>6. CASE Commit(c)
  <2>1. /\ call[c].pc = "answered" /\ call' = [call EXCEPT ![c] = IdleCall]
        /\ row' = Flush(call[c].seen, Persisted(c)) /\ grace' = (grace \/ call[c].status = "good")
        /\ UNCHANGED <<accepted, served, sweep>>
    BY <1>6 DEF Commit
  <2>2. IdleCall.pc = "idle"
    BY DEF IdleCall
  <2>3. call'[c] = IdleCall /\ \A d \in Calls : d # c => call'[d] = call[d]
    BY <1>1, <2>1
  <2>4. /\ \A d \in Calls : d # c => ~InDns(d)
        /\ call[c].ip \in Ips /\ call[c].status \in {"good", "nochg"}
        /\ call[c].seen.last = row.last /\ (row.checked => call[c].seen.checked)
        /\ \A s \in Sweeps : sweep[s].pc = "idle"
    BY <1>0, <2>1 DEF ReadingInv, CallsAreAlone, InDns
  <2>5. \A d \in Calls : ~InDns(d)'
    BY <2>2, <2>3, <2>4 DEF InDns
  <2>6. CallsAreAlone'
    BY <2>2, <2>3, <2>5, <1>0 DEF ReadingInv, CallsAreAlone, InDns
  <2>7. row \in Row /\ Persisted(c) \in Row
    BY <1>0, PersistedType DEF TypeOK
  <2>8. row'.last = [f \in Families |-> IF f = g THEN call[c].ip ELSE row.last[f]]
    <3>1. Persisted(c).last = [call[c].seen.last EXCEPT ![g] = call[c].ip]
      BY <1>0, <2>4 DEF Persisted, Row
    <3>2. row'.last = [f \in Families |-> IF Persisted(c).last[f] # row.last[f]
                                             THEN Persisted(c).last[f] ELSE row.last[f]]
      BY <2>1, <2>4 DEF Flush
    <3>3. \A f \in Families : Persisted(c).last[f] = IF f = g THEN call[c].ip ELSE row.last[f]
      BY <3>1, <2>4, <2>7, <1>0 DEF Row
    <3> QED BY <3>2, <3>3
  <2>9. CASE call[c].status = "good"
    <3>1. Persisted(c).checked = FALSE
      BY <1>0, <2>9 DEF Persisted, Row
    <3>2. row'.checked = FALSE
      BY <3>1, <2>1, <2>4, <2>7 DEF Flush, Row
    <3>3. grace'
      BY <2>1, <2>9
    <3>4. ASSUME NEW h \in Families PROVE ReadingIsTrue(h)'
      <4>1. Writing(h) => h = g
        BY <2>4 DEF Writing, InDns
      <4>2. row'.last[h] # NULL \/ accepted[h] = NULL
        BY <2>8, <2>4, <1>0, <4>1 DEF ReadingInv, ReadingIsTrue
      <4> QED BY <4>2, <3>2, <3>3, <2>1, <2>4 DEF ReadingIsTrue
    <3>5. SweepsWait'
      BY <2>1, <2>4 DEF SweepsWait, Sweeps
    <3> QED BY <2>1, <2>6, <3>4, <3>5 DEF ReadingInv, ServersKeepUp
  <2>10. CASE call[c].status = "nochg"
    <3>1. /\ Persisted(c).checked = call[c].seen.checked /\ Persisted(c).error = call[c].seen.error
          /\ Persisted(c).dns = call[c].seen.dns
      BY <1>0, <2>10 DEF Persisted, Row
    <3>2. row'.checked = row.checked /\ row'.error = row.error /\ \A h \in Families : row'.dns[h] = row.dns[h]
      BY <3>1, <2>1 DEF Flush
    <3>3. \A h \in Families : ~Writing(h)
      BY <2>4, <2>10 DEF Writing, InDns
    <3>4. ASSUME NEW h \in Families PROVE ReadingIsTrue(h)'
      <4>1. ReadingIsTrue(h) /\ ~Writing(h)
        BY <3>3 DEF ReadingInv
      <4>2. row'.last[h] # NULL \/ accepted[h] = NULL
        BY <2>8, <2>4, <1>0, <4>1 DEF ReadingIsTrue
      <4> QED BY <4>1, <4>2, <3>2, <2>1, <2>4 DEF ReadingIsTrue
    <3>5. SweepsWait'
      BY <2>1, <2>4 DEF SweepsWait, Sweeps
    <3> QED BY <2>1, <2>6, <3>4, <3>5 DEF ReadingInv, ServersKeepUp
  <2> QED BY <2>4, <2>9, <2>10
<1>7. ~ProviderFails(c) /\ ~CommitFails(c)
  BY DEF ProviderFails, CommitFails, ReadingsAreApart
<1> QED BY <1>2, <1>3, <1>4, <1>5, <1>6, <1>7 DEF WireStep, CallStep

(* A sweep's steps: its reading was true when it was taken.                *)
LEMMA ReadingSweep ==
  ASSUME ReadingsAreApart, TypeOK, ReadingInv, NEW s \in Sweeps, SweepStep(s)
  PROVE  ReadingInv'
<1>0. /\ sweep[s] \in SweepState /\ sweep \in [Sweeps -> SweepState] /\ row \in Row
      /\ sweep[s].obs \in [Families -> Address \cup {"error", "unasked", "pending"}]
      /\ "overlap" \notin Hazards /\ Ips \cap {"error", "unasked", "pending"} = {}
      /\ NULL \notin {"error", "unasked", "pending"} /\ NULL \notin Ips
  BY PublishingAssumption DEF TypeOK, SweepState, ReadingsAreApart
<1>1. UNCHANGED <<call, accepted, served, grace>>
  BY DEF SweepStep, SweepRead, SweepResolve, SweepWrite, SweepFails
<1>2. \A f \in Families : Writing(f)' = Writing(f)
  BY <1>1 DEF Writing
<1>3. \A c \in Calls : InDns(c)' = InDns(c)
  BY <1>1 DEF InDns
<1>4. ServersKeepUp'
  BY <1>1 DEF ServersKeepUp, ReadingInv
<1>5. CASE SweepRead(s)
  <2> DEFINE v == [pc |-> "resolving",
                   obs |-> [f \in Families |-> IF row.last[f] = NULL THEN "unasked" ELSE "pending"]]
  <2>1. sweep' = [sweep EXCEPT ![s] = v] /\ row' = row
    BY <1>5 DEF SweepRead
  <2>2. \A f \in Families : row.last[f] # NULL => v.obs[f] = "pending"
    OBVIOUS
  <2> HIDE DEF v
  <2>3. sweep'[s] = v /\ \A t \in Sweeps : t # s => sweep'[t] = sweep[t]
    BY <1>0, <2>1
  <2>4. \A c \in Calls : ~InDns(c)
    BY <1>0, <1>5 DEF SweepRead, MayOverlapCall
  <2>5. \A f \in Families : ~Writing(f)
    BY <2>4 DEF Writing, InDns
  <2>6. SweepsWait'
    <3>1. s \in Scheduled => ~grace
      BY <1>5 DEF SweepRead, Due
    <3> QED BY <1>1, <2>3, <3>1 DEF ReadingInv, SweepsWait, Sweeps
  <2>7. CallsAreAlone'
    BY <1>1, <1>3, <2>1, <2>4 DEF ReadingInv, CallsAreAlone
  <2>8. ASSUME NEW f \in Families PROVE ReadingIsTrue(f)'
    BY <1>1, <1>2, <2>1, <2>2, <2>3, <2>5 DEF ReadingInv, ReadingIsTrue
  <2> QED BY <1>4, <2>6, <2>7, <2>8 DEF ReadingInv
<1>6. ASSUME NEW f \in Families, SweepResolve(s, f)
      PROVE  ReadingInv'
  <2>1. PICK answer \in {served[f]} \cup (IF "resolver" \in Hazards THEN {"error"} ELSE {}) :
          sweep' = [sweep EXCEPT ![s].obs[f] = answer]
    BY <1>6 DEF SweepResolve
  <2>2. row' = row /\ sweep[s].pc = "resolving"
    BY <1>6 DEF SweepResolve
  <2>3. /\ \A t \in Sweeps : sweep'[t].pc = sweep[t].pc
        /\ \A t \in Sweeps, h \in Families :
             sweep'[t].obs[h] = sweep[t].obs[h] \/ (h = f /\ t = s /\ sweep'[t].obs[h] = answer)
    BY <1>0, <2>1 DEF SweepState
  <2>4. \A c \in Calls : ~InDns(c)
    BY <1>0, <2>2 DEF ReadingInv, CallsAreAlone
  <2>5. ~Writing(f)
    BY <2>4 DEF Writing, InDns
  <2>6. accepted[f] = NULL \/ served[f] = accepted[f]
    <3>1. CASE s \in Scheduled
      BY <2>2, <2>5, <3>1 DEF ReadingInv, SweepsWait, ReadingIsTrue
    <3>2. CASE s \in Forced
      BY <3>2 DEF ReadingsAreApart, ReadingInv, ServersKeepUp
    <3> QED BY <3>1, <3>2 DEF Sweeps
  <2>7. SweepsWait' /\ CallsAreAlone'
    BY <1>1, <1>3, <2>2, <2>3, <2>4 DEF ReadingInv, SweepsWait, CallsAreAlone, Sweeps
  <2>8. ASSUME NEW h \in Families PROVE ReadingIsTrue(h)'
    <3>1. ReadingIsTrue(h)
      BY DEF ReadingInv
    <3>2. ASSUME accepted[h] # NULL, NEW t \in Sweeps, sweep[t].pc = "resolving"
          PROVE  sweep'[t].obs[h] \in {accepted[h], "pending", "error"}
      BY <2>1, <2>3, <2>6, <3>1, <3>2 DEF ReadingIsTrue
    <3> QED BY <1>1, <1>2, <2>2, <2>3, <3>1, <3>2 DEF ReadingIsTrue
  <2> QED BY <1>4, <2>7, <2>8 DEF ReadingInv
<1>7. ASSUME sweep' = [sweep EXCEPT ![s] = IdleSweep]
      PROVE  /\ \A t \in Sweeps : sweep'[t] = sweep[t] \/ sweep'[t].pc = "idle"
             /\ SweepsWait'
  <2>1. \A t \in Sweeps : sweep'[t] = sweep[t] \/ sweep'[t] = IdleSweep
    BY <1>0, <1>7
  <2>2. IdleSweep.pc = "idle"
    BY DEF IdleSweep
  <2>3. \A t \in Sweeps : sweep'[t] = sweep[t] \/ sweep'[t].pc = "idle"
    BY <2>1, <2>2
  <2> QED BY <1>1, <2>3 DEF ReadingInv, SweepsWait, Sweeps
<1>8. CASE SweepWrite(s)
  <2>1. /\ sweep[s].pc = "resolving" /\ sweep' = [sweep EXCEPT ![s] = IdleSweep]
        /\ \A f \in Families : sweep[s].obs[f] # "pending"
    BY <1>8 DEF SweepWrite
  <2>2. /\ row'.last = row.last
        /\ row'.error = \E f \in Families : sweep[s].obs[f] = "error"
        /\ \A f \in Families :
             row'.dns[f] = IF sweep[s].obs[f] \in Ips THEN sweep[s].obs[f] ELSE NULL
    BY <1>0, <1>8 DEF SweepWrite, Row
  <2>3. \A c \in Calls : ~InDns(c)
    BY <1>0, <2>1 DEF ReadingInv, CallsAreAlone
  <2>4. CallsAreAlone'
    BY <1>1, <1>3, <2>2, <2>3 DEF ReadingInv, CallsAreAlone
  <2>5. ASSUME NEW f \in Families PROVE ReadingIsTrue(f)'
    <3>1. ReadingIsTrue(f) /\ accepted[f] \in Address
      BY DEF ReadingInv, TypeOK
    <3>2. accepted[f] # NULL /\ ~row'.error => row'.dns[f] = accepted[f]
      BY <2>1, <2>2, <3>1 DEF ReadingIsTrue, Address
    <3>3. \A t \in Sweeps : sweep'[t] = sweep[t] \/ sweep'[t].pc = "idle"
      BY <1>7, <2>1
    <3> QED BY <1>1, <1>2, <2>2, <3>1, <3>2, <3>3 DEF ReadingIsTrue
  <2> QED BY <1>4, <1>7, <2>1, <2>4, <2>5 DEF ReadingInv
<1>9. CASE SweepFails(s)
  BY <1>9 DEF SweepFails, ReadingsAreApart
<1> QED BY <1>5, <1>6, <1>8, <1>9 DEF SweepStep

(* A delete leaves no record of some families and touches no other.        *)
LEMMA ReadingDelete ==
  ASSUME TypeOK, ReadingInv, NEW fams \in SUBSET Families, NicDelete(fams)
  PROVE  ReadingInv'
<1>1. /\ UNCHANGED <<row, grace, call, sweep>>
      /\ accepted' = [f \in Families |-> IF f \in fams THEN NULL ELSE accepted[f]]
      /\ "lag" \notin Hazards => served' = accepted'
      /\ served' = served \/ served' = accepted'
  BY DEF NicDelete, ProviderHolds
<1>2. CallsAreAlone'
  BY <1>1 DEF ReadingInv, CallsAreAlone, InDns
<1>3. \A f \in Families : Writing(f)' = Writing(f)
  BY <1>1 DEF Writing
<1>4. ASSUME NEW f \in Families PROVE ReadingIsTrue(f)'
  <2>1. ReadingIsTrue(f) /\ (accepted'[f] = NULL \/ accepted'[f] = accepted[f])
        /\ (served'[f] = served[f] \/ served'[f] = accepted'[f])
    BY <1>1 DEF ReadingInv
  <2> QED BY <1>1, <1>3, <2>1 DEF ReadingIsTrue
<1> QED BY <1>1, <1>2, <1>4 DEF ReadingInv, ServersKeepUp, SweepsWait

(* No other step comes between a reading and what it is held against.      *)
LEMMA ReadingStep ==
  ASSUME ReadingsAreApart
  PROVE  TypeOK /\ ReadingInv /\ [Next]_vars => ReadingInv'
<1> SUFFICES ASSUME TypeOK, ReadingInv, [Next]_vars
             PROVE  ReadingInv'
  OBVIOUS
<1>1. ASSUME UNCHANGED <<call, sweep, accepted, row>>,
             \A f \in Families : served'[f] \in {served[f], accepted[f]},
             ServersKeepUp', grace' = grace \/ (served' = accepted' /\ ~grace')
      PROVE  ReadingInv'
  <2>1. CallsAreAlone'
    BY <1>1 DEF ReadingInv, CallsAreAlone, InDns
  <2>2. \A f \in Families : Writing(f)' = Writing(f)
    BY <1>1 DEF Writing
  <2>3. SweepsWait'
    BY <1>1 DEF ReadingInv, SweepsWait
  <2>4. ASSUME NEW f \in Families PROVE ReadingIsTrue(f)'
    BY <1>1, <2>2 DEF ReadingInv, ReadingIsTrue
  <2> QED BY <1>1, <2>1, <2>3, <2>4 DEF ReadingInv
<1>2. CASE \E c \in WireCalls : WireStep(c)
  BY <1>2, ReadingWire
<1>3. CASE \E fams \in SUBSET Families \ {{}} : NicDelete(fams)
  BY <1>3, ReadingDelete
<1>4. CASE \E s \in Sweeps : SweepStep(s)
  BY <1>4, ReadingSweep
<1>5. CASE ClearResults
  <2>1. row'.last = row.last /\ row'.checked = FALSE /\ UNCHANGED <<grace, accepted, served, call, sweep>>
    BY <1>5 DEF ClearResults, TypeOK, Row
  <2>2. CallsAreAlone'
    BY <2>1 DEF ReadingInv, CallsAreAlone, InDns
  <2>3. \A f \in Families : Writing(f)' = Writing(f)
    BY <2>1 DEF Writing
  <2>4. ASSUME NEW f \in Families PROVE ReadingIsTrue(f)'
    BY <2>1, <2>3 DEF ReadingInv, ReadingIsTrue
  <2> QED BY <2>1, <2>2, <2>4 DEF ReadingInv, ServersKeepUp, SweepsWait
<1>6. CASE Environment
  <2>1. CASE \E f \in Families, ip \in Ips : DeviceMoves(f, ip)
    BY <1>1, <2>1 DEF DeviceMoves, ReadingInv, ServersKeepUp
  <2>2. CASE \E f \in Families : Propagate(f)
    <3>1. PICK f \in Families : Propagate(f)
      BY <2>2
    <3>2. \A h \in Families : served'[h] \in {served[h], accepted[h]}
      BY <3>1 DEF Propagate, TypeOK
    <3>3. "lag" \in Hazards
      BY <3>1 DEF Propagate, ReadingInv, ServersKeepUp
    <3> QED BY <1>1, <3>1, <3>2, <3>3 DEF Propagate, ServersKeepUp
  <2>3. CASE GraceExpires
    BY <1>1, <2>3 DEF GraceExpires, ReadingInv, ServersKeepUp
  <2>4. ~\E f \in Families, a \in Address : ForeignEdit(f, a)
    BY DEF ForeignEdit, ReadingsAreApart
  <2> QED BY <1>6, <2>1, <2>2, <2>3, <2>4 DEF Environment
<1>7. CASE UNCHANGED vars
  BY <1>1, <1>7 DEF vars, ReadingInv, ServersKeepUp
<1> QED BY <1>2, <1>3, <1>4, <1>5, <1>6, <1>7 DEF Next, ReadingsAreApart

(* For any calls, sweeps, families and addresses, any lag of the servers   *)
(* and whatever deletes, clears and failed queries come between: while no  *)
(* sweep overlaps a call and nobody else edits the zone, what the board    *)
(* calls a divergence is one.                                              *)
THEOREM DivergencesAreReal ==
  ASSUME ReadingsAreApart
  PROVE  Spec => []DivergenceIsReal
<1>1. TypeOK /\ ReadingInv => DivergenceIsReal
  <2> SUFFICES ASSUME TypeOK, ReadingInv, Quiescent, NEW f \in Families, row.last[f] # NULL,
                      Status(f) \in {"mismatch", "missing"}, accepted[f] = row.last[f]
               PROVE  FALSE
    BY DEF DivergenceIsReal
  <2>1. ~Writing(f)
    BY DEF Writing, Quiescent
  <2>2. row.checked /\ ~row.error /\ row.dns[f] # row.last[f]
    BY DEF Status, TypeOK, Row
  <2> QED BY <2>1, <2>2 DEF ReadingInv, ReadingIsTrue
<1>2. TypeOK /\ ReadingInv /\ [Next]_vars => ReadingInv'
  BY ReadingStep
<1> QED BY <1>1, <1>2, ReadingInit, TypeCorrect, PTL DEF Spec
=============================================================================
