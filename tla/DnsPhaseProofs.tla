--------------------------- MODULE DnsPhaseProofs ---------------------------
(***************************************************************************)
(* What is proved of the DNS phase for any backends, adapters, record types *)
(* and addresses: its types and the order in which backends are asked, that *)
(* the word for a failure names the first one, that a delete which answers  *)
(* well is complete, that nochg leaves nothing to repeat and that the row   *)
(* records what is held.                                                    *)
(***************************************************************************)
EXTENDS DnsPhase, FiniteSetTheorems, TLAPS

-----------------------------------------------------------------------------
(* The order of a finite set of numbers: ranks are distinct and run through *)
(* 0 .. Cardinality(S) - 1, so every position of InOrder(S) is taken.       *)

(* Ranks are below the size of the set and grow with the elements.         *)
LEMMA RankGrows ==
  ASSUME NEW S \in SUBSET Nat, IsFiniteSet(S)
  PROVE  /\ Cardinality(S) \in Nat
         /\ \A b \in S : Rank(b, S) \in 0..(Cardinality(S) - 1)
         /\ \A a, b \in S : a < b => Rank(a, S) < Rank(b, S)
<1> DEFINE Below(b) == {x \in S : x < b}
<1>1. \A b \in S : IsFiniteSet(Below(b)) /\ Cardinality(Below(b)) \in Nat
  BY FS_Subset, FS_CardinalityType
<1>2. Cardinality(S) \in Nat
  BY FS_CardinalityType
<1>3. ASSUME NEW T \in SUBSET S, NEW U \in SUBSET T, U # T
      PROVE  Cardinality(U) < Cardinality(T)
  <2>1. IsFiniteSet(T)
    BY FS_Subset
  <2>2. Cardinality(U) <= Cardinality(T) /\ Cardinality(T) # Cardinality(U)
    BY <2>1, <1>3, FS_Subset
  <2>3. Cardinality(U) \in Nat /\ Cardinality(T) \in Nat
    BY <2>1, FS_Subset, FS_CardinalityType
  <2> QED BY <2>2, <2>3
<1>4. \A b \in S : Cardinality(Below(b)) < Cardinality(S)
  <2> SUFFICES ASSUME NEW b \in S PROVE Cardinality(Below(b)) < Cardinality(S)
    OBVIOUS
  <2>1. Below(b) \in SUBSET S /\ b \notin Below(b)
    OBVIOUS
  <2> HIDE DEF Below
  <2> QED BY <2>1, <1>3
<1>5. \A a, b \in S : a < b => Cardinality(Below(a)) < Cardinality(Below(b))
  <2> SUFFICES ASSUME NEW a \in S, NEW b \in S, a < b
               PROVE  Cardinality(Below(a)) < Cardinality(Below(b))
    OBVIOUS
  <2>a. a \in Int /\ \A x \in S : x \in Int /\ (x < a => x < b)
    OBVIOUS
  <2>b. ~(a < a)
    BY <2>a
  <2>1. Below(b) \in SUBSET S /\ Below(a) \in SUBSET Below(b) /\ a \in Below(b) /\ a \notin Below(a)
    BY <2>a, <2>b, Zenon
  <2> HIDE DEF Below
  <2> QED BY <2>1, <1>3
<1>6. \A b \in S : Rank(b, S) = Cardinality(Below(b))
  BY DEF Rank
<1> HIDE DEF Below
<1>7. \A b \in S : Cardinality(Below(b)) \in 0..(Cardinality(S) - 1)
  BY <1>1, <1>2, <1>4
<1> QED BY <1>2, <1>5, <1>6, <1>7

(* No rank is left out: they are an injection into as many numbers.        *)
LEMMA EveryRankIsTaken ==
  ASSUME NEW S \in SUBSET Nat, IsFiniteSet(S), NEW k \in 0..(Cardinality(S) - 1)
  PROVE  \E b \in S : Rank(b, S) = k
<1> DEFINE T == 0..(Cardinality(S) - 1)
           f == [b \in S |-> Rank(b, S)]
<1>1. Cardinality(S) \in Nat /\ IsFiniteSet(T) /\ Cardinality(T) = Cardinality(S)
  <2>1. Cardinality(S) \in Nat
    BY FS_CardinalityType
  <2> QED BY <2>1, FS_Interval
<1>2. f \in [S -> T] /\ \A a, b \in S : f[a] = f[b] => a = b
  <2>1. f \in [S -> T]
    BY RankGrows
  <2>2. ASSUME NEW a \in S, NEW b \in S, f[a] = f[b] PROVE a = b
    <3>1. a \in Nat /\ b \in Nat /\ Rank(a, S) = Rank(b, S)
      BY <2>2
    <3>2. ~(a < b) /\ ~(b < a)
      BY <3>1, RankGrows
    <3> QED BY <3>1, <3>2
  <2> QED BY <2>1, <2>2
<1> HIDE DEF f, T
<1>3. f \in Injection(S, T)
  BY <1>2 DEF Injection, IsInjective
<1>4. f \in Surjection(S, T)
  BY <1>1, <1>3, FS_Injection
<1>5. PICK b \in S : f[b] = k
  BY <1>4 DEF Surjection, T
<1> QED BY <1>5 DEF f

(* A set of ids that is not empty has a least one.                         *)
LEMMA LeastOne ==
  ASSUME NEW S \in SUBSET Nat, S # {}
  PROVE  \E n \in S : \A m \in S : n <= m
<1>1. PICK k \in S : TRUE
  OBVIOUS
<1> DEFINE T == {m \in S : m <= k}
<1>2. T \in SUBSET Nat /\ k \in T /\ IsFiniteSet(T)
  <2>1. IsFiniteSet(0..k)
    BY FS_Interval
  <2>a. k \in Nat /\ k <= k
    OBVIOUS
  <2>b. \A m \in S : m <= k => m \in 0..k
    BY <2>a
  <2>2. T \in SUBSET (0..k) /\ T \in SUBSET Nat /\ k \in T
    BY <2>a, <2>b, Zenon
  <2> HIDE DEF T
  <2> QED BY <2>1, <2>2, FS_Subset
<1> HIDE DEF T
<1>3. Cardinality(T) \in Nat /\ Cardinality(T) # 0
  BY <1>2, FS_CardinalityType, FS_EmptySet
<1>4. PICK n \in T : Rank(n, T) = 0
  BY <1>2, <1>3, EveryRankIsTaken
<1>5. ASSUME NEW m \in T, m < n PROVE FALSE
  <2>1. Rank(m, T) < Rank(n, T) /\ Rank(m, T) \in Nat
    BY <1>2, <1>3, <1>5, RankGrows
  <2> QED BY <2>1, <1>4
<1>6. \A m \in T : n <= m
  BY <1>2, <1>5
<1> QED BY <1>2, <1>6 DEF T

(* Backends are numbered, and there are finitely many.                     *)
LEMMA BackendsAreFinite ==
  ASSUME NEW S \in SUBSET Backends
  PROVE  S \in SUBSET Nat /\ IsFiniteSet(S)
<1>1. Backends \subseteq Nat
  BY DnsPhaseAssumption DEF Backends
<1>2. IsFiniteSet(Backends)
  <2>1. 1 \in Int /\ N \in Int
    BY DnsPhaseAssumption
  <2> QED BY <2>1, FS_Interval DEF Backends
<1> QED BY <1>1, <1>2, FS_Subset

(* A plan asks backends of the set it is made of, in the order of their    *)
(* ids, and leaves none of them out.                                       *)
LEMMA InOrderIsOrdered ==
  ASSUME NEW S \in SUBSET Backends
  PROVE  /\ InOrder(S) \in Seq(S)
         /\ \A i, j \in DOMAIN InOrder(S) : i < j => InOrder(S)[i] < InOrder(S)[j]
         /\ \A b \in S : \E i \in DOMAIN InOrder(S) : InOrder(S)[i] = b
<1> DEFINE n == Cardinality(S)
           s == InOrder(S)
<1>1. S \in SUBSET Nat /\ IsFiniteSet(S) /\ n \in Nat
  BY BackendsAreFinite, FS_CardinalityType
<1>2. ASSUME NEW i \in 1..n
      PROVE  s[i] \in S /\ Rank(s[i], S) = i - 1
  <2>1. i - 1 \in 0..(n - 1)
    BY <1>1
  <2>2. \E b \in S : Rank(b, S) = i - 1
    BY <2>1, <1>1, EveryRankIsTaken
  <2>3. s[i] = CHOOSE b \in S : Rank(b, S) = i - 1
    BY DEF InOrder
  <2> HIDE DEF s
  <2> QED BY <2>2, <2>3
<1>3. s = [i \in 1..n |-> s[i]] /\ DOMAIN s = 1..n
  BY DEF InOrder
<1> HIDE DEF s, n
<1>4. s \in Seq(S)
  <2>1. s \in [1..n -> S]
    BY <1>2, <1>3
  <2> QED BY <1>1, <2>1
<1>5. ASSUME NEW i \in 1..n, NEW j \in 1..n, i < j
      PROVE  s[i] < s[j]
  <2>1. s[i] \in Nat /\ s[j] \in Nat
    BY <1>1, <1>2
  <2>2. Rank(s[i], S) = i - 1 /\ Rank(s[j], S) = j - 1
    BY <1>2
  <2>3. ~(s[j] < s[i])
    <3>1. SUFFICES ASSUME s[j] < s[i] PROVE FALSE
      OBVIOUS
    <3>2. Rank(s[j], S) < Rank(s[i], S)
      BY <3>1, <1>1, <1>2, RankGrows
    <3> QED BY <2>2, <3>2, <1>5, <1>1
  <2>4. s[i] # s[j]
    <3>1. SUFFICES ASSUME s[i] = s[j] PROVE FALSE
      OBVIOUS
    <3>2. i - 1 = j - 1
      BY <2>2, <3>1
    <3> QED BY <3>2, <1>5, <1>1
  <2> QED BY <2>1, <2>3, <2>4
<1>6. ASSUME NEW b \in S
      PROVE  \E i \in 1..n : s[i] = b
  <2>1. Rank(b, S) \in 0..(n - 1)
    BY <1>1, RankGrows DEF n
  <2> DEFINE i == Rank(b, S) + 1
  <2>2. i \in 1..n /\ i - 1 = Rank(b, S)
    BY <1>1, <2>1
  <2> HIDE DEF i
  <2>3. s[i] \in S /\ Rank(s[i], S) = Rank(b, S)
    BY <1>2, <2>2
  <2>4. ~(s[i] < b) /\ ~(b < s[i])
    <3>1. \A x, y \in S : x < y => Rank(x, S) < Rank(y, S)
      BY <1>1, RankGrows
    <3>2. Rank(b, S) \in Int
      BY <2>1
    <3> QED BY <3>1, <3>2, <2>3
  <2>5. s[i] \in Nat /\ b \in Nat
    BY <1>1, <2>3
  <2>6. s[i] = b
    BY <2>4, <2>5
  <2> QED BY <2>2, <2>6
<1> QED BY <1>3, <1>4, <1>5, <1>6 DEF s

-----------------------------------------------------------------------------
LEMMA InitTypeOK == Init => TypeOK
<1> SUFFICES ASSUME Init PROVE TypeOK
  OBVIOUS
<1>1. <<>> \in Seq(Backends) /\ <<>> \in Seq(Statuses) /\ Len(<<>>) <= Len(<<>>) /\ DOMAIN <<>> = {}
  OBVIOUS
<1>2. Nothing \in [Families -> Address]
  BY DEF Nothing, Address
<1>3. Fresh \in Turns
  BY <1>2 DEF Fresh, Turns
<1>4. Idle \in Calls
  BY <1>1, <1>3 DEF Idle, Calls, Address, Credentials
<1>5. call \in Calls /\ call.plan = <<>> /\ call.answers = <<>> /\ ~call.turn.begun
  BY <1>4 DEF Init, Idle, Fresh
<1>6. \A i, j \in DOMAIN call.plan : i < j => call.plan[i] < call.plan[j]
  BY <1>1, <1>5, Zenon
<1>7. Len(call.answers) <= Len(call.plan)
  BY <1>1, <1>5, Zenon
<1>8. /\ holds \in [Backends -> [Families -> Address]] /\ last \in [Families -> Address]
      /\ home \in [Families -> Ips] /\ bound \subseteq Backends /\ selected \subseteq bound
      /\ creds \in [Backends -> Credentials] /\ inside \in BOOLEAN /\ hosted \subseteq Backends
  BY <1>2 DEF Init
<1> QED BY <1>5, <1>6, <1>7, <1>8, Zenon DEF TypeOK

(* The two things an exchange does to the call: the backend whose turn it  *)
(* is answers, or its adapter goes on.  U are those found not to be shown  *)
(* whole.                                                                  *)
Answering(w, U) ==
  [call EXCEPT !.answers = Append(@, w), !.turn = Fresh, !.excused = @ \cup U]
GoingOn(t, U) == [call EXCEPT !.turn = t, !.excused = @ \cup U]

(* An answer is one more status of the backend that was asked.             *)
LEMMA AnsweringShape ==
  ASSUME TypeOK, Asking, NEW w \in Statuses, NEW U \in SUBSET Backends, call' = Answering(w, U)
  PROVE  /\ call' \in Calls
         /\ call'.op = call.op /\ call'.fams = call.fams /\ call'.ip = call.ip
         /\ call'.plan = call.plan /\ call'.turn = Fresh /\ call'.excused = call.excused \cup U
         /\ Len(call.answers) \in Nat /\ Len(call.plan) \in Nat
         /\ Len(call'.answers) = Len(call.answers) + 1 /\ Len(call'.answers) <= Len(call.plan)
         /\ call'.answers[Len(call.answers) + 1] = w
         /\ DOMAIN call'.answers = 1..(Len(call.answers) + 1)
         /\ \A i \in 1..Len(call.answers) : call'.answers[i] = call.answers[i]
         /\ DOMAIN call.answers = 1..Len(call.answers)
<1> DEFINE q == call.answers
           n == Len(call.plan)
<1>1. call \in Calls
  BY DEF TypeOK
<1>2. q \in Seq(Statuses) /\ n \in Nat /\ call.excused \subseteq Backends
  BY <1>1 DEF Calls
<1>3. Len(q) < n
  BY DEF Asking
<1>4. Fresh \in Turns
  BY DEF Fresh, Turns, Nothing, Address
<1>5. /\ call'.op = call.op /\ call'.fams = call.fams /\ call'.ip = call.ip
      /\ call'.plan = call.plan /\ call'.turn = Fresh /\ call'.excused = call.excused \cup U
      /\ call'.answers = Append(q, w)
  BY <1>1 DEF Answering, Calls
<1> HIDE DEF q, n
<1>6. /\ Append(q, w) \in Seq(Statuses) /\ Len(Append(q, w)) = Len(q) + 1 /\ Len(q) \in Nat
      /\ Append(q, w)[Len(q) + 1] = w /\ DOMAIN q = 1..Len(q)
      /\ \A i \in 1..Len(q) : Append(q, w)[i] = q[i]
  BY <1>2
<1>7. DOMAIN Append(q, w) = 1..(Len(q) + 1)
  BY <1>6, <1>2
<1>8. call' \in Calls
  <2>1. call' = [call EXCEPT !.answers = Append(q, w), !.turn = Fresh,
                             !.excused = call.excused \cup U]
    BY <1>1 DEF Answering, q
  <2>2. call.excused \cup U \in SUBSET Backends
    BY <1>2
  <2> QED BY <1>1, <1>4, <1>6, <2>1, <2>2 DEF Calls
<1> QED BY <1>2, <1>3, <1>5, <1>6, <1>7, <1>8 DEF q, n

(* An adapter that goes on leaves the call as it was but for its turn.     *)
LEMMA GoingOnShape ==
  ASSUME TypeOK, NEW t \in Turns, NEW U \in SUBSET Backends, call' = GoingOn(t, U)
  PROVE  /\ call' \in Calls
         /\ call'.op = call.op /\ call'.fams = call.fams /\ call'.ip = call.ip
         /\ call'.plan = call.plan /\ call'.answers = call.answers
         /\ call'.turn = t /\ call'.excused = call.excused \cup U
<1>1. call \in Calls /\ call.excused \cup U \in SUBSET Backends
  BY DEF TypeOK, Calls
<1> QED BY <1>1 DEF GoingOn, Calls

(* The backend a call is at is one of its plan's.                          *)
LEMMA CurrentIsOfThePlan ==
  ASSUME TypeOK, Asking
  PROVE  /\ Len(call.answers) + 1 \in DOMAIN call.plan /\ Current \in Backends
         /\ call.plan \in Seq(Backends) /\ DOMAIN call.plan = 1..Len(call.plan)
<1>1. call.plan \in Seq(Backends) /\ call.answers \in Seq(Statuses)
  BY DEF TypeOK, Calls
<1>2. Len(call.plan) \in Nat /\ Len(call.answers) \in Nat /\ Len(call.answers) < Len(call.plan)
  BY <1>1 DEF Asking
<1>3. DOMAIN call.plan = 1..Len(call.plan) /\ \A i \in 1..Len(call.plan) : call.plan[i] \in Backends
  BY <1>1
<1>4. Len(call.answers) + 1 \in 1..Len(call.plan)
  BY <1>2
<1> QED BY <1>1, <1>3, <1>4 DEF Current

(* A plain answer is one that finds nothing hidden.                        *)
LEMMA AnsweredIsAnswering ==
  ASSUME TypeOK, NEW w, NEW U
  PROVE  /\ Answered(w) = Answering(w, {})
         /\ [Answered(w) EXCEPT !.excused = @ \cup U] = Answering(w, U)
<1>1. call \in Calls
  BY DEF TypeOK
<1> QED BY <1>1 DEF Answered, Answering, Calls

(* A listing shows every record type of the call that is there, or the     *)
(* backend is not shown whole.                                             *)
LEMMA ListShape ==
  ASSUME TypeOK, ListRecords
  PROVE  \E U \in SUBSET Backends :
           \/ call' = Answering("dnserr", U)
           \/ /\ call' = Answering("nochg", U) /\ holds' = holds
              /\ \A f \in call.fams : holds[Current][f] = NULL \/ Current \in U
           \/ /\ \E t \in Turns :
                   /\ call' = GoingOn(t, U) /\ t.gone = call.turn.gone
                   /\ \A f \in call.fams :
                        t.listed[f] = NULL => holds[Current][f] = NULL \/ Current \in U
              /\ holds' = holds
<1> USE DnsPhaseAssumption
<1>0. /\ call \in Calls /\ holds \in [Backends -> [Families -> Address]] /\ call.turn \in Turns
      /\ Current \in Backends /\ call.fams \subseteq Families
  BY CurrentIsOfThePlan DEF TypeOK, Calls, ListRecords, Provisioned
<1>1. CASE Refused
  <2>1. call' = Answering("dnserr", {}) /\ {} \in SUBSET Backends
    BY <1>1, AnsweredIsAnswering DEF Refused
  <2> QED BY <2>1
<1>2. CASE ~Refused
  <2>1. holds' = holds
    BY <1>2 DEF ListRecords
  <2>2. PICK page \in Pages :
          LET unseen == IF Present \subseteq page THEN {} ELSE {Current}
          IN IF Present \cap page = {}
             THEN call' = [Answered("nochg") EXCEPT !.excused = @ \cup unseen]
             ELSE call' = [call EXCEPT
                     !.excused = @ \cup unseen, !.turn.begun = TRUE,
                     !.turn.listed = [f \in Families |->
                        IF f \in Present \cap page THEN holds[Current][f] ELSE NULL]]
    BY <1>2 DEF ListRecords
  <2> DEFINE U == IF Present \subseteq page THEN {} ELSE {Current}
             L == [f \in Families |->
                      IF f \in Present \cap page THEN holds[Current][f] ELSE NULL]
  <2>3. U \in SUBSET Backends
    BY <1>0
  <2>4. \A f \in call.fams : f \notin page => holds[Current][f] = NULL \/ Current \in U
    BY DEF Present
  <2>5. IF Present \cap page = {}
        THEN call' = [Answered("nochg") EXCEPT !.excused = @ \cup U]
        ELSE call' = [call EXCEPT !.excused = @ \cup U, !.turn.begun = TRUE, !.turn.listed = L]
    BY <2>2
  <2>6. \A f \in call.fams : L[f] = NULL => f \notin Present \cap page
    BY <1>0 DEF Present
  <2>7. L \in [Families -> Address]
    BY <1>0 DEF Address
  <2> HIDE DEF U, L
  <2>8. CASE Present \cap page = {}
    <3>1. call' = Answering("nochg", U)
      BY <2>5, <2>8, AnsweredIsAnswering
    <3>2. \A f \in call.fams : holds[Current][f] = NULL \/ Current \in U
      BY <2>4, <2>8 DEF Present
    <3> QED BY <2>1, <2>3, <3>1, <3>2
  <2>9. CASE Present \cap page # {}
    <3> DEFINE t == [call.turn EXCEPT !.begun = TRUE, !.listed = L]
    <3>1. t \in Turns /\ t.gone = call.turn.gone /\ t.listed = L
      BY <1>0, <2>7 DEF Turns
    <3>2. call' = GoingOn(t, U)
      BY <1>0, <2>5, <2>9 DEF GoingOn, Calls, Turns
    <3> HIDE DEF t
    <3>3. \A f \in call.fams : t.listed[f] = NULL => holds[Current][f] = NULL \/ Current \in U
      BY <2>4, <2>6, <3>1 DEF Present
    <3> QED BY <2>1, <2>3, <3>1, <3>2, <3>3
  <2> QED BY <2>8, <2>9
<1> QED BY <1>1, <1>2

(* Each of hetzner's requests goes through one record type, and deletes it *)
(* if it is there and the backend is shown whole.                          *)
LEMMA NextTypeShape ==
  ASSUME TypeOK, DeleteNextType
  PROVE  \E U \in SUBSET Backends :
           \/ call' = Answering("dnserr", U)
           \/ /\ \/ /\ call.fams \subseteq call.turn.gone \cup {NextType}
                    /\ \E w \in {"good", "nochg"} : call' = Answering(w, U)
                 \/ \E t \in Turns :
                      call' = GoingOn(t, U) /\ t.gone = call.turn.gone \cup {NextType}
              /\ \/ holds' = Without({NextType})
                 \/ holds' = holds /\ (NextType \in Present => Current \in U)
<1> USE DnsPhaseAssumption
<1>0. /\ call \in Calls /\ holds \in [Backends -> [Families -> Address]] /\ call.turn \in Turns
      /\ Current \in Backends
  BY CurrentIsOfThePlan DEF TypeOK, Calls, DeleteNextType, Provisioned
<1>1. PICK handle \in Handles :
        LET f == NextType
            there == handle /\ f \in Present
            unseen == IF ~handle /\ f \in Present THEN {Current} ELSE {}
            after == Deleted(f, call.turn.any \/ there, there)
        IN \/ /\ holds' = IF there THEN Without({f}) ELSE holds
              /\ call' = IF Len(after.answers) > Len(call.answers)
                         THEN [after EXCEPT !.excused = @ \cup unseen]
                         ELSE [after EXCEPT !.excused = @ \cup unseen, !.turn.begun = TRUE,
                                            !.turn.handle = handle]
           \/ /\ "provider" \in Faults
              /\ holds' \in {holds, IF there THEN Without({f}) ELSE holds}
              /\ call' = Answered("dnserr")
  BY DEF DeleteNextType
<1> DEFINE f == NextType
           there == handle /\ f \in Present
           U == IF ~handle /\ f \in Present THEN {Current} ELSE {}
           any == call.turn.any \/ there
           after == Deleted(f, any, there)
<1>2. U \in SUBSET Backends /\ there \in BOOLEAN /\ any \in BOOLEAN /\ handle \in BOOLEAN
  BY <1>0 DEF Turns, Handles
<1>3. CASE call' = Answered("dnserr")
  <2>1. call' = Answering("dnserr", {}) /\ {} \in SUBSET Backends
    BY <1>3, AnsweredIsAnswering
  <2> QED BY <2>1
<1>4. CASE call' # Answered("dnserr")
  <2>1. /\ holds' = IF there THEN Without({f}) ELSE holds
        /\ call' = IF Len(after.answers) > Len(call.answers)
                   THEN [after EXCEPT !.excused = @ \cup U]
                   ELSE [after EXCEPT !.excused = @ \cup U, !.turn.begun = TRUE,
                                      !.turn.handle = handle]
    BY <1>1, <1>4
  <2>2. holds' = Without({f}) \/ (holds' = holds /\ (f \in Present => Current \in U))
    BY <1>2, <2>1
  <2>3. CASE call.fams \subseteq call.turn.gone \cup {f}
    <3> DEFINE w == IF any THEN "good" ELSE "nochg"
    <3>1. w \in {"good", "nochg"} /\ after = Answered(w)
      BY <2>3 DEF Deleted
    <3> HIDE DEF w
    <3>2. Len(after.answers) > Len(call.answers)
      <4>1. after.answers = Append(call.answers, w) /\ call.answers \in Seq(Statuses)
            /\ w \in Statuses
        BY <1>0, <3>1 DEF Answered, Calls, Statuses
      <4> HIDE DEF after
      <4>2. Len(Append(call.answers, w)) = Len(call.answers) + 1 /\ Len(call.answers) \in Nat
        BY <4>1
      <4> QED BY <4>1, <4>2
    <3>3. call' = [Answered(w) EXCEPT !.excused = @ \cup U]
      BY <2>1, <3>1, <3>2
    <3>4. call' = Answering(w, U)
      BY <3>3, AnsweredIsAnswering
    <3> QED BY <1>2, <2>2, <2>3, <3>1, <3>4
  <2>4. CASE ~(call.fams \subseteq call.turn.gone \cup {f})
    <3>1. f \in Families
      BY <1>0, <2>4 DEF NextType, Calls
    <3> DEFINE t == [call.turn EXCEPT !.gone = @ \cup {f}, !.any = any, !.begun = TRUE,
                                      !.handle = handle]
    <3>2. after = [call EXCEPT !.turn.gone = @ \cup {f}, !.turn.any = any]
      BY <2>4 DEF Deleted
    <3>3. t \in Turns /\ t.gone = call.turn.gone \cup {f}
      <4> HIDE DEF f, any
      <4>1. call.turn.gone \cup {f} \in SUBSET Families
        BY <1>0, <3>1 DEF Turns
      <4> QED BY <1>0, <1>2, <4>1 DEF Turns
    <3>4. ~(Len(after.answers) > Len(call.answers))
      <4>1. after.answers = call.answers /\ call.answers \in Seq(Statuses)
        BY <1>0, <3>2 DEF Calls
      <4> HIDE DEF after
      <4>2. Len(call.answers) \in Nat
        BY <4>1
      <4> QED BY <4>1, <4>2
    <3>5. call' = [after EXCEPT !.excused = @ \cup U, !.turn.begun = TRUE, !.turn.handle = handle]
      BY <2>1, <3>4
    <3>6. [after EXCEPT !.excused = @ \cup U, !.turn.begun = TRUE, !.turn.handle = handle]
            = GoingOn(t, U)
      <4> HIDE DEF f, any, U
      <4> QED BY <1>0, <3>2 DEF GoingOn, Calls, Turns
    <3> HIDE DEF t
    <3> QED BY <1>2, <2>2, <3>3, <3>5, <3>6
  <2> QED BY <2>3, <2>4
<1> QED BY <1>3, <1>4

(* What a turn's step does, whichever adapter has it.                      *)
Turn ==
  /\ Asking
  /\ \E U \in SUBSET Backends :
       \/ \E w \in Statuses : call' = Answering(w, U)
       \/ \E t \in Turns : call' = GoingOn(t, U)
  /\ holds' \in [Backends -> [Families -> Address]]
  /\ UNCHANGED <<configuration, last, home>>

LEMMA TurnShape ==
  ASSUME TypeOK, Phase, ~Finish
  PROVE  Turn
<1> USE DnsPhaseAssumption
<1>0. /\ call \in Calls /\ holds \in [Backends -> [Families -> Address]] /\ call.ip \in Address
      /\ call.turn \in Turns
  BY DEF TypeOK, Calls
<1>a. ASSUME NEW w \in Statuses, call' = Answered(w)
      PROVE  \E U \in SUBSET Backends : \E v \in Statuses : call' = Answering(v, U)
  <2>1. call' = Answering(w, {})
    BY <1>a, AnsweredIsAnswering
  <2>2. {} \in SUBSET Backends
    OBVIOUS
  <2> QED BY <2>1, <2>2
<1>w. ASSUME NEW fams PROVE Without(fams) \in [Backends -> [Families -> Address]]
  <2> DEFINE G == [f \in Families |-> IF f \in fams THEN NULL ELSE holds[Current][f]]
  <2>1. Without(fams) = [holds EXCEPT ![Current] = G]
    BY DEF Without
  <2>2. Current \in Backends => G \in [Families -> Address]
    BY <1>0 DEF Address
  <2> HIDE DEF G
  <2> QED BY <1>0, <2>1, <2>2
<1>1. CASE Unprovisioned
  BY <1>0, <1>1, <1>a DEF Unprovisioned, Statuses, Turn
<1>2. ASSUME NEW f \in Families, Unchanged(f)
      PROVE  Turn
  BY <1>0, <1>2, <1>a DEF Unchanged, Provisioned, Statuses, Turn
<1>3. ASSUME NEW f \in Families, Upsert(f)
      PROVE  Turn
  <2>1. Asking /\ UNCHANGED <<configuration, last, home>>
    BY <1>3 DEF Upsert, Provisioned
  <2>2. \E w \in Statuses : call' = Answered(w)
    BY <1>3 DEF Upsert, Applied, Refused, Statuses
  <2>3. holds' \in [Backends -> [Families -> Address]]
    <3>1. holds' = [holds EXCEPT ![Current][f] = call.ip] \/ holds' = holds
      BY <1>3 DEF Upsert, Refused
    <3> QED BY <1>0, <3>1
  <2> QED BY <1>0, <1>a, <2>1, <2>2, <2>3 DEF Turn
<1>4. CASE DeleteMessage
  <2>1. Asking /\ UNCHANGED <<configuration, last, home>>
    BY <1>4 DEF DeleteMessage, Provisioned
  <2>2. \E w \in Statuses : call' = Answered(w)
    BY <1>4 DEF DeleteMessage, Applied, Refused, Statuses
  <2>3. holds' = Without(call.fams) \/ holds' = holds
    BY <1>4 DEF DeleteMessage, Refused
  <2> QED BY <1>0, <1>a, <1>w, <2>1, <2>2, <2>3 DEF Turn
<1>5. CASE ListRecords
  <2>1. Asking /\ UNCHANGED <<configuration, last, home>> /\ holds' = holds
    BY <1>5 DEF ListRecords, Provisioned, Refused
  <2> QED BY <1>0, <1>5, <2>1, ListShape DEF Turn, Statuses
<1>6. CASE DeleteListed
  <2>1. Asking /\ UNCHANGED <<configuration, last, home>>
    BY <1>6 DEF DeleteListed, Provisioned
  <2>2. \E w \in Statuses : call' = Answered(w)
    BY <1>6 DEF DeleteListed, Applied, Statuses
  <2>3. holds' = Without(Listed) \/ holds' = holds
    BY <1>6 DEF DeleteListed
  <2> QED BY <1>0, <1>a, <1>w, <2>1, <2>2, <2>3 DEF Turn
<1>7. CASE DeleteNextType
  <2>1. Asking /\ UNCHANGED <<configuration, last, home>>
    BY <1>7 DEF DeleteNextType, Provisioned
  <2>2. holds' = holds \/ \E fams : holds' = Without(fams)
    BY <1>7 DEF DeleteNextType
  <2>3. holds' \in [Backends -> [Families -> Address]]
    BY <1>0, <1>w, <2>2
  <2> QED BY <1>7, <2>1, <2>3, NextTypeShape DEF Turn, Statuses
<1> QED BY <1>1, <1>2, <1>3, <1>4, <1>5, <1>6, <1>7 DEF Phase

LEMMA TypeStep == TypeOK /\ [Next]_vars => TypeOK'
<1> SUFFICES ASSUME TypeOK, [Next]_vars PROVE TypeOK'
  OBVIOUS
<1> USE DnsPhaseAssumption
<1>t. /\ call \in Calls /\ holds \in [Backends -> [Families -> Address]]
      /\ last \in [Families -> Address] /\ home \in [Families -> Ips]
  BY DEF TypeOK
<1>n. Nothing \in [Families -> Address]
  BY DEF Nothing, Address
<1>f. Fresh \in Turns /\ ~Fresh.begun
  BY <1>n DEF Fresh, Turns
<1>e. <<>> \in Seq(Backends) /\ <<>> \in Seq(Statuses) /\ Len(<<>>) = 0 /\ DOMAIN <<>> = {}
  OBVIOUS
<1>1. ASSUME NEW op \in {"update", "delete"}, NEW fams \in SUBSET Families, NEW ip \in Address,
             Start(op, fams, ip)
      PROVE  TypeOK'
  <2>1. Resolved \in SUBSET Backends
    BY DEF Resolved, TypeOK
  <2> DEFINE plan == InOrder(Resolved)
  <2>2. /\ plan \in Seq(Backends)
        /\ \A i, j \in DOMAIN plan : i < j => plan[i] < plan[j]
    <3>1. plan \in Seq(Resolved)
      BY <2>1, InOrderIsOrdered
    <3> HIDE DEF plan
    <3>2. plan \in Seq(Backends)
      BY <2>1, <3>1
    <3> QED BY <2>1, <3>2, InOrderIsOrdered DEF plan
  <2> HIDE DEF plan
  <2>3. call' = [op |-> op, fams |-> fams, ip |-> ip, plan |-> plan, creds |-> creds,
                 inside |-> inside, answers |-> <<>>, turn |-> Fresh, excused |-> {}]
    BY <1>1 DEF Start, Idle, plan
  <2>4. Len(plan) \in Nat /\ creds \in [Backends -> Credentials] /\ inside \in BOOLEAN
    BY <2>2 DEF TypeOK
  <2>5. call' \in Calls /\ call'.plan = plan /\ call'.answers = <<>> /\ ~call'.turn.begun
    BY <1>e, <1>f, <2>2, <2>3, <2>4 DEF Calls
  <2>6. Len(call'.answers) <= Len(call'.plan)
    BY <1>e, <2>4, <2>5
  <2>7. UNCHANGED <<bound, selected, creds, inside, hosted, holds, last, home>>
    BY <1>1 DEF Start, configuration
  <2> QED BY <2>2, <2>5, <2>6, <2>7 DEF TypeOK
<1>2. CASE Phase /\ ~Finish
  <2>1. Turn
    BY <1>2, TurnShape
  <2>2. /\ holds' \in [Backends -> [Families -> Address]]
        /\ UNCHANGED <<bound, selected, creds, inside, hosted, last, home>>
    BY <2>1 DEF Turn, configuration
  <2>3. PICK U \in SUBSET Backends :
          \/ \E w \in Statuses : call' = Answering(w, U)
          \/ \E t \in Turns : call' = GoingOn(t, U)
    BY <2>1 DEF Turn
  <2>4. /\ call' \in Calls /\ call'.plan = call.plan /\ Len(call'.answers) <= Len(call.plan)
        /\ call'.turn.begun => Asking'
    <3>1. ASSUME NEW w \in Statuses, call' = Answering(w, U)
          PROVE  /\ call' \in Calls /\ call'.plan = call.plan
                 /\ Len(call'.answers) <= Len(call.plan) /\ ~call'.turn.begun
      BY <1>f, <2>1, <3>1, AnsweringShape DEF Turn
    <3>2. ASSUME NEW t \in Turns, call' = GoingOn(t, U)
          PROVE  /\ call' \in Calls /\ call'.plan = call.plan
                 /\ Len(call'.answers) <= Len(call.plan) /\ Asking'
      <4>1. /\ call' \in Calls /\ call'.plan = call.plan /\ call'.answers = call.answers
            /\ call'.op = call.op
        BY <3>2, GoingOnShape
      <4> QED BY <2>1, <4>1 DEF Turn, Asking, TypeOK
    <3> QED BY <2>3, <3>1, <3>2
  <2> QED BY <2>2, <2>4 DEF TypeOK
<1>3. CASE Finish
  <2>1. Idle \in Calls
    BY <1>e, <1>f DEF Idle, Calls, Address, Credentials
  <2>2. call' \in Calls /\ call'.plan = <<>> /\ call'.answers = <<>> /\ ~call'.turn.begun
    BY <1>3, <1>f, <2>1 DEF Finish, Idle
  <2>3. (\A i, j \in DOMAIN call'.plan : i < j => call'.plan[i] < call'.plan[j])
    BY <1>e, <2>2, Zenon
  <2>4. Len(call'.answers) <= Len(call'.plan)
    BY <1>e, <2>2
  <2>5. last' \in [Families -> Address]
    BY <1>3, <1>t DEF Finish, Calls
  <2>6. UNCHANGED <<bound, selected, creds, inside, hosted, holds, home>>
    BY <1>3 DEF Finish, configuration
  <2> QED BY <2>2, <2>3, <2>4, <2>5, <2>6 DEF TypeOK
<1>a. ASSUME call' = call PROVE Asking' = Asking
  BY <1>a DEF Asking
<1>c. ASSUME NEW b \in Backends, call' = Excusing(b)
      PROVE  /\ call' \in Calls /\ call'.plan = call.plan /\ call'.answers = call.answers
             /\ call'.turn = call.turn /\ Asking' = Asking
  <2>1. CASE call.op = "none"
    BY <1>c, <1>t, <1>a, <2>1 DEF Excusing
  <2>2. CASE call.op # "none"
    <3>1. call' = [call EXCEPT !.excused = @ \cup {b}]
      BY <1>c, <2>2 DEF Excusing
    <3>2. /\ call' \in Calls /\ call'.plan = call.plan /\ call'.answers = call.answers
          /\ call'.turn = call.turn /\ call'.op = call.op
      BY <1>t, <3>1 DEF Calls
    <3> QED BY <3>2 DEF Asking
  <2> QED BY <2>1, <2>2
<1>4. CASE Configuration
  <2>1. ASSUME NEW b \in Backends, Unhost(b)
        PROVE  TypeOK'
    <3>1. /\ hosted' \subseteq Backends /\ holds' \in [Backends -> [Families -> Address]]
          /\ call' = Excusing(b) /\ UNCHANGED <<bound, selected, creds, inside, last, home>>
      BY <1>n, <1>t, <2>1 DEF Unhost, TypeOK
    <3> QED BY <1>c, <3>1 DEF TypeOK
  <2>2. ASSUME NEW b \in Backends, NEW c \in Credentials, Provision(b, c)
        PROVE  TypeOK'
    <3>1. creds' \in [Backends -> Credentials]
          /\ UNCHANGED <<bound, selected, inside, hosted, holds, last, home, call>>
      BY <2>2 DEF Provision, TypeOK
    <3> QED BY <1>a, <3>1 DEF TypeOK
  <2>3. CASE \/ \E S \in SUBSET Backends : Select(S)
             \/ \E b \in Backends : Bind(b) \/ Unbind(b) \/ Host(b)
             \/ Rename
    <3>1. bound' \subseteq Backends /\ selected' \subseteq bound' /\ inside' \in BOOLEAN
          /\ hosted' \subseteq Backends /\ UNCHANGED <<creds, holds, last, home, call>>
      BY <2>3 DEF Select, Bind, Unbind, Host, Rename, TypeOK
    <3> QED BY <1>a, <3>1 DEF TypeOK
  <2> QED BY <1>4, <2>1, <2>2, <2>3 DEF Configuration
<1>5. ASSUME NEW b \in Backends, NEW f \in Families, NEW a \in Address, ForeignEdit(b, f, a)
      PROVE  TypeOK'
  <2>1. holds' \in [Backends -> [Families -> Address]] /\ call' = Excusing(b)
        /\ UNCHANGED <<bound, selected, creds, inside, hosted, last, home>>
    BY <1>5, <1>t DEF ForeignEdit, configuration
  <2> QED BY <1>c, <2>1 DEF TypeOK
<1>6. ASSUME NEW f \in Families, NEW ip \in Ips, DeviceMoves(f, ip)
      PROVE  TypeOK'
  <2>1. home' \in [Families -> Ips]
        /\ UNCHANGED <<bound, selected, creds, inside, hosted, holds, last, call>>
    BY <1>6, <1>t DEF DeviceMoves, configuration
  <2> QED BY <1>a, <2>1 DEF TypeOK
<1>7. CASE UNCHANGED vars
  BY <1>7, <1>a DEF vars, configuration, TypeOK
<1>8. ASSUME NEW f \in Families, StartUpdate(f)
      PROVE  TypeOK'
  BY <1>8, <1>1, <1>t DEF StartUpdate, Address
<1>9. ASSUME NEW fams \in SUBSET Families \ {{}}, StartDelete(fams)
      PROVE  TypeOK'
  BY <1>9, <1>1 DEF StartDelete, Address
<1> QED BY <1>2, <1>3, <1>4, <1>5, <1>6, <1>7, <1>8, <1>9 DEF Next, Phase

(* For any number of backends and record types: every variable has its     *)
(* type, and a request asks its backends in the order of their ids, each   *)
(* at most once, whatever the tenant configures meanwhile.                 *)
THEOREM DnsTypeCorrect == Spec => []TypeOK
<1> QED BY InitTypeOK, TypeStep, PTL DEF Spec

-----------------------------------------------------------------------------
(* What one answer says of several.  A word that is not settled is that of *)
(* the first backend that did not settle, behind nothing but nochg; one    *)
(* that is settled has a backend behind it that settled.                   *)
LEMMA AggregateTells ==
  ASSUME NEW s \in Seq(Statuses), s # <<>>
  PROVE  /\ Answer(s) \notin Settled =>
              \E i \in DOMAIN s : s[i] = Answer(s) /\ \A j \in 1..(i - 1) : s[j] = "nochg"
         /\ Answer(s) \in Settled => \E i \in DOMAIN s : s[i] \in Settled
         /\ Answer(s) = "nochg" => \A i \in DOMAIN s : s[i] = "nochg"
<1>1. Len(s) \in Nat /\ Len(s) # 0 /\ DOMAIN s = 1..Len(s)
  OBVIOUS
<1>2. 1 \in DOMAIN s
  BY <1>1
<1>3. Answer(s) = Aggregate(s)
  BY DEF Answer
<1>4. CASE \E i \in DOMAIN s : s[i] = "good"
  BY <1>3, <1>4 DEF Aggregate, Settled
<1>5. CASE ~(\E i \in DOMAIN s : s[i] = "good") /\ (\A i \in DOMAIN s : s[i] = "nochg")
  BY <1>2, <1>3, <1>5 DEF Aggregate, Settled
<1>6. CASE ~(\E i \in DOMAIN s : s[i] = "good") /\ ~(\A i \in DOMAIN s : s[i] = "nochg")
  <2> DEFINE First(i) == s[i] \notin Settled /\ \A j \in 1..(i - 1) : s[j] \in Settled
  <2>1. \E i \in DOMAIN s : s[i] \notin Settled
    BY <1>6 DEF Settled
  <2>2. \E i \in DOMAIN s : First(i)
    <3> DEFINE T == {i \in DOMAIN s : s[i] \notin Settled}
    <3>1. T \in SUBSET Nat /\ T # {}
      BY <1>1, <2>1
    <3> HIDE DEF T
    <3>2. PICK i \in T : \A j \in T : i <= j
      BY <3>1, LeastOne
    <3>3. i \in DOMAIN s /\ i \in Nat /\ s[i] \notin Settled
      BY <3>1 DEF T
    <3>4. ASSUME NEW j \in 1..(i - 1) PROVE s[j] \in Settled
      <4>1. j \in DOMAIN s /\ ~(i <= j)
        BY <1>1, <3>3
      <4> QED BY <4>1, <3>2 DEF T
    <3> QED BY <3>3, <3>4
  <2>3. Aggregate(s) = s[CHOOSE i \in DOMAIN s : First(i)]
    BY <1>6 DEF Aggregate
  <2> DEFINE k == CHOOSE i \in DOMAIN s : First(i)
  <2>4. k \in DOMAIN s /\ First(k)
    BY <2>2
  <2>5. Answer(s) = s[k]
    BY <1>3, <2>3
  <2> HIDE DEF k
  <2>6. \A j \in 1..(k - 1) : j \in DOMAIN s
    BY <1>1, <2>4
  <2>7. \A j \in 1..(k - 1) : s[j] = "nochg"
    BY <1>6, <2>4, <2>6 DEF Settled
  <2>8. Answer(s) \notin Settled /\ Answer(s) # "nochg"
    BY <2>4, <2>5 DEF Settled
  <2> QED BY <2>4, <2>5, <2>7, <2>8
<1> QED BY <1>4, <1>5, <1>6

(* For any answers of any number of backends: a router told of a failure   *)
(* is told of the earliest one, with nothing but nochg before it.          *)
THEOREM FirstFailureIsNamed == Spec => WordNamesTheFirstFailure
<1>1. ASSUME TypeOK, Finish, call.plan # <<>>, Answer(call.answers) \notin Settled
      PROVE  \E i \in DOMAIN call.answers :
               /\ call.answers[i] = Answer(call.answers)
               /\ \A j \in 1..(i - 1) : call.answers[j] = "nochg"
  <2>1. call.answers \in Seq(Statuses) /\ call.plan \in Seq(Backends)
    BY <1>1 DEF TypeOK, Calls
  <2>2. Len(call.plan) \in Nat /\ Len(call.plan) # 0 /\ Len(call.answers) \in Nat
    BY <1>1, <2>1
  <2>3. ~(Len(call.answers) < Len(call.plan))
    BY <1>1 DEF Finish, Asking
  <2>4. call.answers # <<>>
    <3>1. SUFFICES ASSUME call.answers = <<>> PROVE FALSE
      OBVIOUS
    <3>2. Len(<<>>) = 0
      OBVIOUS
    <3> QED BY <2>2, <2>3, <3>1, <3>2
  <2> QED BY <1>1, <2>1, <2>4, AggregateTells
<1> QED BY <1>1, DnsTypeCorrect, PTL DEF WordNamesTheFirstFailure

-----------------------------------------------------------------------------
(* What the answers of a call stand for.  A delete is an update to NULL: a *)
(* backend is done when it holds what the call asks for in every record    *)
(* type, or has been interfered with.  One that answered good is done; for *)
(* one that answered nochg to an update a server that was asked is.  While *)
(* its turn lasts, what hetzner has gone through and what route53 has not  *)
(* found listed is not there.                                              *)
Done(b) == \A f \in call.fams : Serves(b, f, call.ip)

Stands(status, b) ==
  /\ status = "good" => Done(b)
  /\ status = "nochg" => \E d \in IF call.op = "delete" THEN {b} ELSE Asked(b) : Done(d)

HeldInv ==
  /\ call.op = "none" => call = Idle
  /\ call.op = "update" => \E f \in Families : call.fams = {f}
  /\ call.op = "delete" => call.ip = NULL
  /\ \A i \in DOMAIN call.answers : Stands(call.answers[i], call.plan[i])
  /\ Asking /\ call.op = "delete" =>
       /\ \A f \in call.fams \cap call.turn.gone : Serves(Current, f, NULL)
       /\ Kind[Current] = "route53" /\ call.turn.begun =>
            \A f \in call.fams : call.turn.listed[f] = NULL => Serves(Current, f, NULL)

(* A turn's step writes what the call asks for, or nothing.                *)
LEMMA TurnWrites ==
  ASSUME TypeOK, Phase, ~Finish
  PROVE  \/ holds' = holds
         \/ \E g \in Families : holds' = [holds EXCEPT ![Current][g] = call.ip]
         \/ call.op = "delete" /\ \E fams : holds' = Without(fams)
<1>1. CASE Unprovisioned
  BY <1>1 DEF Unprovisioned
<1>2. ASSUME NEW f \in Families, Unchanged(f) \/ Upsert(f)
      PROVE  \/ holds' = holds
             \/ \E g \in Families : holds' = [holds EXCEPT ![Current][g] = call.ip]
  BY <1>2 DEF Unchanged, Upsert, Refused
<1>3. CASE DeleteMessage
  BY <1>3 DEF DeleteMessage, Provisioned, Refused
<1>4. CASE ListRecords
  BY <1>4 DEF ListRecords, Refused
<1>5. CASE DeleteListed
  BY <1>5 DEF DeleteListed, Provisioned
<1>6. CASE DeleteNextType
  BY <1>6 DEF DeleteNextType, Provisioned
<1> QED BY <1>1, <1>2, <1>3, <1>4, <1>5, <1>6 DEF Phase

(* What a backend serves of what the call asks for, no turn takes back.    *)
LEMMA TurnKeeps ==
  ASSUME TypeOK, HeldInv, Phase, ~Finish,
         NEW b \in Backends, NEW f \in call.fams, Serves(b, f, call.ip)
  PROVE  holds'[b][f] = call.ip \/ b \in call'.excused
<1>1. Turn /\ holds \in [Backends -> [Families -> Address]] /\ f \in Families
  BY TurnShape DEF TypeOK, Calls
<1>2. call.excused \subseteq call'.excused
  <2>1. PICK U \in SUBSET Backends :
          \/ \E w \in Statuses : call' = Answering(w, U)
          \/ \E t \in Turns : call' = GoingOn(t, U)
    BY <1>1 DEF Turn
  <2>2. call'.excused = call.excused \cup U
    BY <1>1, <2>1, AnsweringShape, GoingOnShape DEF Turn
  <2> QED BY <2>2
<1>3. CASE b \in call.excused
  BY <1>2, <1>3
<1>4. CASE holds[b][f] = call.ip
  <2>1. CASE holds' = holds
    BY <1>4, <2>1
  <2>2. ASSUME NEW g \in Families, holds' = [holds EXCEPT ![Current][g] = call.ip]
        PROVE  holds'[b][f] = call.ip
    BY <1>1, <1>4, <2>2
  <2>3. ASSUME call.op = "delete", NEW fams, holds' = Without(fams)
        PROVE  holds'[b][f] = call.ip
    BY <1>1, <1>4, <2>3 DEF Without, HeldInv
  <2> QED BY <2>1, <2>2, <2>3, TurnWrites
<1> QED BY <1>3, <1>4 DEF Serves

(* A call's step has one answer in it, and one that goes on has none.      *)
LEMMA OneAnswer ==
  ASSUME TypeOK, Asking, NEW w \in Statuses, NEW U \in SUBSET Backends, call' = Answering(w, U)
  PROVE  /\ \A v \in Statuses, V \in SUBSET Backends : call' = Answering(v, V) => v = w
         /\ \A v \in Statuses : call' = Answered(v) => v = w
         /\ \A t \in Turns, V \in SUBSET Backends : call' # GoingOn(t, V)
<1>1. /\ call'.answers[Len(call.answers) + 1] = w /\ Len(call.answers) \in Nat
      /\ Len(call'.answers) = Len(call.answers) + 1
  BY AnsweringShape
<1>2. ASSUME NEW v \in Statuses, NEW V \in SUBSET Backends, call' = Answering(v, V)
      PROVE  v = w
  <2>1. call'.answers[Len(call.answers) + 1] = v
    BY <1>2, AnsweringShape
  <2> QED BY <1>1, <2>1
<1>3. ASSUME NEW v \in Statuses, call' = Answered(v)
      PROVE  v = w
  <2>1. call' = Answering(v, {}) /\ {} \in SUBSET Backends
    BY <1>3, AnsweredIsAnswering
  <2> QED BY <1>2, <2>1
<1>4. ASSUME NEW t \in Turns, NEW V \in SUBSET Backends, call' = GoingOn(t, V)
      PROVE  FALSE
  <2>1. call'.answers = call.answers
    BY <1>4, GoingOnShape
  <2> QED BY <1>1, <2>1
<1> QED BY <1>2, <1>3, <1>4

(* An answer stands for what its backend, or a server asked for it, holds. *)
LEMMA AnswerStands ==
  ASSUME TypeOK, HeldInv, Phase, ~Finish, NEW w \in Statuses, NEW U \in SUBSET Backends,
         call' = Answering(w, U), NEW b \in Backends, b = Current
  PROVE  Stands(w, b)'
<1>0. /\ Asking /\ holds \in [Backends -> [Families -> Address]] /\ call.fams \subseteq Families
      /\ call'.op = call.op /\ call'.fams = call.fams /\ call'.ip = call.ip
      /\ call'.excused = call.excused \cup U /\ call.turn \in Turns
  BY TurnShape, AnsweringShape DEF Turn, TypeOK, Calls
<1>1. /\ \A v \in Statuses, V \in SUBSET Backends : call' = Answering(v, V) => v = w
      /\ \A v \in Statuses : call' = Answered(v) => v = w
      /\ \A t \in Turns, V \in SUBSET Backends : call' # GoingOn(t, V)
  BY <1>0, OneAnswer
<1>2. ASSUME NEW d \in Backends
      PROVE  Done(d)' <=> \A f \in call.fams : holds'[d][f] = call.ip \/ d \in call'.excused
  BY <1>0 DEF Done, Serves
<1>3. /\ \A f \in call.fams : Serves(b, f, call.ip) => holds'[b][f] = call.ip \/ b \in call'.excused
      /\ \A fams : Without(fams)[b]
                     = [f \in Families |-> IF f \in fams THEN NULL ELSE holds[b][f]]
  BY <1>0, TurnKeeps DEF Without
<1>d. ASSUME Done(b)', w # "nochg" \/ call.op = "delete" PROVE Stands(w, b)'
  BY <1>0, <1>d DEF Stands
<1>n. ASSUME w \notin Settled PROVE Stands(w, b)'
  BY <1>n DEF Stands, Settled
<1>4. CASE Unprovisioned
  <2>1. w \in {"911", "nohost", "dnserr"}
    BY <1>1, <1>4 DEF Unprovisioned, Statuses
  <2> QED BY <1>n, <2>1 DEF Settled
<1>5. ASSUME NEW f \in Families, Unchanged(f)
      PROVE  Stands(w, b)'
  <2>1. w = "nochg" /\ holds' = holds /\ call.op = "update" /\ f \in call.fams
    BY <1>1, <1>5 DEF Unchanged, Provisioned, Statuses
  <2>2. call.fams = {f}
    BY <2>1 DEF HeldInv
  <2>3. PICK d \in Asked(b) : holds[d][f] = call.ip
    BY <1>5 DEF Unchanged
  <2>4. d \in Backends
    BY DnsPhaseAssumption DEF Asked
  <2>5. Done(d)'
    BY <1>2, <2>1, <2>2, <2>3, <2>4
  <2> QED BY <1>0, <2>1, <2>5 DEF Stands, Asked
<1>6. ASSUME NEW f \in Families, Upsert(f)
      PROVE  Stands(w, b)'
  <2>1. call.op = "update" /\ f \in call.fams
    BY <1>6 DEF Upsert, Provisioned
  <2>2. call.fams = {f}
    BY <2>1 DEF HeldInv
  <2>3. CASE w = "dnserr"
    BY <1>n, <2>3 DEF Settled
  <2>4. CASE w # "dnserr"
    <3>1. holds' = [holds EXCEPT ![b][f] = call.ip] /\ w = "good"
      BY <1>1, <1>6, <2>4 DEF Upsert, Applied, Refused, Statuses
    <3> QED BY <1>0, <1>2, <1>d, <2>2, <3>1
  <2> QED BY <2>3, <2>4
<1>7. ASSUME call.op = "delete", NEW fams, holds' = Without(fams),
             \A f \in call.fams \ fams : Serves(b, f, NULL)
      PROVE  Done(b)'
  <2>1. call.ip = NULL
    BY <1>7 DEF HeldInv
  <2>2. ASSUME NEW f \in call.fams PROVE holds'[b][f] = NULL \/ b \in call'.excused
    BY <1>0, <1>3, <1>7, <2>1, <2>2
  <2> QED BY <1>2, <2>1, <2>2
<1>8. CASE DeleteMessage
  <2>1. call.op = "delete"
    BY <1>8 DEF DeleteMessage, Provisioned
  <2>2. CASE w = "dnserr"
    BY <1>n, <2>2 DEF Settled
  <2>3. CASE w # "dnserr"
    <3>1. holds' = Without(call.fams)
      BY <1>1, <1>8, <2>3 DEF DeleteMessage, Refused, Statuses
    <3> QED BY <1>7, <1>d, <2>1, <3>1
  <2> QED BY <2>2, <2>3
<1>9. CASE ListRecords
  <2>1. PICK V \in SUBSET Backends :
           \/ call' = Answering("dnserr", V)
           \/ /\ call' = Answering("nochg", V) /\ holds' = holds
              /\ \A f \in call.fams : holds[Current][f] = NULL \/ Current \in V
           \/ \E t \in Turns : call' = GoingOn(t, V)
    BY <1>9, ListShape
  <2>2. CASE call' = Answering("dnserr", V)
    BY <1>1, <1>n, <2>2 DEF Settled, Statuses
  <2>3. CASE /\ call' = Answering("nochg", V) /\ holds' = holds
             /\ \A f \in call.fams : holds[Current][f] = NULL \/ Current \in V
    <3>1. call'.excused = call.excused \cup V /\ "nochg" \in Statuses
      BY <1>0, <2>3, AnsweringShape DEF Statuses
    <3>2. call.ip = NULL
      BY <1>9 DEF ListRecords, Provisioned, HeldInv
    <3>3. call.op = "delete"
      BY <1>9 DEF ListRecords, Provisioned
    <3> QED BY <1>2, <1>d, <2>3, <3>1, <3>2, <3>3
  <2> QED BY <1>1, <2>1, <2>2, <2>3
<1>10. CASE DeleteListed
  <2>1. call.op = "delete" /\ Kind[Current] = "route53" /\ call.turn.begun
    BY <1>10 DEF DeleteListed, Provisioned
  <2>2. CASE w = "dnserr"
    BY <1>n, <2>2 DEF Settled
  <2>3. CASE w # "dnserr"
    <3>1. holds' = Without(Listed)
      BY <1>1, <1>10, <2>3 DEF DeleteListed, Statuses
    <3>2. \A f \in call.fams \ Listed : Serves(b, f, NULL)
      BY <1>0, <2>1 DEF HeldInv, Listed
    <3> QED BY <1>7, <1>d, <2>1, <3>1, <3>2
  <2> QED BY <2>2, <2>3
<1>11. CASE DeleteNextType
  <2>1. call.op = "delete" /\ call.ip = NULL
    BY <1>11 DEF DeleteNextType, Provisioned, HeldInv
  <2>2. PICK V \in SUBSET Backends :
           \/ call' = Answering("dnserr", V)
           \/ /\ \/ /\ call.fams \subseteq call.turn.gone \cup {NextType}
                    /\ \E v \in {"good", "nochg"} : call' = Answering(v, V)
                 \/ \E t \in Turns : call' = GoingOn(t, V)
              /\ \/ holds' = Without({NextType})
                 \/ holds' = holds /\ (NextType \in Present => Current \in V)
    BY <1>11, NextTypeShape
  <2>3. CASE call' = Answering("dnserr", V)
    BY <1>1, <1>n, <2>3 DEF Settled, Statuses
  <2>4. ASSUME call.fams \subseteq call.turn.gone \cup {NextType},
               NEW v \in {"good", "nochg"}, call' = Answering(v, V),
               \/ holds' = Without({NextType})
               \/ holds' = holds /\ (NextType \in Present => Current \in V)
        PROVE  Stands(w, b)'
    <3>1. \A f \in call.fams \ {NextType} : Serves(b, f, NULL)
      BY <1>0, <2>1, <2>4 DEF HeldInv
    <3>2. CASE holds' = Without({NextType})
      BY <1>7, <1>d, <2>1, <3>1, <3>2
    <3>3. CASE holds' = holds /\ (NextType \in Present => Current \in V)
      <4>1. call'.excused = call.excused \cup V
        BY <1>0, <2>4, AnsweringShape DEF Statuses
      <4>2. \A f \in call.fams : holds'[b][f] = NULL \/ b \in call'.excused
        BY <3>1, <3>3, <4>1 DEF Serves, Present
      <4> QED BY <1>2, <1>d, <2>1, <4>2
    <3> QED BY <2>4, <3>2, <3>3
  <2> QED BY <1>1, <2>2, <2>3, <2>4
<1> QED BY <1>4, <1>5, <1>6, <1>8, <1>9, <1>10, <1>11 DEF Phase

(* An adapter that goes on has not lost sight of what it went through.     *)
LEMMA GoingOnKnows ==
  ASSUME TypeOK, HeldInv, Phase, ~Finish, NEW t \in Turns, NEW U \in SUBSET Backends,
         call' = GoingOn(t, U), NEW b \in Backends, b = Current
  PROVE  /\ call.op = "delete"
         /\ \A f \in call.fams \cap t.gone : holds'[b][f] = NULL \/ b \in call'.excused
         /\ Kind[b] = "route53" /\ t.begun =>
              \A f \in call.fams : t.listed[f] = NULL => holds'[b][f] = NULL \/ b \in call'.excused
<1>0. /\ Asking /\ holds \in [Backends -> [Families -> Address]] /\ call.fams \subseteq Families
      /\ call'.excused = call.excused \cup U /\ call'.turn = t
  BY TurnShape, GoingOnShape DEF Turn, TypeOK, Calls
<1>1. ASSUME NEW v \in Statuses, NEW V \in SUBSET Backends, call' = Answering(v, V)
      PROVE  FALSE
  BY <1>0, <1>1, OneAnswer
<1>2. ASSUME NEW v \in Statuses, call' = Answered(v)
      PROVE  FALSE
  <2>1. call' = Answering(v, {}) /\ {} \in SUBSET Backends
    BY <1>2, AnsweredIsAnswering
  <2> QED BY <1>1, <2>1
<1>3. CASE Unprovisioned \/ DeleteMessage \/ DeleteListed
           \/ \E f \in Families : Unchanged(f) \/ Upsert(f)
  BY <1>2, <1>3 DEF Unprovisioned, DeleteMessage, DeleteListed, Unchanged, Upsert, Applied, Refused,
       Statuses
<1>4. ASSUME call.op = "delete", NEW V \in SUBSET Backends, NEW s \in Turns, call' = GoingOn(s, V)
      PROVE  /\ call.ip = NULL /\ s = t /\ call'.excused = call.excused \cup V
             /\ \A f \in call.fams : Serves(b, f, NULL) => holds'[b][f] = NULL \/ b \in call'.excused
             /\ \A f \in call.fams \cap call.turn.gone : Serves(b, f, NULL)
  <2>1. call.ip = NULL
    BY <1>4 DEF HeldInv
  <2>2. s = t /\ call'.excused = call.excused \cup V
    BY <1>0, <1>4, GoingOnShape
  <2>3. \A f \in call.fams : Serves(b, f, NULL) => holds'[b][f] = NULL \/ b \in call'.excused
    BY <2>1, TurnKeeps
  <2>4. \A f \in call.fams \cap call.turn.gone : Serves(b, f, NULL)
    BY <1>0, <1>4 DEF HeldInv
  <2> QED BY <2>1, <2>2, <2>3, <2>4
<1>5. CASE ListRecords
  <2>1. call.op = "delete"
    BY <1>5 DEF ListRecords, Provisioned
  <2>2. PICK V \in SUBSET Backends :
          /\ \E s \in Turns :
               /\ call' = GoingOn(s, V) /\ s.gone = call.turn.gone
               /\ \A f \in call.fams :
                    s.listed[f] = NULL => holds[Current][f] = NULL \/ Current \in V
          /\ holds' = holds
    BY <1>1, <1>5, ListShape DEF Statuses
  <2>3. PICK s \in Turns :
          /\ call' = GoingOn(s, V) /\ s.gone = call.turn.gone
          /\ \A f \in call.fams : s.listed[f] = NULL => holds[Current][f] = NULL \/ Current \in V
    BY <2>2
  <2>4. /\ s = t /\ call'.excused = call.excused \cup V
        /\ \A f \in call.fams : Serves(b, f, NULL) => holds'[b][f] = NULL \/ b \in call'.excused
        /\ \A f \in call.fams \cap call.turn.gone : Serves(b, f, NULL)
    BY <1>4, <2>1, <2>3
  <2>5. t.gone = call.turn.gone
        /\ \A f \in call.fams : t.listed[f] = NULL => holds'[b][f] = NULL \/ b \in call'.excused
    BY <2>2, <2>3, <2>4
  <2>6. \A f \in call.fams \cap t.gone : holds'[b][f] = NULL \/ b \in call'.excused
    <3> SUFFICES ASSUME NEW f \in call.fams, f \in t.gone
                 PROVE  holds'[b][f] = NULL \/ b \in call'.excused
      OBVIOUS
    <3>1. Serves(b, f, NULL)
      BY <2>4, <2>5
    <3> QED BY <2>4, <3>1
  <2> QED BY <2>1, <2>5, <2>6
<1>6. CASE DeleteNextType
  <2>1. call.op = "delete" /\ Kind[b] = "hetzner"
    BY <1>6 DEF DeleteNextType, Provisioned
  <2>2. PICK V \in SUBSET Backends :
          /\ \E s \in Turns : call' = GoingOn(s, V) /\ s.gone = call.turn.gone \cup {NextType}
          /\ \/ holds' = Without({NextType})
             \/ holds' = holds /\ (NextType \in Present => Current \in V)
    BY <1>1, <1>6, NextTypeShape DEF Statuses
  <2>3. PICK s \in Turns : call' = GoingOn(s, V) /\ s.gone = call.turn.gone \cup {NextType}
    BY <2>2
  <2>4. /\ s = t /\ call'.excused = call.excused \cup V
        /\ \A f \in call.fams : Serves(b, f, NULL) => holds'[b][f] = NULL \/ b \in call'.excused
        /\ \A f \in call.fams \cap call.turn.gone : Serves(b, f, NULL)
    BY <1>4, <2>1, <2>3
  <2>5. NextType \in call.fams => holds'[b][NextType] = NULL \/ b \in call'.excused
    BY <1>0, <2>2, <2>4 DEF Without, Present
  <2>6. t.gone = call.turn.gone \cup {NextType}
    BY <2>3, <2>4
  <2>7. \A f \in call.fams \cap t.gone : holds'[b][f] = NULL \/ b \in call'.excused
    <3> SUFFICES ASSUME NEW f \in call.fams, f \in t.gone
                 PROVE  holds'[b][f] = NULL \/ b \in call'.excused
      OBVIOUS
    <3>1. CASE f = NextType
      BY <2>5, <3>1
    <3>2. CASE f \in call.turn.gone
      <4>1. Serves(b, f, NULL)
        BY <2>4, <3>2
      <4> QED BY <2>4, <4>1
    <3> QED BY <2>6, <3>1, <3>2
  <2> QED BY <2>1, <2>7
<1> QED BY <1>3, <1>5, <1>6 DEF Phase

(* Where no server stops serving, an answer goes on standing.              *)
LEMMA StandsStill ==
  ASSUME \A d \in Backends : Done(d) => Done(d)', call'.op = call.op,
         NEW status, NEW b \in Backends, Stands(status, b)
  PROVE  Stands(status, b)'
<1>1. Asked(b) \cup {b} \subseteq Backends
  BY DnsPhaseAssumption DEF Asked
<1>2. (status = "good" => Done(b)')
      /\ (status = "nochg" => \E d \in IF call.op = "delete" THEN {b} ELSE Asked(b) : Done(d)')
  BY <1>1 DEF Stands
<1> QED BY <1>2 DEF Stands, Asked

LEMMA HeldStep == TypeOK /\ HeldInv /\ [Next]_vars => HeldInv'
<1> SUFFICES ASSUME TypeOK, HeldInv, [Next]_vars PROVE HeldInv'
  OBVIOUS
<1>0. /\ call \in Calls /\ call.plan \in Seq(Backends) /\ call.answers \in Seq(Statuses)
      /\ Len(call.answers) <= Len(call.plan) /\ holds \in [Backends -> [Families -> Address]]
  BY DEF TypeOK, Calls
<1>p. \A i \in DOMAIN call.answers : call.plan[i] \in Backends
  BY <1>0
<1>f. Fresh.gone = {} /\ ~Fresh.begun
  BY DEF Fresh
<1>1. CASE Phase /\ ~Finish
  <2>1. Turn
    BY <1>1, TurnShape
  <2>2. PICK U \in SUBSET Backends :
          \/ \E w \in Statuses : call' = Answering(w, U)
          \/ \E t \in Turns : call' = GoingOn(t, U)
    BY <2>1 DEF Turn
  <2>3. Asking /\ Current \in Backends /\ call.op # "none"
    BY <2>1, CurrentIsOfThePlan DEF Turn, Asking
  <2>4. call'.op = call.op /\ call'.fams = call.fams /\ call'.ip = call.ip /\ call'.plan = call.plan
    BY <2>2, <2>3, AnsweringShape, GoingOnShape
  <2>5. \A d \in Backends : Done(d) => Done(d)'
    <3> SUFFICES ASSUME NEW d \in Backends, Done(d), NEW f \in call.fams
                 PROVE  holds'[d][f] = call.ip \/ d \in call'.excused
      BY <2>4 DEF Done, Serves
    <3>1. Serves(d, f, call.ip)
      BY DEF Done
    <3> QED BY <1>1, <3>1, TurnKeeps
  <2>6. \A i \in DOMAIN call.answers : \A status, b :
          status = call.answers[i] /\ b = call.plan[i] => Stands(status, b)'
    <3> SUFFICES ASSUME NEW i \in DOMAIN call.answers, NEW status, NEW b,
                        status = call.answers[i], b = call.plan[i]
                 PROVE  Stands(status, b)'
      OBVIOUS
    <3>1. Stands(status, b) /\ b \in Backends
      BY <1>p DEF HeldInv
    <3> QED BY <2>4, <2>5, <3>1, StandsStill
  <2>7. ASSUME NEW w \in Statuses, call' = Answering(w, U)
        PROVE  HeldInv'
    <3>1. /\ call'.turn = Fresh /\ Len(call.answers) \in Nat
          /\ call'.answers[Len(call.answers) + 1] = w
          /\ DOMAIN call'.answers = 1..(Len(call.answers) + 1)
          /\ \A i \in 1..Len(call.answers) : call'.answers[i] = call.answers[i]
          /\ DOMAIN call.answers = 1..Len(call.answers)
      BY <2>3, <2>7, AnsweringShape
    <3>2. ASSUME NEW b \in Backends, b = Current PROVE Stands(w, b)'
      BY <1>1, <2>7, <3>2, AnswerStands
    <3>3. ASSUME NEW i \in DOMAIN call'.answers, NEW status, NEW b,
                 status = call'.answers[i], b = call.plan[i]
          PROVE  Stands(status, b)'
      <4>1. CASE i = Len(call.answers) + 1
        BY <2>3, <3>1, <3>2, <3>3, <4>1 DEF Current
      <4>2. CASE i \in 1..Len(call.answers)
        BY <2>6, <3>1, <3>3, <4>2
      <4> QED BY <3>1, <4>1, <4>2
    <3>4. \A i \in DOMAIN call'.answers : Stands(call.answers[i], call.plan[i])'
      <4> SUFFICES ASSUME NEW i \in DOMAIN call'.answers
                   PROVE  Stands(call.answers[i], call.plan[i])'
        OBVIOUS
      <4>1. \A status, b : status = call'.answers[i] /\ b = call'.plan[i] => Stands(status, b)'
        BY <2>4, <3>3
      <4> QED BY <4>1 DEF Stands, Done, Serves
    <3> QED BY <1>f, <2>3, <2>4, <3>1, <3>4 DEF HeldInv
  <2>8. ASSUME NEW t \in Turns, call' = GoingOn(t, U)
        PROVE  HeldInv'
    <3>1. call'.answers = call.answers /\ call'.turn = t
      BY <2>8, GoingOnShape
    <3>2. \A i \in DOMAIN call'.answers : Stands(call.answers[i], call.plan[i])'
      <4> SUFFICES ASSUME NEW i \in DOMAIN call.answers
                   PROVE  Stands(call.answers[i], call.plan[i])'
        BY <3>1
      <4>1. \A status, b : status = call'.answers[i] /\ b = call'.plan[i] => Stands(status, b)'
        BY <2>4, <2>6, <3>1
      <4> QED BY <4>1 DEF Stands, Done, Serves
    <3>3. ASSUME NEW b \in Backends, b = Current
          PROVE  /\ \A f \in call.fams \cap t.gone : holds'[b][f] = NULL \/ b \in call'.excused
                 /\ Kind[b] = "route53" /\ t.begun =>
                      \A f \in call.fams :
                        t.listed[f] = NULL => holds'[b][f] = NULL \/ b \in call'.excused
      BY <1>1, <2>8, <3>3, GoingOnKnows
    <3>4. Current' = Current
      BY <2>4, <3>1 DEF Current
    <3> QED BY <2>3, <2>4, <3>1, <3>2, <3>3, <3>4 DEF HeldInv, Serves
  <2> QED BY <2>2, <2>7, <2>8
<1>2. CASE Finish
  <2>1. call' = Idle /\ Idle.op = "none" /\ Idle.answers = <<>> /\ DOMAIN <<>> = {}
    BY <1>2 DEF Finish, Idle
  <2> QED BY <2>1 DEF HeldInv, Asking
<1>3. ASSUME NEW op \in {"update", "delete"}, NEW fams, NEW ip, Start(op, fams, ip),
             op = "update" => \E f \in Families : fams = {f}, op = "delete" => ip = NULL
      PROVE  HeldInv'
  <2>1. /\ call'.op = op /\ call'.fams = fams /\ call'.ip = ip /\ call'.answers = <<>>
        /\ call'.turn = Fresh
    BY <1>3 DEF Start, Idle
  <2>2. DOMAIN call'.answers = {}
    BY <2>1
  <2> QED BY <1>3, <1>f, <2>1, <2>2 DEF HeldInv
<1>4. CASE UNCHANGED <<call, holds>>
  <2>1. Asking' = Asking /\ Current' = Current
    BY <1>4 DEF Asking, Current
  <2>2. \A i \in DOMAIN call.answers : Stands(call.answers[i], call.plan[i])'
    BY <1>4 DEF HeldInv, Stands, Done, Serves
  <2> QED BY <1>4, <2>1, <2>2 DEF HeldInv, Serves
<1>5. ASSUME NEW b \in Backends, call' = Excusing(b),
             \A d \in Backends \ {b} : holds'[d] = holds[d]
      PROVE  HeldInv'
  <2>1. CASE call.op = "none"
    <3>1. call' = call /\ call = Idle /\ Idle.answers = <<>> /\ DOMAIN <<>> = {} /\ Idle.op = "none"
      BY <1>5, <2>1 DEF Excusing, HeldInv, Idle
    <3> QED BY <3>1 DEF HeldInv, Asking
  <2>2. CASE call.op # "none"
    <3>1. call' = [call EXCEPT !.excused = @ \cup {b}]
      BY <1>5, <2>2 DEF Excusing
    <3>2. /\ call'.op = call.op /\ call'.fams = call.fams /\ call'.ip = call.ip
          /\ call'.plan = call.plan /\ call'.answers = call.answers /\ call'.turn = call.turn
          /\ call'.excused = call.excused \cup {b}
      BY <1>0, <3>1 DEF Calls
    <3>3. \A d \in Backends : \A f, a : Serves(d, f, a) => holds'[d][f] = a \/ d \in call'.excused
      BY <1>5, <3>2 DEF Serves
    <3>4. \A d \in Backends : Done(d) => Done(d)'
      BY <3>2, <3>3 DEF Done, Serves
    <3>5. ASSUME NEW i \in DOMAIN call.answers
          PROVE  Stands(call.answers[i], call.plan[i])'
      <4>1. \A status, d : status = call'.answers[i] /\ d = call'.plan[i] => Stands(status, d)'
        <5> SUFFICES ASSUME NEW status, NEW d, status = call.answers[i], d = call.plan[i]
                     PROVE  Stands(status, d)'
          BY <3>2
        <5>1. Stands(status, d) /\ d \in Backends
          BY <1>p DEF HeldInv
        <5> QED BY <3>2, <3>4, <5>1, StandsStill
      <4> QED BY <4>1 DEF Stands, Done, Serves
    <3>6. Asking' = Asking /\ Current' = Current
      BY <3>2 DEF Asking, Current
    <3>7. Asking => Current \in Backends
      BY CurrentIsOfThePlan
    <3> QED BY <2>2, <3>2, <3>3, <3>5, <3>6, <3>7 DEF HeldInv, Serves
  <2> QED BY <2>1, <2>2
<1>6. \A f \in Families : StartUpdate(f) => HeldInv'
  BY <1>3 DEF StartUpdate
<1>7. \A fams \in SUBSET Families \ {{}} : StartDelete(fams) => HeldInv'
  BY <1>3 DEF StartDelete
<1>8. \A b \in Backends, f \in Families, a \in Address : ForeignEdit(b, f, a) => HeldInv'
  BY <1>0, <1>5 DEF ForeignEdit
<1>9. \A b \in Backends : Unhost(b) => HeldInv'
  BY <1>0, <1>5 DEF Unhost
<1>10. ASSUME \/ \E S \in SUBSET Backends : Select(S)
              \/ \E b \in Backends : Bind(b) \/ Unbind(b) \/ Host(b)
              \/ \E b \in Backends, c \in Credentials : Provision(b, c)
              \/ Rename
              \/ \E f \in Families, ip \in Ips : DeviceMoves(f, ip)
              \/ UNCHANGED vars
       PROVE  HeldInv'
  BY <1>4, <1>10 DEF Select, Bind, Unbind, Host, Provision, Rename, DeviceMoves, vars
<1> QED BY <1>1, <1>2, <1>6, <1>7, <1>8, <1>9, <1>10 DEF Next, Phase, Configuration

LEMMA AnswersStand == Spec => [](TypeOK /\ HeldInv)
<1>1. Init => HeldInv
  <2>1. Idle.op = "none" /\ Idle.answers = <<>> /\ DOMAIN <<>> = {}
    BY DEF Idle
  <2> QED BY <2>1 DEF Init, HeldInv, Asking
<1> QED BY <1>1, InitTypeOK, TypeStep, HeldStep, PTL DEF Spec

(* For any backends, adapters and record types: one that answers a delete  *)
(* good or nochg is left with none of the record types asked for, whatever *)
(* failed half-way and whoever is asked after it, unless somebody edited   *)
(* its zone or its provider did not show it whole.                         *)
THEOREM DeletesAreComplete == Spec => []DeleteIsComplete
<1>1. TypeOK /\ HeldInv => DeleteIsComplete
  <2> SUFFICES ASSUME HeldInv, call.op = "delete", NEW i \in DOMAIN call.answers,
                      call.answers[i] \in Settled, NEW f \in call.fams
               PROVE  Serves(call.plan[i], f, NULL)
    BY DEF DeleteIsComplete
  <2>1. Stands(call.answers[i], call.plan[i]) /\ call.ip = NULL
    BY DEF HeldInv
  <2>2. Done(call.plan[i])
    BY <2>1 DEF Stands, Settled
  <2> QED BY <2>1, <2>2 DEF Done
<1> QED BY <1>1, AnswersStand, PTL

(* The answers a call finishes with.                                       *)
LEMMA FinishAnswers ==
  ASSUME TypeOK, Finish, call.answers # <<>> \/ call.plan # <<>>
  PROVE  call.answers # <<>> /\ DOMAIN call.answers = DOMAIN call.plan
<1>1. call.answers \in Seq(Statuses) /\ call.plan \in Seq(Backends)
      /\ Len(call.answers) <= Len(call.plan) /\ ~(Len(call.answers) < Len(call.plan))
  BY DEF TypeOK, Calls, Finish, Asking
<1>2. Len(call.answers) = Len(call.plan)
  BY <1>1
<1>3. DOMAIN call.answers = 1..Len(call.answers) /\ DOMAIN call.plan = 1..Len(call.plan)
  BY <1>1
<1>4. call.answers = <<>> => call.plan = <<>>
  BY <1>1, <1>2
<1> QED BY <1>2, <1>3, <1>4

(* For any backends, adapters and record types: a device told nochg has    *)
(* nothing to repeat, though backends are asked one after another and the  *)
(* tenant may reconfigure the zone between them.                           *)
THEOREM NochgIsSo == Spec => NochgIsFinal
<1>1. ASSUME TypeOK, HeldInv, Finish, Answer(call.answers) = "nochg",
             NEW i \in DOMAIN call.plan, NEW f \in call.fams
      PROVE  IF call.op = "update"
             THEN \E b \in Asked(call.plan[i]) : Serves(b, f, call.ip)
             ELSE Serves(call.plan[i], f, NULL)
  <2>1. call.answers \in Seq(Statuses) /\ call.answers # <<>>
    BY <1>1 DEF Answer, TypeOK, Calls
  <2>2. i \in DOMAIN call.answers /\ call.answers[i] = "nochg"
    BY <1>1, <2>1, AggregateTells, FinishAnswers
  <2>3. Stands("nochg", call.plan[i])
    BY <1>1, <2>2 DEF HeldInv
  <2>4. call.op \in {"update", "delete"} /\ (call.op = "delete" => call.ip = NULL)
    BY <1>1 DEF Finish, TypeOK, Calls, HeldInv
  <2> QED BY <2>3, <2>4 DEF Stands, Done
<1>2. ASSUME TypeOK, HeldInv
      PROVE  [Finish /\ Answer(call.answers) = "nochg" =>
                \A i \in DOMAIN call.plan, f \in call.fams :
                  IF call.op = "update"
                  THEN \E b \in Asked(call.plan[i]) : Serves(b, f, call.ip)
                  ELSE Serves(call.plan[i], f, NULL)]_vars
  BY <1>1, <1>2
<1> QED BY <1>2, AnswersStand, PTL DEF NochgIsFinal

(* For any backends, adapters and record types, whatever fails and however *)
(* the tenant reconfigures the zone meanwhile: the address the row comes   *)
(* to record is held by a backend of the plan or a delegated server.       *)
THEOREM WhatIsRecordedIsHeld == Spec => RecordedIsHeld
<1> DEFINE Holders == Delegated \cup {call.plan[i] : i \in DOMAIN call.plan}
<1>1. ASSUME TypeOK, HeldInv, [Next]_vars, NEW f \in Families, last'[f] # last[f]
      PROVE  \E b \in Holders : Serves(b, f, last'[f])
  <2>1. Finish
    <3>1. last' # last
      BY <1>1
    <3>2. ~(Phase /\ ~Finish)
      BY <1>1, <3>1, TurnShape DEF Turn
    <3> QED BY <1>1, <3>1, <3>2 DEF Next, StartUpdate, StartDelete, Start, Configuration, Select,
                   Bind, Unbind, Host, Unhost, Provision, Rename, ForeignEdit, DeviceMoves, vars
  <2>2. /\ call.answers \in Seq(Statuses) /\ last \in [Families -> Address]
    BY <1>1 DEF TypeOK, Calls
  <2>3. /\ call.op = "update" /\ Answer(call.answers) \in Settled /\ f \in call.fams
        /\ last'[f] = call.ip
    BY <1>1, <2>1, <2>2 DEF Finish
  <2>4. call.answers # <<>>
    BY <2>3 DEF Answer, Settled
  <2>5. PICK i \in DOMAIN call.answers : call.answers[i] \in Settled
    BY <2>2, <2>3, <2>4, AggregateTells
  <2>6. i \in DOMAIN call.plan
    BY <1>1, <2>1, <2>4, <2>5, FinishAnswers
  <2>7. Stands(call.answers[i], call.plan[i])
    BY <1>1, <2>5 DEF HeldInv
  <2>8. \E b \in Delegated \cup {call.plan[i]} : Done(b)
    BY <2>3, <2>5, <2>7 DEF Stands, Settled, Asked
  <2>9. \E b \in Holders : Done(b)
    BY <2>6, <2>8
  <2> QED BY <2>3, <2>9 DEF Done
<1>2. ASSUME TypeOK, HeldInv, [Next]_vars
      PROVE  [\A f \in Families :
                last'[f] # last[f] =>
                  \E b \in Delegated \cup {call.plan[i] : i \in DOMAIN call.plan} :
                    Serves(b, f, last'[f])]_vars
  BY <1>1, <1>2
<1> QED BY <1>2, AnswersStand, PTL DEF RecordedIsHeld, Spec
=============================================================================
