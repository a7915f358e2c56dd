--------------------------- MODULE EventLogProofs ---------------------------
(***************************************************************************)
(* What is proved of the event log, its walk and the board, for any number *)
(* of calls, addresses and rows, any retention, page and batch size.       *)
(*                                                                         *)
(* LogInv is about the device row, which keeps a device's calls apart, and *)
(* gives the order of its successes.  WholeLog adds the types, what the    *)
(* last success leaves in the log and what a walk owes; BoardIsCurrent     *)
(* says what of a board's reading is still so.  The walk, the prune and    *)
(* the newest row are about finite ordered sets, which comes first.        *)
(***************************************************************************)
EXTENDS Board, FiniteSetTheorems, TLAPS

(* What is recorded is not from the future, and what is committed has an   *)
(* id that is not given again.                                             *)
Recorded ==
  /\ now \in Int /\ nextId \in Int
  /\ \A r \in log : r.id \in Int /\ r.at \in Int /\ r.id < nextId /\ r.at <= now

RowShape == [at : Int, kind : Kinds]
CallShape ==
  [pc : {"idle", "admitted", "answered"}, by : {NULL, "stranger", "device", "manual", "adopter"},
   from : Address, says : Address \cup {Keep}, rows : Seq(RowShape)]

(* A session's rows are of one instant, and only the device's own calls    *)
(* record a success.                                                       *)
InFlight ==
  /\ call \in [Calls -> CallShape]
  /\ \A c \in Calls :
       /\ call[c].pc = "admitted" => call[c].by \in {"device", "manual"}
       /\ \A i \in DOMAIN call[c].rows :
            /\ call[c].rows[i].at <= now
            /\ \A j \in DOMAIN call[c].rows : call[c].rows[i].at = call[c].rows[j].at
            /\ Successful(call[c].rows[i]) => call[c].by = "device"

(* One call at a time holds the device row, and what it has recorded is no *)
(* older than any success already in the log: the strengthening that makes *)
(* LatestIsLast inductive.                                                 *)
HolderIsLast ==
  \A c \in Calls : call[c].by = "device" =>
    /\ \A d \in Calls : call[d].by = "device" => c = d
    /\ \A i \in DOMAIN call[c].rows, r \in log : Successful(r) => r.at <= call[c].rows[i].at

CutoffIsPast == prune.pc # "idle" => prune.cutoff \in Int /\ prune.cutoff <= now - Retention

LogInv == Recorded /\ InFlight /\ HolderIsLast /\ LatestIsLast /\ CutoffIsPast

(* The types TypeOK leaves out, and the room that bounds the ids: what a   *)
(* session has recorded is counted until it is committed.                  *)
Typed ==
  /\ IsFiniteSet(log) /\ IsFiniteSet(Uncommitted)
  /\ nextId + Cardinality(Uncommitted) <= MaxRows + 1
  /\ walk \in [open : BOOLEAN, cursor : Cursors \cup {NULL}, due : SUBSET Row, shown : SUBSET Row]
  /\ prune \in [pc : {"idle", "batch", "count"}, cutoff : Int, batches : 0..MaxBatches,
                due : SUBSET Row, truncated : BOOLEAN]
  /\ prune.pc = "batch" => prune.batches < MaxBatches
  /\ \A c \in Calls :
       /\ call[c].pc = "answered" => Len(call[c].rows) \in 1..2
       /\ call[c].pc # "answered" => Len(call[c].rows) = 0
       /\ call[c].by = "device" => call[c].from \in Addresses
       /\ \A i \in DOMAIN call[c].rows : call[c].rows[i].at >= 0

(* What the log says of the device's last successful update: it is there   *)
(* as long as any success is, and when it is gone it has expired.          *)
ToldIsLast ==
  /\ told # NULL => /\ Successful(told) /\ told.id < nextId /\ device.seen
                    /\ told \notin log => told.at < now - Retention
  /\ \A r \in log : Successful(r) => told # NULL /\ told \in log /\ r.id <= told.id

(* A walk has shown what is not beyond its cursor, and owes what is.       *)
WalkIsAt ==
  walk.open =>
    /\ walk.cursor \in Cursors
    /\ \A r \in walk.shown : ~BeyondCursor(r, walk.cursor)
    /\ \A r \in walk.due : r.id < nextId
    /\ \A r \in walk.due \cap log : r \in walk.shown \/ BeyondCursor(r, walk.cursor)

WholeLog == LogInv /\ TypeOK /\ Typed /\ ToldIsLast /\ WalkIsAt

Failures == {r \in log : r.kind = "failed" /\ (told # NULL => told.id < r.id)}

(* What a board has read is still so, unless the prune has taken the rows  *)
(* it was read from.                                                       *)
BoardIsCurrent ==
  /\ board.pc \in {"away", "names", "events", "statuses", "window"}
  /\ board.pc = "away" => board = Away
  /\ board.pc \in {"names", "events", "statuses", "window"} => board.device = device
  /\ board.pc \in {"events", "statuses", "window"} => board.last = last
  /\ board.pc \in {"statuses", "window"} =>
       /\ board.habit \in {"unknown", "own", "declared"}
       /\ board.habit # "unknown" => told # NULL /\ told.kind = board.habit
       /\ told # NULL /\ told \in log => board.habit = told.kind
  /\ board.pc = "window" =>
       /\ board.since \in Int /\ board.since <= now - IdleWindow
       /\ Failures # {} => board.newest \in {"failed", "byhand"}

-----------------------------------------------------------------------------
(* Places in an order: a finite set S and a strict total order on it, given *)
(* as a set R of pairs.                                                     *)

Before(x, S, R) == {y \in S : <<y, x>> \in R}
Place(x, S, R) == Cardinality(Before(x, S, R))

TotalOrder(S, R) ==
  /\ \A x \in S : <<x, x>> \notin R
  /\ \A x, y \in S : x # y => <<x, y>> \in R \/ <<y, x>> \in R
  /\ \A x, y, z \in S : <<x, y>> \in R /\ <<y, z>> \in R => <<x, z>> \in R

(* A proper subset of a finite set is smaller.                              *)
LEMMA PartIsSmaller ==
  ASSUME NEW T, IsFiniteSet(T), NEW U \in SUBSET T, U # T
  PROVE  Cardinality(U) < Cardinality(T)
<1>1. Cardinality(U) <= Cardinality(T) /\ Cardinality(T) # Cardinality(U)
  BY FS_Subset
<1>2. Cardinality(U) \in Nat /\ Cardinality(T) \in Nat
  BY FS_Subset, FS_CardinalityType
<1>3. QED
  BY <1>1, <1>2

(* A place is below the size of the set, and later elements have later ones.*)
LEMMA PlacesGrow ==
  ASSUME NEW S, IsFiniteSet(S), NEW R, TotalOrder(S, R)
  PROVE  /\ Cardinality(S) \in Nat
         /\ \A x \in S : Place(x, S, R) \in 0..(Cardinality(S) - 1)
         /\ \A x, y \in S : <<x, y>> \in R => Place(x, S, R) < Place(y, S, R)
<1>1. Cardinality(S) \in Nat
  BY FS_CardinalityType
<1>2. ASSUME NEW x \in S
      PROVE  Place(x, S, R) \in 0..(Cardinality(S) - 1)
  <2>1. Before(x, S, R) \in SUBSET S /\ x \notin Before(x, S, R)
    BY DEF Before, TotalOrder
  <2>2. Cardinality(Before(x, S, R)) < Cardinality(S)
    BY <2>1, PartIsSmaller
  <2>3. Cardinality(Before(x, S, R)) \in Nat
    BY <2>1, FS_Subset, FS_CardinalityType
  <2>4. QED
    BY <1>1, <2>2, <2>3 DEF Place
<1>3. ASSUME NEW x \in S, NEW y \in S, <<x, y>> \in R
      PROVE  Place(x, S, R) < Place(y, S, R)
  <2>1. /\ Before(x, S, R) \in SUBSET Before(y, S, R)
        /\ x \in Before(y, S, R) /\ x \notin Before(x, S, R)
    BY <1>3 DEF Before, TotalOrder
  <2>2. IsFiniteSet(Before(y, S, R))
    BY FS_Subset DEF Before
  <2>3. QED
    BY <2>1, <2>2, PartIsSmaller DEF Place
<1>4. QED
  BY <1>1, <1>2, <1>3

(* No place is left out: they are an injection into as many numbers.      *)
LEMMA EveryPlaceIsTaken ==
  ASSUME NEW S, IsFiniteSet(S), NEW R, TotalOrder(S, R), NEW k \in 0..(Cardinality(S) - 1)
  PROVE  \E x \in S : Place(x, S, R) = k
<1> DEFINE T == 0..(Cardinality(S) - 1)
           f == [x \in S |-> Place(x, S, R)]
<1>1. IsFiniteSet(T) /\ Cardinality(T) = Cardinality(S)
  <2>1. Cardinality(S) \in Nat
    BY FS_CardinalityType
  <2>2. QED
    BY <2>1, FS_Interval
<1>2. f \in [S -> T]
  BY PlacesGrow
<1>3. ASSUME NEW x \in S, NEW y \in S, f[x] = f[y]
      PROVE  x = y
  <2>1. Place(x, S, R) = Place(y, S, R) /\ Place(x, S, R) \in Nat
    BY <1>3, PlacesGrow
  <2>2. <<x, y>> \notin R /\ <<y, x>> \notin R
    BY <2>1, PlacesGrow
  <2>3. QED
    BY <2>2 DEF TotalOrder
<1> HIDE DEF f, T
<1>4. f \in Injection(S, T)
  BY <1>2, <1>3 DEF Injection, IsInjective
<1>5. f \in Surjection(S, T)
  BY <1>1, <1>4, FS_Injection
<1>6. PICK x \in S : f[x] = k
  BY <1>5 DEF Surjection, T
<1>7. QED
  BY <1>6 DEF f

(* The first n of a set come before the rest, are the whole of it if they  *)
(* are fewer than n or it has no more, and one of them is their last.      *)
FirstOf(S, R, n) == {x \in S : Place(x, S, R) < n}

LEMMA FirstFew ==
  ASSUME NEW S, IsFiniteSet(S), NEW R, TotalOrder(S, R), NEW n \in Nat
  PROVE  /\ \A x \in FirstOf(S, R, n), y \in S \ FirstOf(S, R, n) : <<x, y>> \in R
         /\ Cardinality(S) <= n => FirstOf(S, R, n) = S
         /\ Cardinality(FirstOf(S, R, n)) < n => FirstOf(S, R, n) = S
         /\ n # 0 /\ S # {} =>
              \E m \in FirstOf(S, R, n) : \A x \in FirstOf(S, R, n) \ {m} : <<x, m>> \in R
<1> DEFINE F == FirstOf(S, R, n)
<1>0. /\ F \subseteq S /\ IsFiniteSet(F)
      /\ Cardinality(S) \in Nat /\ Cardinality(F) \in Nat
      /\ \A x \in S : Place(x, S, R) \in 0..(Cardinality(S) - 1)
  <2>1. F \subseteq S
    BY DEF FirstOf
  <2>2. QED
    BY <2>1, PlacesGrow, FS_Subset, FS_CardinalityType
<1>1. Cardinality(S) <= n => F = S
  BY <1>0 DEF FirstOf
<1>2. Cardinality(F) < n => F = S
  <2> SUFFICES ASSUME Cardinality(F) < n, Cardinality(S) > n
               PROVE  FALSE
    BY <1>0, <1>1
  <2> DEFINE T == 0..(n - 1)
             f == [x \in F |-> Place(x, S, R)]
  <2>1. f \in [F -> T]
    BY <1>0 DEF FirstOf
  <2>2. \A k \in T : \E x \in F : f[x] = k
    <3> SUFFICES ASSUME NEW k \in T PROVE \E x \in F : f[x] = k
      OBVIOUS
    <3>1. k \in 0..(Cardinality(S) - 1) /\ k < n
      BY <1>0
    <3>2. PICK x \in S : Place(x, S, R) = k
      BY <3>1, EveryPlaceIsTaken
    <3>3. QED
      BY <3>1, <3>2 DEF FirstOf
  <2> HIDE DEF f, T
  <2>3. f \in Surjection(F, T)
    BY <2>1, <2>2 DEF Surjection
  <2>4. Cardinality(T) <= Cardinality(F)
    BY <1>0, <2>3, FS_Surjection
  <2>5. Cardinality(T) = n
    BY FS_Interval DEF T
  <2>6. QED
    BY <1>0, <2>4, <2>5
<1>3. ASSUME n # 0, S # {}
      PROVE  \E m \in F : \A x \in F \ {m} : <<x, m>> \in R
  <2>1. Cardinality(S) # 0
    BY <1>3, FS_EmptySet
  <2> DEFINE k == IF Cardinality(S) < n THEN Cardinality(S) - 1 ELSE n - 1
  <2>2. k \in 0..(Cardinality(S) - 1) /\ k < n
    BY <1>0, <1>3, <2>1
  <2>3. PICK m \in S : Place(m, S, R) = k
    BY <2>2, EveryPlaceIsTaken
  <2>4. m \in F
    BY <2>2, <2>3 DEF FirstOf
  <2>5. \A x \in F : Place(x, S, R) <= k /\ Place(x, S, R) \in Int
    BY <1>0 DEF FirstOf
  <2>6. ASSUME NEW x \in F \ {m} PROVE <<x, m>> \in R
    <3>1. ~(Place(m, S, R) < Place(x, S, R))
      BY <2>2, <2>3, <2>5
    <3>2. <<m, x>> \notin R
      BY <3>1, <1>0, PlacesGrow
    <3>3. QED
      BY <3>2, <1>0 DEF TotalOrder
  <2>7. QED
    BY <2>4, <2>6
<1>4. ASSUME NEW x \in F, NEW y \in S \ F
      PROVE  <<x, y>> \in R
  <2>1. Place(x, S, R) < n /\ ~(Place(y, S, R) < n) /\ x # y
    BY DEF FirstOf
  <2>2. Place(x, S, R) \in Int /\ Place(y, S, R) \in Int
    BY <1>0
  <2>3. <<y, x>> \notin R
    BY <2>1, <2>2, <1>0, PlacesGrow
  <2>4. QED
    BY <2>1, <2>3, <1>0 DEF TotalOrder
<1>5. QED
  BY <1>1, <1>2, <1>3, <1>4

-----------------------------------------------------------------------------
(* The orders of the log: rows have ids of their own, and the pair of a    *)
(* row's time and id orders them totally.                                  *)

Keyed(R) ==
  /\ \A r \in R : r.id \in Int /\ r.at \in Int
  /\ \A r, s \in R : r.id = s.id => r = s

OldestFirst(R) == {p \in R \X R : Older(p[1], p[2])}
NewestFirst(R) == {p \in R \X R : Older(p[2], p[1])}
ById(R) == {p \in R \X R : p[1].id < p[2].id}

(* Older is a strict total order of rows that have ids of their own.      *)
LEMMA OlderOrders ==
  ASSUME NEW R, Keyed(R)
  PROVE  /\ \A r \in R : ~Older(r, r)
         /\ \A r, s \in R : r # s => Older(r, s) \/ Older(s, r)
         /\ \A r, s, u \in R : Older(r, s) /\ Older(s, u) => Older(r, u)
<1> USE DEF Keyed, Older
<1>1. \A r \in R : ~Older(r, r)
  OBVIOUS
<1>2. \A r, s \in R : r # s => Older(r, s) \/ Older(s, r)
  OBVIOUS
<1>3. \A r, s, u \in R : Older(r, s) /\ Older(s, u) => Older(r, u)
  OBVIOUS
<1>4. QED
  BY <1>1, <1>2, <1>3

(* The three orders in which the code reads the log are total.            *)
LEMMA LogOrders ==
  ASSUME NEW R, Keyed(R)
  PROVE  TotalOrder(R, OldestFirst(R)) /\ TotalOrder(R, NewestFirst(R)) /\ TotalOrder(R, ById(R))
<1>1. TotalOrder(R, OldestFirst(R)) /\ TotalOrder(R, NewestFirst(R))
  BY OlderOrders DEF TotalOrder, OldestFirst, NewestFirst
<1>2. TotalOrder(R, ById(R))
  <2>1. \A r \in R : r.id \in Int
    BY DEF Keyed
  <2>2. \A r \in R : ~(r.id < r.id)
    BY <2>1
  <2>3. \A r, s \in R : r # s => r.id < s.id \/ s.id < r.id
    BY <2>1 DEF Keyed
  <2>4. \A r, s, u \in R : r.id < s.id /\ s.id < u.id => r.id < u.id
    BY <2>1
  <2>5. QED
    BY <2>2, <2>3, <2>4 DEF TotalOrder, ById
<1>3. QED
  BY <1>1, <1>2

(* A page's rows: nothing found is left out that fits, what is left out is *)
(* older than the page's oldest row, and that row is one of the page's.    *)
LEMMA PageIsNewest ==
  ASSUME NEW R, IsFiniteSet(R), Keyed(R), NEW n \in Nat
  PROVE  /\ Newest(R, n) \subseteq R
         /\ Cardinality(R) <= n => Newest(R, n) = R
         /\ n # 0 /\ R # {} =>
              /\ Oldest(Newest(R, n)) \in Newest(R, n)
              /\ \A r \in Newest(R, n) : r # Oldest(Newest(R, n)) => Older(Oldest(Newest(R, n)), r)
              /\ \A r \in R \ Newest(R, n) : Older(r, Oldest(Newest(R, n)))
<1> DEFINE N == Newest(R, n)
<1>1. N = FirstOf(R, NewestFirst(R), n)
  <2>1. \A r \in R : {s \in R : Older(r, s)} = Before(r, R, NewestFirst(R))
    BY DEF Before, NewestFirst
  <2>2. QED
    BY <2>1 DEF Newest, FirstOf, Place
<1>2. N \subseteq R
  BY DEF Newest
<1>3. /\ \A x \in N, y \in R \ N : <<x, y>> \in NewestFirst(R)
      /\ Cardinality(R) <= n => N = R
      /\ n # 0 /\ R # {} => \E m \in N : \A x \in N \ {m} : <<x, m>> \in NewestFirst(R)
  BY <1>1, LogOrders, FirstFew
<1>4. ASSUME n # 0, R # {}
      PROVE  Oldest(N) \in N /\ \A r \in N \ {Oldest(N)} : Older(Oldest(N), r)
  <2>1. PICK m \in N : \A x \in N \ {m} : <<x, m>> \in NewestFirst(R)
    BY <1>3, <1>4
  <2>2. \A x \in N \ {m} : Older(m, x)
    BY <2>1 DEF NewestFirst
  <2>3. QED
    BY <2>2 DEF Oldest
<1>5. ASSUME NEW x \in N, NEW y \in R \ N
      PROVE  Older(y, x)
  BY <1>3 DEF NewestFirst
<1> HIDE DEF N
<1>6. QED
  BY <1>2, <1>3, <1>4, <1>5 DEF N

(* A batch's rows: a short batch is all there was, and a row takes every   *)
(* older one with it.                                                      *)
LEMMA BatchIsOldest ==
  ASSUME NEW R, IsFiniteSet(R), Keyed(R), NEW n \in Nat
  PROVE  /\ OldestFew(R, n) \subseteq R
         /\ Cardinality(OldestFew(R, n)) < n => OldestFew(R, n) = R
         /\ \A r \in OldestFew(R, n), s \in R : Older(s, r) => s \in OldestFew(R, n)
<1> DEFINE B == OldestFew(R, n)
<1>1. B = FirstOf(R, OldestFirst(R), n)
  <2>1. \A r \in R : {s \in R : Older(s, r)} = Before(r, R, OldestFirst(R))
    BY DEF Before, OldestFirst
  <2>2. QED
    BY <2>1 DEF OldestFew, FirstOf, Place
<1>2. B \subseteq R
  BY DEF OldestFew
<1>3. /\ \A x \in B, y \in R \ B : <<x, y>> \in OldestFirst(R)
      /\ Cardinality(B) < n => B = R
  BY <1>1, LogOrders, FirstFew
<1>4. ASSUME NEW r \in B, NEW s \in R \ B
      PROVE  ~Older(s, r)
  <2>1. Older(r, s)
    BY <1>3 DEF OldestFirst
  <2>2. QED
    BY <2>1, <1>2, OlderOrders
<1> HIDE DEF B
<1>5. QED
  BY <1>2, <1>3, <1>4 DEF B

(* A finite set of rows has one with the greatest id.                     *)
LEMMA LatestIsThere ==
  ASSUME NEW R, IsFiniteSet(R), Keyed(R), R # {}
  PROVE  Latest(R) \in R /\ \A r \in R : r.id <= Latest(R).id
<1> DEFINE n == Cardinality(R)
<1>1. n \in Nat /\ n # 0
  BY FS_CardinalityType, FS_EmptySet
<1>2. FirstOf(R, ById(R), n) = R
  <2>1. n <= n
    BY <1>1
  <2>2. QED
    BY <1>1, <2>1, LogOrders, FirstFew
<1>3. PICK m \in R : \A x \in R \ {m} : <<x, m>> \in ById(R)
  BY <1>1, <1>2, LogOrders, FirstFew
<1>4. \A x \in R : x.id <= m.id
  <2>1. \A x \in R : x.id \in Int
    BY DEF Keyed
  <2>2. \A x \in R \ {m} : x.id < m.id
    BY <1>3 DEF ById
  <2>3. QED
    BY <2>1, <2>2
<1>5. QED
  BY <1>4 DEF Latest

-----------------------------------------------------------------------------
LEMMA InitLogInv == Init => LogInv
<1> SUFFICES ASSUME Init PROVE LogInv
  OBVIOUS
<1>1. Recorded /\ LatestIsLast /\ CutoffIsPast
  BY DEF Init, Recorded, LatestIsLast, CutoffIsPast, Resting
<1>2. call \in [Calls -> CallShape] /\ \A c \in Calls : call[c] = Idle
  BY DEF Init, Idle, CallShape, Address, Keep
<1>3. InFlight /\ HolderIsLast
  BY <1>2, EventLogAssumption DEF InFlight, HolderIsLast, Idle
<1>4. QED
  BY <1>1, <1>3 DEF LogInv

(* A call that begins, records its answer or ends without a commit leaves  *)
(* the log alone; what it records carries the present time and has room.   *)
Moves(c, s) ==
  /\ call' = [call EXCEPT ![c] = s]
  /\ UNCHANGED <<now, logVars, walk, prune>>
  /\ s.pc = "admitted" => s.by \in {"device", "manual"}
  /\ s.by = "device" => \/ call[c].by = "device" /\ s.from = call[c].from
                        \/ DeviceRowFree /\ s.from \in Addresses
  /\ \A i \in DOMAIN s.rows : s.rows[i].at = now /\ (Successful(s.rows[i]) => s.by = "device")
  /\ s.pc = "answered" => call[c].pc # "answered" /\ Len(s.rows) \in 1..2 /\ Room(Len(s.rows))
  /\ s.pc # "answered" => Len(s.rows) = 0

(* A move keeps LogInv: a call that takes the device row is then alone.   *)
LEMMA CallMoves ==
  ASSUME LogInv, NEW c \in Calls, NEW s \in CallShape, Moves(c, s)
  PROVE  LogInv'
<1> USE DEF Moves
<1>1. Recorded' /\ LatestIsLast' /\ CutoffIsPast'
  BY DEF LogInv, Recorded, LatestIsLast, CutoffIsPast, Successful, logVars
<1>2. call' \in [Calls -> CallShape] /\ call'[c] = s /\ \A d \in Calls \ {c} : call'[d] = call[d]
  BY DEF LogInv, InFlight
<1>3. InFlight'
  <2> SUFFICES ASSUME NEW d \in Calls
               PROVE  /\ call'[d].pc = "admitted" => call'[d].by \in {"device", "manual"}
                      /\ \A i \in DOMAIN call'[d].rows :
                           /\ call'[d].rows[i].at <= now
                           /\ \A j \in DOMAIN call'[d].rows :
                                call'[d].rows[i].at = call'[d].rows[j].at
                           /\ Successful(call'[d].rows[i]) => call'[d].by = "device"
    BY <1>2 DEF InFlight, Successful
  <2>1. CASE d = c
    BY <2>1, <1>2 DEF LogInv, Recorded
  <2>2. CASE d # c
    BY <2>2, <1>2 DEF LogInv, InFlight
  <2>3. QED
    BY <2>1, <2>2
<1>4. HolderIsLast'
  <2> SUFFICES ASSUME NEW d \in Calls, call'[d].by = "device"
               PROVE  /\ \A e \in Calls : call'[e].by = "device" => d = e
                      /\ \A i \in DOMAIN call'[d].rows, r \in log :
                           Successful(r) => r.at <= call'[d].rows[i].at
    BY DEF HolderIsLast, Successful, logVars
  <2>1. \A e \in Calls : call'[e].by = "device" => d = e
    BY <1>2 DEF LogInv, HolderIsLast, DeviceRowFree, Holders
  <2>2. ASSUME NEW i \in DOMAIN call'[d].rows, NEW r \in log, Successful(r)
        PROVE  r.at <= call'[d].rows[i].at
    <3>1. CASE d = c
      BY <3>1, <2>2, <1>2 DEF LogInv, Recorded
    <3>2. CASE d # c
      BY <3>2, <2>2, <1>2 DEF LogInv, HolderIsLast
    <3>3. QED
      BY <3>1, <3>2
  <2>3. QED
    BY <2>1, <2>2
<1>5. QED
  BY <1>1, <1>3, <1>4 DEF LogInv

LEMMA FewRows ==
  ASSUME NEW S
  PROVE  <<>> \in Seq(S) /\ \A x \in S : <<x>> \in Seq(S)
OBVIOUS

LEMMA RowsOfSeq ==
  ASSUME NEW q \in Seq(RowShape)
  PROVE  /\ DOMAIN q = 1..Len(q) /\ Len(q) \in Nat
         /\ \A i \in DOMAIN q : q[i].at \in Int /\ q[i].kind \in Kinds
<1>1. \A i \in DOMAIN q : q[i] \in RowShape
  OBVIOUS
<1>2. \A x \in RowShape : x.at \in Int /\ x.kind \in Kinds
  BY DEF RowShape
<1>3. QED
  BY <1>1, <1>2

LEMMA RowsAsSeq ==
  ASSUME NEW n \in Nat, NEW q, q = [i \in 1..n |-> q[i]], \A i \in 1..n : q[i] \in RowShape
  PROVE  q \in Seq(RowShape)
<1>1. q \in [1..n -> RowShape]
  OBVIOUS
<1>2. QED
  BY <1>1

LEMMA IdleShape == Idle \in CallShape
<1>1. <<>> \in Seq(RowShape)
  BY FewRows
<1>2. QED
  BY <1>1 DEF Idle, CallShape, Address, Keep

LEMMA AttemptIsShort ==
  ASSUME NEW attempt \in Attempts
  PROVE  \/ DOMAIN attempt.good = 1..1 /\ Len(attempt.good) = 1
         \/ DOMAIN attempt.good = 1..2 /\ Len(attempt.good) = 2
<1>1. \/ attempt = [good |-> <<TRUE>>, settled |-> TRUE]
      \/ attempt = [good |-> <<FALSE>>, settled |-> FALSE]
      \/ attempt = [good |-> <<TRUE, FALSE>>, settled |-> TRUE]
      \/ attempt = [good |-> <<TRUE, FALSE>>, settled |-> FALSE]
  BY Zenon DEF Attempts
<1>2. CASE attempt = [good |-> <<TRUE>>, settled |-> TRUE]
  BY <1>2
<1>3. CASE attempt = [good |-> <<FALSE>>, settled |-> FALSE]
  BY <1>3
<1>4. CASE attempt = [good |-> <<TRUE, FALSE>>, settled |-> TRUE]
  BY <1>4
<1>5. CASE attempt = [good |-> <<TRUE, FALSE>>, settled |-> FALSE]
  BY <1>5
<1>6. QED
  BY <1>1, <1>2, <1>3, <1>4, <1>5

(* Every step of a request but its commit is a move.                      *)
LEMMA RequestMoves ==
  ASSUME LogInv, NEW c \in Calls, Request(c), ~Commit(c)
  PROVE  \E s \in CallShape : Moves(c, s)
<1> USE EventLogAssumption
<1>0. call[c] \in CallShape /\ now \in Int /\ Idle \in CallShape /\ <<>> \in Seq(RowShape)
  BY IdleShape, FewRows DEF LogInv, InFlight, Recorded
<1>i. Idle.pc = "idle" /\ Idle.by = NULL /\ Idle.rows = <<>> /\ Len(<<>>) = 0 /\ DOMAIN <<>> = {}
  BY DEF Idle
<1>r. \A kind \in Kinds : <<Record(kind)>> \in Seq(RowShape)
  BY <1>0, FewRows DEF Record, RowShape
<1>o. \A x : DOMAIN <<x>> = {1} /\ Len(<<x>>) = 1 /\ <<x>>[1] = x
  OBVIOUS
<1>1. CASE Unauthorised(c)
  <2> DEFINE s == [Idle EXCEPT !.pc = "answered", !.by = "stranger", !.rows = <<Record("failed")>>]
  <2>1. s \in CallShape /\ s.pc = "answered" /\ s.by = "stranger"
    BY <1>r DEF Idle, CallShape, Kinds, Address, Keep
  <2>2. s.rows = <<Record("failed")>>
    BY DEF Idle
  <2>3. \A i \in DOMAIN s.rows : s.rows[i].at = now /\ ~Successful(s.rows[i])
    BY <2>2, <1>o DEF Record, Successful
  <2>4. Len(s.rows) = 1
    BY <2>2, <1>o
  <2> HIDE DEF s
  <2>5. /\ call' = [call EXCEPT ![c] = s] /\ UNCHANGED <<now, logVars, walk, prune>>
        /\ Room(1) /\ call[c].pc = "idle"
    BY <1>1, <1>i DEF Unauthorised, s
  <2>6. Moves(c, s)
    BY <2>1, <2>3, <2>4, <2>5 DEF Moves
  <2>7. QED
    BY <2>1, <2>6
<1>2. CASE Press(c)
  <2> DEFINE s == [Idle EXCEPT !.pc = "admitted", !.by = "manual"]
  <2>1. s \in CallShape /\ s.by = "manual" /\ s.pc = "admitted" /\ s.rows = <<>>
    BY <1>0 DEF Idle, CallShape, Address, Keep
  <2> HIDE DEF s
  <2>2. call' = [call EXCEPT ![c] = s] /\ UNCHANGED <<now, logVars, walk, prune>>
    BY <1>2 DEF Press, s
  <2>3. Moves(c, s)
    BY <2>1, <2>2, <1>i DEF Moves
  <2>4. QED
    BY <2>1, <2>3
<1>3. ASSUME NEW from \in Addresses, Admit(c, from)
      PROVE  \E s \in CallShape : Moves(c, s)
  <2> DEFINE s == [Idle EXCEPT !.pc = "admitted", !.by = "device", !.from = from]
  <2>1. s \in CallShape /\ s.by = "device" /\ s.pc = "admitted" /\ s.rows = <<>> /\ s.from = from
    BY <1>0 DEF Idle, CallShape, Address, Keep
  <2> HIDE DEF s
  <2>2. call' = [call EXCEPT ![c] = s] /\ UNCHANGED <<now, logVars, walk, prune>> /\ DeviceRowFree
    BY <1>3 DEF Admit, s
  <2>3. Moves(c, s)
    BY <2>1, <2>2, <1>i DEF Moves
  <2>4. QED
    BY <2>1, <2>3
<1>4. ASSUME NEW ip \in Addresses, NEW attempt \in Attempts, Answer(c, ip, attempt)
      PROVE  \E s \in CallShape : Moves(c, s)
  <2> DEFINE rows == [i \in DOMAIN attempt.good |->
                        Record(IF attempt.good[i] THEN GoodKind(c, ip) ELSE "failed")]
             s == [call[c] EXCEPT !.pc = "answered", !.says = IF attempt.settled THEN ip ELSE Keep,
                                  !.rows = rows]
  <2>1. call[c].by \in {"device", "manual"}
    BY <1>4 DEF Answer, LogInv, InFlight
  <2>2. /\ DOMAIN attempt.good = 1..1 \/ DOMAIN attempt.good = 1..2
        /\ DOMAIN attempt.good = 1..Len(attempt.good) /\ Len(attempt.good) \in 1..2
    BY AttemptIsShort
  <2>3. GoodKind(c, ip) \in Kinds /\ (GoodKind(c, ip) \in {"own", "declared"} => call[c].by = "device")
    BY <2>1 DEF GoodKind, Kinds
  <2>4. \A i \in DOMAIN rows : /\ rows[i] \in RowShape
                               /\ rows[i].at = now
                               /\ Successful(rows[i]) => call[c].by = "device"
    BY <2>3, <1>0 DEF Record, Successful, Kinds, RowShape
  <2>5. rows \in Seq(RowShape) /\ Len(rows) = Len(attempt.good)
    <3>1. PICK n \in Nat : n = Len(attempt.good) /\ DOMAIN attempt.good = 1..n
      BY <2>2
    <3>2. DOMAIN rows = 1..n /\ rows = [i \in DOMAIN rows |-> rows[i]]
      BY <3>1
    <3> HIDE DEF rows
    <3>3. rows \in Seq(RowShape)
      BY <2>4, <3>2, RowsAsSeq
    <3>4. DOMAIN rows = 1..Len(rows) /\ Len(rows) \in Nat
      BY <3>3, RowsOfSeq
    <3>5. QED
      BY <3>1, <3>2, <3>3, <3>4
  <2> HIDE DEF rows
  <2>6. /\ s \in CallShape /\ s.by = call[c].by /\ s.from = call[c].from
        /\ s.pc = "answered" /\ s.rows = rows
    BY <2>5, <1>0 DEF CallShape, Address
  <2>7. /\ call' = [call EXCEPT ![c] = s] /\ UNCHANGED <<now, logVars, walk, prune>>
        /\ Room(Len(attempt.good)) /\ call[c].pc = "admitted"
    BY <1>4, <1>0 DEF Answer, rows, CallShape
  <2> HIDE DEF s
  <2>8. Moves(c, s)
    BY <2>2, <2>4, <2>5, <2>6, <2>7 DEF Moves
  <2>9. QED
    BY <2>6, <2>8
<1>5. ASSUME NEW ip \in Addresses \cup {NULL}, Adopt(c, ip)
      PROVE  \E s \in CallShape : Moves(c, s)
  <2> DEFINE s == [Idle EXCEPT !.pc = "answered", !.by = "adopter", !.says = ip,
                               !.rows = <<Record("byhand")>>]
  <2>1. s \in CallShape /\ s.pc = "answered" /\ s.by = "adopter"
    BY <1>5, <1>r DEF Idle, CallShape, Kinds, Address, Keep
  <2>2. s.rows = <<Record("byhand")>>
    BY DEF Idle
  <2>3. \A i \in DOMAIN s.rows : s.rows[i].at = now /\ ~Successful(s.rows[i])
    BY <2>2, <1>o DEF Record, Successful
  <2>4. Len(s.rows) = 1
    BY <2>2, <1>o
  <2> HIDE DEF s
  <2>5. /\ call' = [call EXCEPT ![c] = s] /\ UNCHANGED <<now, logVars, walk, prune>>
        /\ Room(1) /\ call[c].pc = "idle"
    BY <1>5, <1>i DEF Adopt, s
  <2>6. Moves(c, s)
    BY <2>1, <2>3, <2>4, <2>5 DEF Moves
  <2>7. QED
    BY <2>1, <2>6
<1>6. CASE Fail(c)
  <2>1. call' = [call EXCEPT ![c] = Idle] /\ UNCHANGED <<now, logVars, walk, prune>>
    BY <1>6 DEF Fail
  <2>2. Moves(c, Idle)
    BY <1>0, <1>i, <2>1 DEF Moves
  <2>3. QED
    BY <1>0, <2>2
<1>7. QED
  BY <1>1, <1>2, <1>3, <1>4, <1>5, <1>6 DEF Request

LEMMA RequestStep ==
  ASSUME LogInv, NEW c \in Calls, Request(c), ~Commit(c)
  PROVE  LogInv'
<1>1. QED
  BY RequestMoves, CallMoves

(* A commit adds rows with new ids: those of a stranger or a hand are no   *)
(* successes, and the device's own come after every success in the log.    *)
LEMMA CommitStep ==
  ASSUME LogInv, NEW c \in Calls, Commit(c)
  PROVE  LogInv'
<1> USE EventLogAssumption
<1> DEFINE q == call[c].rows
<1>0. /\ call[c] \in CallShape /\ q \in Seq(RowShape) /\ Idle \in CallShape
      /\ now \in Int /\ nextId \in Int /\ call \in [Calls -> CallShape]
  BY IdleShape DEF LogInv, InFlight, Recorded, CallShape
<1>1. /\ DOMAIN q = 1..Len(q) /\ Len(q) \in Nat
      /\ \A i \in DOMAIN q : q[i].at \in Int /\ q[i].at <= now /\ q[i].kind \in Kinds
  BY <1>0, RowsOfSeq DEF LogInv, InFlight
<1>2. /\ log' = log \cup Rows(c) /\ nextId' = nextId + Len(q) /\ call' = [call EXCEPT ![c] = Idle]
      /\ now' = now /\ prune' = prune
  BY DEF Commit
<1>3. \A r \in Rows(c) : \E i \in DOMAIN q :
         r.id = nextId + i - 1 /\ r.at = q[i].at /\ r.kind = q[i].kind
  BY DEF Rows
<1>4. \A r \in Rows(c) : r.id \in Int /\ nextId <= r.id /\ r.id < nextId + Len(q)
                        /\ r.at \in Int /\ r.at <= now
  <2> SUFFICES ASSUME NEW r \in Rows(c)
               PROVE  /\ r.id \in Int /\ nextId <= r.id /\ r.id < nextId + Len(q)
                      /\ r.at \in Int /\ r.at <= now
    OBVIOUS
  <2>1. PICK i \in DOMAIN q : r.id = nextId + i - 1 /\ r.at = q[i].at
    BY <1>3
  <2>2. i \in Int /\ 1 <= i /\ i <= Len(q)
    BY <1>1
  <2>3. r.at \in Int /\ r.at <= now
    BY <1>1, <2>1
  <2> HIDE DEF q
  <2>4. nextId \in Int /\ Len(q) \in Int
    BY <1>0, <1>1
  <2> QED BY <2>1, <2>2, <2>3, <2>4
<1>5. Recorded'
  BY <1>0, <1>1, <1>2, <1>4 DEF LogInv, Recorded
<1>6. InFlight'
  <2> SUFFICES ASSUME NEW d \in Calls
               PROVE  /\ call'[d].pc = "admitted" => call'[d].by \in {"device", "manual"}
                      /\ \A i \in DOMAIN call'[d].rows :
                           /\ call'[d].rows[i].at <= now
                           /\ \A j \in DOMAIN call'[d].rows :
                                call'[d].rows[i].at = call'[d].rows[j].at
                           /\ Successful(call'[d].rows[i]) => call'[d].by = "device"
    BY <1>0, <1>2 DEF InFlight, Successful
  <2>1. CASE d = c
    BY <2>1, <1>0, <1>2 DEF Idle
  <2>2. CASE d # c
    BY <2>2, <1>0, <1>2 DEF LogInv, InFlight
  <2>3. QED
    BY <2>1, <2>2
<1>7. \A r \in Rows(c) : Successful(r) =>
         call[c].by = "device" /\ \A s \in log : Successful(s) => s.at <= r.at
  <2> SUFFICES ASSUME NEW r \in Rows(c), Successful(r)
               PROVE  call[c].by = "device" /\ \A s \in log : Successful(s) => s.at <= r.at
    OBVIOUS
  <2>1. PICK i \in DOMAIN q : r.at = q[i].at /\ r.kind = q[i].kind
    BY <1>3
  <2>2. call[c].by = "device"
    BY <2>1 DEF LogInv, InFlight, Successful
  <2>3. QED
    BY <2>1, <2>2 DEF LogInv, HolderIsLast
<1>8. LatestIsLast'
  <2> SUFFICES ASSUME NEW r \in log', NEW s \in log', Successful(r), Successful(s), r.id < s.id
               PROVE  r.at <= s.at
    BY DEF LatestIsLast, Successful
  <2>1. CASE r \in log /\ s \in log
    BY <2>1 DEF LogInv, LatestIsLast
  <2>2. CASE s \in Rows(c) /\ r \in log
    BY <2>2, <1>7
  <2>3. CASE r \in Rows(c) /\ s \in log
    BY <2>3, <1>0, <1>4 DEF LogInv, Recorded
  <2>4. CASE r \in Rows(c) /\ s \in Rows(c)
    <3>1. PICK i \in DOMAIN q, j \in DOMAIN q : r.at = q[i].at /\ s.at = q[j].at
      BY <2>4, <1>3
    <3>2. QED
      BY <3>1, <1>1 DEF LogInv, InFlight
  <2>5. QED
    BY <2>1, <2>2, <2>3, <2>4, <1>2
<1>9. HolderIsLast'
  <2> SUFFICES ASSUME NEW d \in Calls, call'[d].by = "device"
               PROVE  /\ \A e \in Calls : call'[e].by = "device" => d = e
                      /\ \A i \in DOMAIN call'[d].rows, r \in log' :
                           Successful(r) => r.at <= call'[d].rows[i].at
    BY DEF HolderIsLast, Successful
  <2>1. d # c /\ call'[d] = call[d] /\ call[d].by = "device"
    BY <1>0, <1>2 DEF Idle
  <2>2. \A e \in Calls : call'[e].by = "device" => d = e
    BY <2>1, <1>0, <1>2 DEF LogInv, HolderIsLast, Idle
  <2>3. call[c].by # "device"
    BY <2>1 DEF LogInv, HolderIsLast
  <2>4. QED
    BY <2>1, <2>2, <2>3, <1>2, <1>7 DEF LogInv, HolderIsLast
<1>10. CutoffIsPast'
  BY <1>2 DEF LogInv, CutoffIsPast
<1>11. QED
  BY <1>5, <1>6, <1>8, <1>9, <1>10 DEF LogInv

(* The prune takes rows away, and its cutoff recedes as time passes.       *)
LEMMA PruneStep ==
  ASSUME LogInv, Prune
  PROVE  LogInv'
<1>1. log' \subseteq log /\ now' = now /\ nextId' = nextId /\ call' = call
  BY DEF Prune, PruneStart, PruneBatch, PruneCount, PruneFails, logVars
<1>2. (Recorded /\ InFlight /\ HolderIsLast /\ LatestIsLast)'
  BY <1>1 DEF LogInv, Recorded, InFlight, HolderIsLast, LatestIsLast, Successful
<1>3. CutoffIsPast'
  <2>1. CASE PruneStart
    BY <2>1, EventLogAssumption DEF PruneStart, Resting, CutoffIsPast, LogInv, Recorded, logVars
  <2>2. CASE PruneBatch
    BY <2>2, <1>1 DEF PruneBatch, CutoffIsPast, LogInv
  <2>3. CASE PruneCount \/ PruneFails
    BY <2>3 DEF PruneCount, PruneFails, Resting, CutoffIsPast
  <2>4. QED
    BY <2>1, <2>2, <2>3 DEF Prune
<1>4. QED
  BY <1>2, <1>3 DEF LogInv

LEMMA LogStep ==
  ASSUME LogInv, [Next]_vars
  PROVE  LogInv'
<1>1. ASSUME NEW c \in Calls, Request(c)
      PROVE  LogInv'
  BY <1>1, RequestStep, CommitStep
<1>2. CASE Tick
  <2>1. now' \in Int /\ now < now' /\ UNCHANGED <<log, nextId, call, prune>>
    BY <1>2, EventLogAssumption DEF Tick, logVars
  <2>2. Recorded' /\ LatestIsLast'
    BY <2>1 DEF LogInv, Recorded, LatestIsLast, Successful
  <2>3. InFlight'
    <3>1. ASSUME NEW c \in Calls, NEW i \in DOMAIN call[c].rows
          PROVE  call[c].rows[i].at \in Int
      <4>1. call[c].rows \in Seq(RowShape)
        BY DEF LogInv, InFlight, CallShape
      <4>2. QED
        BY <4>1, RowsOfSeq
    <3>2. QED
      BY <3>1, <2>1 DEF LogInv, Recorded, InFlight, Successful
  <2>4. HolderIsLast'
    BY <2>1 DEF LogInv, HolderIsLast, Successful
  <2>5. CutoffIsPast'
    BY <2>1, EventLogAssumption DEF LogInv, Recorded, CutoffIsPast
  <2>6. QED
    BY <2>2, <2>3, <2>4, <2>5 DEF LogInv
<1>3. CASE Read \/ UNCHANGED vars
  <2>1. UNCHANGED <<now, log, nextId, call, prune>>
    BY <1>3 DEF Read, OpenLog, NextPage, LeaveLog, logVars, vars
  <2>2. QED
    BY <2>1 DEF LogInv, Recorded, InFlight, HolderIsLast, LatestIsLast, CutoffIsPast, Successful
<1>4. QED
  BY <1>1, <1>2, <1>3, PruneStep DEF Next, Write

-----------------------------------------------------------------------------
(* The whole of the log: types, the last success and the walk. *)

LEMMA InitWhole == Init => WholeLog
<1> SUFFICES ASSUME Init PROVE WholeLog
  OBVIOUS
<1> USE EventLogAssumption
<1>1. \A c \in Calls : call[c] = Idle
  BY DEF Init
<1>2. Idle.rows = <<>> /\ Len(<<>>) = 0 /\ DOMAIN <<>> = {} /\ Idle.by = NULL /\ Idle.says = Keep
      /\ Idle.pc = "idle"
  BY DEF Idle
<1>3. Uncommitted = {}
  BY <1>1, <1>2 DEF Uncommitted
<1>4. TypeOK
  <2>1. \A c \in Calls : call[c].says \in Address \cup {Keep} /\ Len(call[c].rows) <= 2
    BY <1>1, <1>2
  <2>2. device \in [seen : BOOLEAN, ip : Address] /\ device.seen = (device.ip # NULL)
    BY DEF Init, Address
  <2>3. now \in Nat /\ nextId \in 1..MaxRows + 1
    BY DEF Init
  <2>4. walk.shown \cup walk.due \subseteq Row /\ prune.batches \in 0..MaxBatches
    BY DEF Init, Closed, Resting
  <2>5. QED
    BY <2>1, <2>2, <2>3, <2>4 DEF Init, TypeOK, Address
<1>5. Typed
  <2>1. IsFiniteSet(log) /\ IsFiniteSet(Uncommitted) /\ Cardinality(Uncommitted) = 0
    BY <1>3, FS_EmptySet DEF Init
  <2>2. nextId + Cardinality(Uncommitted) <= MaxRows + 1
    BY <2>1 DEF Init
  <2>3. /\ walk \in [open : BOOLEAN, cursor : Cursors \cup {NULL}, due : SUBSET Row,
                     shown : SUBSET Row]
        /\ prune \in [pc : {"idle", "batch", "count"}, cutoff : Int, batches : 0..MaxBatches,
                      due : SUBSET Row, truncated : BOOLEAN]
        /\ prune.pc = "idle"
    BY DEF Init, Closed, Resting
  <2>4. QED
    BY <1>1, <1>2, <2>1, <2>2, <2>3 DEF Typed
<1>6. ToldIsLast /\ WalkIsAt
  BY DEF Init, ToldIsLast, WalkIsAt, Closed
<1>7. QED
  BY <1>4, <1>5, <1>6, InitLogInv DEF WholeLog

(* One call's uncommitted rows are as many as it has recorded.            *)
LEMMA OwnRows ==
  ASSUME NEW c, NEW n \in Nat
  PROVE  IsFiniteSet({c} \X (1..n)) /\ Cardinality({c} \X (1..n)) = n
<1>1. IsFiniteSet(1..n) /\ Cardinality(1..n) = n
  BY FS_Interval
<1>2. IsFiniteSet({c}) /\ Cardinality({c}) = 1
  BY FS_Singleton
<1>3. QED
  BY <1>1, <1>2, FS_Product

(* A call that records rows adds as many to what is uncommitted, and takes *)
(* them away when it ends.                                                 *)
LEMMA UncommittedMoves ==
  ASSUME call \in [Calls -> CallShape], IsFiniteSet(Uncommitted),
         NEW c \in Calls, NEW s \in CallShape, call' = [call EXCEPT ![c] = s]
  PROVE  /\ IsFiniteSet(Uncommitted')
         /\ Len(call[c].rows) = 0 =>
              Cardinality(Uncommitted') = Cardinality(Uncommitted) + Len(s.rows)
         /\ Len(s.rows) = 0 =>
              Cardinality(Uncommitted') = Cardinality(Uncommitted) - Len(call[c].rows)
<1> DEFINE old == {c} \X DOMAIN call[c].rows
           new == {c} \X DOMAIN s.rows
<1>1. call'[c] = s /\ \A d \in Calls \ {c} : call'[d] = call[d]
  OBVIOUS
<1>2. /\ DOMAIN call[c].rows = 1..Len(call[c].rows) /\ Len(call[c].rows) \in Nat
      /\ DOMAIN s.rows = 1..Len(s.rows) /\ Len(s.rows) \in Nat
  <2>1. call[c].rows \in Seq(RowShape) /\ s.rows \in Seq(RowShape)
    BY DEF CallShape
  <2>2. QED
    BY <2>1, RowsOfSeq
<1>3. /\ IsFiniteSet(old) /\ Cardinality(old) = Len(call[c].rows)
      /\ IsFiniteSet(new) /\ Cardinality(new) = Len(s.rows)
  BY <1>2, OwnRows
<1>4. old \subseteq Uncommitted
  BY DEF Uncommitted
<1>5. Uncommitted' = (Uncommitted \ old) \cup new
  <2>1. Uncommitted' = UNION {{d} \X DOMAIN call'[d].rows : d \in Calls}
    BY DEF Uncommitted
  <2>2. ASSUME NEW p \in Uncommitted' PROVE p \in (Uncommitted \ old) \cup new
    <3>1. PICK d \in Calls : p \in {d} \X DOMAIN call'[d].rows
      BY <2>1
    <3>2. QED
      BY <3>1, <1>1 DEF Uncommitted
  <2>3. ASSUME NEW p \in Uncommitted \ old PROVE p \in Uncommitted'
    <3>1. PICK d \in Calls : p \in {d} \X DOMAIN call[d].rows
      BY DEF Uncommitted
    <3>2. d # c
      BY <3>1
    <3>3. QED
      BY <2>1, <3>1, <3>2, <1>1
  <2>4. ASSUME NEW p \in new PROVE p \in Uncommitted'
    BY <2>1, <1>1
  <2>5. QED
    BY <2>2, <2>3, <2>4
<1> HIDE DEF old, new
<1>6. /\ IsFiniteSet(Uncommitted \ old)
      /\ Cardinality(Uncommitted \ old) = Cardinality(Uncommitted) - Len(call[c].rows)
  <2>1. Uncommitted \cap old = old
    BY <1>4
  <2>2. /\ IsFiniteSet(Uncommitted \ old)
        /\ Cardinality(Uncommitted \ old)
             = Cardinality(Uncommitted) - Cardinality(Uncommitted \cap old)
    BY FS_Difference, Zenon
  <2>3. QED
    BY <1>3, <2>1, <2>2
<1>7. (Uncommitted \ old) \cap new = {}
  BY <1>2 DEF Uncommitted, old, new
<1>8. /\ IsFiniteSet((Uncommitted \ old) \cup new)
      /\ Cardinality((Uncommitted \ old) \cup new)
           = Cardinality(Uncommitted) - Len(call[c].rows) + Len(s.rows)
  <2>1. Cardinality({}) = 0
    BY FS_EmptySet
  <2>2. Cardinality(Uncommitted) \in Nat
    BY FS_CardinalityType
  <2>3. /\ IsFiniteSet((Uncommitted \ old) \cup new)
        /\ Cardinality((Uncommitted \ old) \cup new)
             = Cardinality(Uncommitted \ old) + Cardinality(new)
                 - Cardinality((Uncommitted \ old) \cap new)
    BY <1>3, <1>6, FS_Union, Zenon
  <2>4. Cardinality((Uncommitted \ old) \cap new) = 0
    BY <1>7, <2>1
  <2>5. /\ Cardinality(Uncommitted \ old) = Cardinality(Uncommitted) - Len(call[c].rows)
        /\ Cardinality(new) = Len(s.rows)
        /\ Len(call[c].rows) \in Nat /\ Len(s.rows) \in Nat
    BY <1>2, <1>3, <1>6
  <2>6. Cardinality((Uncommitted \ old) \cup new)
          = Cardinality(Uncommitted) - Len(call[c].rows) + Len(s.rows)
    BY <2>2, <2>3, <2>4, <2>5
  <2>7. QED
    BY <2>3, <2>6
<1>9. Cardinality(Uncommitted) \in Nat
  BY FS_CardinalityType
<1>10. QED
  BY <1>2, <1>5, <1>8, <1>9

(* What holds of the calls holds of them after a move of one.              *)
CallTyped(k) ==
  /\ k.says \in Address \cup {Keep} /\ Len(k.rows) <= 2
  /\ k.pc = "answered" => Len(k.rows) \in 1..2
  /\ k.pc # "answered" => Len(k.rows) = 0
  /\ k.by = "device" => k.from \in Addresses
  /\ \A i \in DOMAIN k.rows : k.rows[i].at >= 0

(* A move leaves the log, the last success and the walk as they were.     *)
LEMMA WholeRequest ==
  ASSUME WholeLog, NEW c \in Calls, Request(c), ~Commit(c)
  PROVE  WholeLog'
<1>1. PICK s \in CallShape : Moves(c, s)
  BY RequestMoves DEF WholeLog
<1>2. /\ call' = [call EXCEPT ![c] = s]
      /\ UNCHANGED <<now, log, nextId, device, last, told, walk, prune>>
  BY <1>1 DEF Moves, logVars
<1>3. call \in [Calls -> CallShape] /\ now \in Nat /\ nextId \in Nat
  BY EventLogAssumption DEF WholeLog, LogInv, InFlight, TypeOK
<1>4. \A d \in Calls : CallTyped(call[d])
  BY DEF WholeLog, TypeOK, Typed, CallTyped
<1>5. CallTyped(s)
  <2>1. s.says \in Address \cup {Keep}
    BY DEF CallShape
  <2>2. /\ s.pc = "answered" => Len(s.rows) \in 1..2
        /\ s.pc # "answered" => Len(s.rows) = 0
        /\ s.by = "device" => s.from \in Addresses
    BY <1>1, <1>4 DEF Moves, CallTyped
  <2>3. \A i \in DOMAIN s.rows : s.rows[i].at >= 0
    BY <1>1, <1>3 DEF Moves
  <2>4. Len(s.rows) <= 2
    <3>1. Len(s.rows) \in 1..2 \/ Len(s.rows) = 0
      BY <2>2
    <3>2. \A n \in Int : n \in 1..2 \/ n = 0 => n <= 2
      OBVIOUS
    <3>3. Len(s.rows) \in Int
      BY <3>1
    <3>4. QED
      BY <3>1, <3>2, <3>3, Zenon
  <2>5. QED
    BY <2>1, <2>2, <2>3, <2>4, Zenon DEF CallTyped
<1>6. \A d \in Calls : CallTyped(call'[d])
  BY <1>2, <1>3, <1>4, <1>5
<1>7. /\ IsFiniteSet(Uncommitted')
      /\ nextId + Cardinality(Uncommitted') <= MaxRows + 1
  <2>1. IsFiniteSet(Uncommitted) /\ nextId + Cardinality(Uncommitted) <= MaxRows + 1
    BY DEF WholeLog, Typed
  <2>2. Cardinality(Uncommitted) \in Nat
    BY <2>1, FS_CardinalityType
  <2>3. CASE s.pc = "answered"
    <3>1. Len(call[c].rows) = 0 /\ Len(s.rows) \in 1..2 /\ Room(Len(s.rows))
      BY <1>1, <1>4, <2>3 DEF Moves, CallTyped
    <3>2. IsFiniteSet(Uncommitted')
          /\ Cardinality(Uncommitted') = Cardinality(Uncommitted) + Len(s.rows)
      BY <1>2, <1>3, <2>1, <3>1, UncommittedMoves
    <3>3. QED
      BY <1>3, <2>2, <3>1, <3>2 DEF Room
  <2>4. CASE s.pc # "answered"
    <3>1. Len(s.rows) = 0 /\ Len(call[c].rows) \in Nat
      <4>1. call[c].rows \in Seq(RowShape)
        BY <1>3 DEF CallShape
      <4>2. QED
        BY <1>1, <2>4, <4>1 DEF Moves
    <3>2. IsFiniteSet(Uncommitted')
          /\ Cardinality(Uncommitted') = Cardinality(Uncommitted) - Len(call[c].rows)
      BY <1>2, <1>3, <2>1, <3>1, UncommittedMoves
    <3>3. QED
      BY <1>3, <2>1, <2>2, <3>1, <3>2, EventLogAssumption
  <2>5. QED
    BY <2>3, <2>4
<1>8. TypeOK'
  BY <1>2, <1>6 DEF WholeLog, TypeOK, CallTyped
<1>9. Typed'
  BY <1>2, <1>6, <1>7 DEF WholeLog, Typed, CallTyped
<1>10. ToldIsLast' /\ WalkIsAt'
  BY <1>2 DEF WholeLog, ToldIsLast, WalkIsAt, Successful, BeyondCursor
<1>11. LogInv'
  BY RequestStep DEF WholeLog
<1>12. QED
  BY <1>8, <1>9, <1>10, <1>11 DEF WholeLog

(* The rows a commit adds: a finite, non-empty set of rows with ids of     *)
(* their own, none of them given before, and room for all.                 *)
LEMMA NewRows ==
  ASSUME WholeLog, NEW c \in Calls, Commit(c)
  PROVE  /\ Rows(c) \subseteq Row /\ IsFiniteSet(Rows(c)) /\ Rows(c) # {} /\ Keyed(Rows(c))
         /\ \A r \in Rows(c) : nextId <= r.id /\ r.id < nextId'
         /\ \A r \in Rows(c) : Successful(r) => call[c].by = "device"
         /\ nextId' \in 1..MaxRows + 1 /\ nextId <= nextId'
         /\ IsFiniteSet(Uncommitted')
         /\ nextId' + Cardinality(Uncommitted') <= MaxRows + 1
<1> DEFINE q == call[c].rows
           n == Len(q)
           row == [i \in 1..n |-> [id |-> nextId + i - 1, at |-> q[i].at, kind |-> q[i].kind]]
<1>1. /\ call \in [Calls -> CallShape] /\ q \in Seq(RowShape) /\ Idle \in CallShape
      /\ now \in Nat /\ nextId \in 1..MaxRows + 1
      /\ IsFiniteSet(Uncommitted) /\ nextId + Cardinality(Uncommitted) <= MaxRows + 1
      /\ Len(Idle.rows) = 0
  BY IdleShape DEF WholeLog, LogInv, InFlight, TypeOK, Typed, CallShape, Idle
<1>2. n \in 1..2 /\ call' = [call EXCEPT ![c] = Idle] /\ nextId' = nextId + n
  BY DEF Commit, WholeLog, Typed
<1>3. DOMAIN q = 1..n /\ \A i \in 1..n : q[i].at \in Nat /\ q[i].kind \in Kinds
  <2>1. DOMAIN q = 1..n /\ \A i \in 1..n : q[i].at \in Int /\ q[i].kind \in Kinds
    BY <1>1, RowsOfSeq
  <2>2. \A i \in 1..n : q[i].at >= 0 /\ q[i].at <= now
    BY <2>1 DEF WholeLog, LogInv, InFlight, Typed
  <2> HIDE DEF n, q
  <2>3. QED
    BY <2>1, <2>2
<1>4. /\ IsFiniteSet(Uncommitted')
      /\ Cardinality(Uncommitted') = Cardinality(Uncommitted) - n
      /\ Cardinality(Uncommitted') \in Nat /\ Cardinality(Uncommitted) \in Nat
  BY <1>1, <1>2, UncommittedMoves, FS_CardinalityType
<1>5. /\ nextId' + Cardinality(Uncommitted') <= MaxRows + 1
      /\ nextId' \in 1..MaxRows + 1 /\ nextId <= nextId'
  <2> HIDE DEF n, q
  <2>1. n \in Int /\ nextId \in Int /\ MaxRows \in Int /\ nextId >= 1 /\ n >= 1
    BY <1>1, <1>2, EventLogAssumption
  <2>2. QED
    BY <1>1, <1>2, <1>4, <2>1
<1>6. Rows(c) = {row[i] : i \in 1..n}
  BY <1>3 DEF Rows
<1>7. \A i \in 1..n : /\ row[i] \in Row
                      /\ row[i].id = nextId + i - 1 /\ row[i].kind = q[i].kind
                      /\ nextId <= row[i].id /\ row[i].id < nextId'
  <2> SUFFICES ASSUME NEW i \in 1..n
               PROVE  /\ row[i] \in Row
                      /\ row[i].id = nextId + i - 1 /\ row[i].kind = q[i].kind
                      /\ nextId <= row[i].id /\ row[i].id < nextId'
    OBVIOUS
  <2>1. row[i] = [id |-> nextId + i - 1, at |-> q[i].at, kind |-> q[i].kind]
    OBVIOUS
  <2>2. /\ nextId + i - 1 \in 1..MaxRows /\ nextId <= nextId + i - 1
        /\ nextId + i - 1 < nextId'
    <3> HIDE DEF n, q, row
    <3>1. n \in Int /\ i \in Int /\ nextId \in Int /\ MaxRows \in Int
          /\ 1 <= i /\ i <= n /\ 1 <= nextId /\ nextId + n <= MaxRows + 1 /\ nextId' = nextId + n
      BY <1>1, <1>2, <1>5, EventLogAssumption
    <3>2. QED
      BY <3>1
  <2>3. QED
    BY <1>3, <2>1, <2>2, Zenon DEF Row
<1>8. IsFiniteSet(Rows(c)) /\ Rows(c) # {}
  <2>1. row \in Surjection(1..n, Rows(c))
    BY <1>6 DEF Surjection
  <2>a. \A m \in 1..2 : 1 \in Int /\ m \in Int /\ 1 \in 1..m
    OBVIOUS
  <2> HIDE DEF row, n
  <2>2. IsFiniteSet(1..n) /\ 1 \in 1..n
    BY <1>2, <2>a, FS_Interval
  <2>3. IsFiniteSet(Rows(c))
    BY <2>1, <2>2, FS_Surjection
  <2>4. QED
    BY <1>6, <2>2, <2>3
<1>9. Keyed(Rows(c))
  <2>1. \A i, j \in 1..n : row[i].id = row[j].id => i = j
    <3> SUFFICES ASSUME NEW i \in 1..n, NEW j \in 1..n, row[i].id = row[j].id PROVE i = j
      OBVIOUS
    <3>1. nextId + i - 1 = nextId + j - 1
      BY <1>7
    <3> HIDE DEF n, row
    <3>2. i \in Int /\ j \in Int /\ nextId \in Int
      BY <1>1, <1>2
    <3>3. QED
      BY <3>1, <3>2
  <2>2. \A r \in Row : r.id \in Int /\ r.at \in Int
    BY DEF Row
  <2> HIDE DEF n, row
  <2>3. QED
    BY <1>6, <1>7, <2>1, <2>2 DEF Keyed
<1>10. \A r \in Rows(c) : Successful(r) => call[c].by = "device"
  <2> SUFFICES ASSUME NEW i \in 1..n, Successful(row[i]) PROVE call[c].by = "device"
    BY <1>6
  <2>1. Successful(q[i]) /\ i \in DOMAIN q
    BY <1>3, <1>7 DEF Successful
  <2>2. QED
    BY <2>1 DEF WholeLog, LogInv, InFlight
<1> HIDE DEF q, n, row
<1>11. QED
  BY <1>4, <1>5, <1>6, <1>7, <1>8, <1>9, <1>10

(* A commit adds newer rows; a success among them is the new last one.    *)
LEMMA WholeCommit ==
  ASSUME WholeLog, NEW c \in Calls, Commit(c)
  PROVE  WholeLog'
<1> DEFINE done == {r \in Rows(c) : Successful(r)}
<1>1. /\ log' = log \cup Rows(c) /\ call' = [call EXCEPT ![c] = Idle]
      /\ device' = IF call[c].by = "device" THEN [seen |-> TRUE, ip |-> call[c].from] ELSE device
      /\ last' = IF call[c].says = Keep THEN last ELSE call[c].says
      /\ told' = IF done = {} THEN told ELSE Latest(done)
      /\ now' = now /\ walk' = walk /\ prune' = prune
  BY DEF Commit
<1>2. /\ Rows(c) \subseteq Row /\ IsFiniteSet(Rows(c)) /\ Keyed(Rows(c))
      /\ \A r \in Rows(c) : nextId <= r.id /\ r.id < nextId'
      /\ \A r \in Rows(c) : Successful(r) => call[c].by = "device"
      /\ nextId' \in 1..MaxRows + 1 /\ nextId <= nextId'
      /\ IsFiniteSet(Uncommitted')
      /\ nextId' + Cardinality(Uncommitted') <= MaxRows + 1
  BY NewRows
<1>3. /\ log \subseteq Row /\ IsFiniteSet(log) /\ nextId \in Int /\ nextId' \in Int
      /\ \A r, s \in log : r.id = s.id => r = s
      /\ \A r \in log : r.id < nextId
  BY <1>2 DEF WholeLog, TypeOK, Typed
<1>4. \A r \in Row : r.id \in Int /\ r.at \in Int /\ r # NULL
  BY EventLogAssumption DEF Row
<1>5. /\ log' \subseteq Row /\ IsFiniteSet(log')
      /\ \A r, s \in log' : r.id = s.id => r = s
      /\ \A r \in log' : r.id < nextId'
  <2>1. IsFiniteSet(log \cup Rows(c))
    BY <1>2, <1>3, FS_Union
  <2>2. \A r \in log, s \in Rows(c) : r.id # s.id
    <3>1. \A r \in log, s \in Rows(c) :
             r.id \in Int /\ s.id \in Int /\ r.id < nextId /\ nextId <= s.id
      BY <1>2, <1>3, <1>4
    <3>2. QED
      BY <1>3, <3>1
  <2>3. \A r \in log' : r.id < nextId'
    BY <1>1, <1>2, <1>3, <1>4
  <2>4. QED
    BY <1>1, <1>2, <1>3, <2>1, <2>2, <2>3, Zenon DEF Keyed
<1>6. done # {} => /\ told' \in done
                   /\ \A r \in done : r.id <= told'.id
  <2>1. IsFiniteSet(done) /\ Keyed(done)
    BY <1>2, FS_Subset DEF Keyed
  <2> HIDE DEF done
  <2>2. QED
    BY <1>1, <2>1, LatestIsThere
<1>7. /\ call' \in [Calls -> CallShape] /\ call'[c] = Idle
      /\ \A d \in Calls \ {c} : call'[d] = call[d]
  BY <1>1, IdleShape DEF WholeLog, LogInv, InFlight
<1>8. /\ device' \in [seen : BOOLEAN, ip : Address] /\ device'.seen = (device'.ip # NULL)
      /\ device.seen => device'.seen
      /\ call[c].by = "device" => device'.seen
  <2>1. CASE call[c].by = "device"
    <3>1. call[c].from \in Addresses
      BY <2>1 DEF WholeLog, Typed
    <3>2. QED
      BY <1>1, <2>1, <3>1, EventLogAssumption DEF Address
  <2>2. CASE call[c].by # "device"
    BY <1>1, <2>2 DEF WholeLog, TypeOK
  <2>3. QED
    BY <2>1, <2>2
<1>9. last' \in Address
  BY <1>1 DEF WholeLog, TypeOK
<1>10. \A d \in Calls : CallTyped(call'[d])
  <2>1. CallTyped(Idle)
    BY EventLogAssumption DEF CallTyped, Idle, Keep
  <2>2. \A d \in Calls : CallTyped(call[d])
    BY DEF WholeLog, TypeOK, Typed, CallTyped
  <2>3. QED
    BY <1>7, <2>1, <2>2
<1>11. TypeOK'
  <2>1. told' \in Row \cup {NULL}
    BY <1>1, <1>2, <1>6 DEF WholeLog, TypeOK
  <2>2. QED
    BY <1>1, <1>2, <1>5, <1>8, <1>9, <1>10, <2>1, Zenon DEF WholeLog, TypeOK, CallTyped
<1>12. Typed'
  BY <1>1, <1>2, <1>5, <1>10 DEF WholeLog, Typed, CallTyped
<1>13. ToldIsLast'
  <2>1. CASE done = {}
    <3>1. told' = told /\ \A r \in log' : Successful(r) => r \in log
      BY <1>1, <2>1
    <3>2. ASSUME told # NULL
          PROVE  /\ Successful(told) /\ told.id < nextId' /\ device'.seen
                 /\ told \notin log' => told.at < now - Retention
      <4>1. /\ Successful(told) /\ told.id < nextId /\ device.seen /\ told \in Row
            /\ told \notin log => told.at < now - Retention
        BY <3>2 DEF WholeLog, ToldIsLast, TypeOK
      <4>2. QED
        BY <1>1, <1>2, <1>3, <1>4, <1>8, <4>1
    <3>3. QED
      BY <1>1, <3>1, <3>2 DEF WholeLog, ToldIsLast, Successful
  <2>2. CASE done # {}
    <3>1. told' \in Rows(c) /\ Successful(told') /\ told' # NULL /\ told' \in log'
          /\ told'.id < nextId' /\ nextId <= told'.id /\ told'.id \in Int
      BY <1>1, <1>2, <1>4, <1>6, <2>2
    <3>2. device'.seen
      BY <1>2, <1>8, <3>1
    <3>3. ASSUME NEW r \in log', Successful(r) PROVE r.id <= told'.id
      <4>1. CASE r \in Rows(c)
        BY <1>6, <2>2, <3>3, <4>1
      <4>2. CASE r \in log
        BY <1>3, <1>4, <3>1, <4>2
      <4>3. QED
        BY <1>1, <4>1, <4>2
    <3>4. QED
      BY <3>1, <3>2, <3>3, Zenon DEF ToldIsLast, Successful
  <2>3. QED
    BY <2>1, <2>2
<1>14. WalkIsAt'
  <2> SUFFICES ASSUME walk.open PROVE WalkIsAt'
    BY <1>1 DEF WalkIsAt
  <2>1. /\ walk.cursor \in Cursors /\ walk.due \subseteq Row
        /\ \A r \in walk.shown : ~BeyondCursor(r, walk.cursor)
        /\ \A r \in walk.due : r.id < nextId
        /\ \A r \in walk.due \cap log : r \in walk.shown \/ BeyondCursor(r, walk.cursor)
    BY DEF WholeLog, WalkIsAt, TypeOK
  <2>2. \A r \in walk.due : r \notin Rows(c)
    BY <1>2, <1>3, <1>4, <2>1
  <2>3. \A r \in walk.due : r.id < nextId'
    BY <1>2, <1>3, <1>4, <2>1
  <2>4. QED
    BY <1>1, <2>1, <2>2, <2>3, Zenon DEF WalkIsAt, BeyondCursor
<1>15. LogInv'
  BY CommitStep DEF WholeLog
<1>16. QED
  BY <1>11, <1>12, <1>13, <1>14, <1>15 DEF WholeLog

(* A batch takes a success only with every older one, so the last goes     *)
(* last; and what goes has expired.                                        *)
LEMMA WholePrune ==
  ASSUME WholeLog, Prune
  PROVE  WholeLog'
<1> USE EventLogAssumption
<1>1. /\ log' \subseteq log /\ call' = call
      /\ UNCHANGED <<now, nextId, device, last, told, walk>>
  BY DEF Prune, PruneStart, PruneBatch, PruneCount, PruneFails, logVars
<1>2. log \subseteq Row /\ IsFiniteSet(log) /\ Keyed(log) /\ now \in Int
  BY DEF WholeLog, TypeOK, Typed, Keyed, Row
<1>3. IsFiniteSet(log')
  BY <1>1, <1>2, FS_Subset
<1>4. /\ prune' \in [pc : {"idle", "batch", "count"}, cutoff : Int, batches : 0..MaxBatches,
                     due : SUBSET Row, truncated : BOOLEAN]
      /\ prune'.pc = "batch" => prune'.batches < MaxBatches
  <2>0. /\ Resting.pc = "idle" /\ Resting.batches = 0
        /\ Resting \in [pc : {"idle", "batch", "count"}, cutoff : Int, batches : 0..MaxBatches,
                        due : SUBSET Row, truncated : BOOLEAN]
    <3>1. MaxBatches \in Nat /\ 0 < MaxBatches /\ 0 \in 0..MaxBatches
      OBVIOUS
    <3>2. QED
      BY <3>1 DEF Resting
  <2>1. CASE PruneStart
    <3>1. prune' = [Resting EXCEPT !.pc = "batch", !.cutoff = now - Retention,
                                   !.due = Expired(now - Retention)]
      BY <2>1 DEF PruneStart
    <3>2. now - Retention \in Int /\ 0 < MaxBatches /\ Expired(now - Retention) \in SUBSET Row
      BY <1>2 DEF Expired
    <3>3. prune'.batches = 0
      BY <2>0, <3>1
    <3>4. QED
      BY <2>0, <3>1, <3>2, <3>3
  <2>2. CASE PruneBatch
    <3> DEFINE batch == OldestFew(Expired(prune.cutoff), BatchSize)
               done == prune.batches + IF batch = {} THEN 0 ELSE 1
               short == Short(batch)
               full == ~short /\ done = MaxBatches
    <3>1. prune' = [prune EXCEPT !.pc = IF short \/ done = MaxBatches THEN "count" ELSE "batch",
                                 !.batches = done, !.due = @ \ batch, !.truncated = full]
      BY <2>2 DEF PruneBatch
    <3>2. /\ prune \in [pc : {"idle", "batch", "count"}, cutoff : Int, batches : 0..MaxBatches,
                        due : SUBSET Row, truncated : BOOLEAN]
          /\ prune.batches < MaxBatches
      BY <2>2 DEF PruneBatch, WholeLog, Typed
    <3> HIDE DEF batch
    <3>3. done \in 0..MaxBatches /\ (done # MaxBatches => done < MaxBatches)
      BY <3>2
    <3>4. full \in BOOLEAN /\ prune.due \ batch \in SUBSET Row
      BY <3>2
    <3> HIDE DEF done, short, full
    <3>5. QED
      BY <3>1, <3>2, <3>3, <3>4
  <2>3. CASE PruneCount \/ PruneFails
    BY <2>0, <2>3 DEF PruneCount, PruneFails
  <2>4. QED
    BY <2>1, <2>2, <2>3 DEF Prune
<1>5. TypeOK'
  BY <1>1, <1>4 DEF WholeLog, TypeOK
<1>6. Typed'
  BY <1>1, <1>3, <1>4 DEF WholeLog, Typed, Uncommitted
<1>7. ToldIsLast'
  <2>1. CASE log' = log
    BY <1>1, <2>1 DEF WholeLog, ToldIsLast, Successful
  <2>2. CASE PruneBatch
    <3> DEFINE old == Expired(prune.cutoff)
               batch == OldestFew(old, BatchSize)
    <3>1. log' = log \ batch /\ prune.cutoff \in Int /\ prune.cutoff <= now - Retention
      BY <2>2 DEF PruneBatch, WholeLog, LogInv, CutoffIsPast
    <3>2. old \subseteq log /\ IsFiniteSet(old) /\ Keyed(old)
          /\ \A r \in old : r.at < prune.cutoff
      BY <1>2, FS_Subset DEF Expired, Keyed
    <3>3. /\ batch \subseteq old
          /\ \A r \in batch, s \in old : Older(s, r) => s \in batch
      BY <3>2, BatchIsOldest
    <3>4. ASSUME told # NULL, told \in batch
          PROVE  told.at < now - Retention /\ \A r \in log : Successful(r) => r \in batch
      <4>1. told \in log /\ told.at < prune.cutoff /\ Successful(told)
        BY <3>2, <3>3, <3>4 DEF WholeLog, ToldIsLast
      <4>2. told.at < now - Retention
        BY <1>2, <3>1, <4>1 DEF Keyed
      <4>3. ASSUME NEW r \in log, Successful(r), r # told PROVE r \in batch
        <5>1. r.id <= told.id
          BY <4>3 DEF WholeLog, ToldIsLast
        <5>2. r.id < told.id
          BY <1>2, <4>1, <4>3, <5>1 DEF Keyed
        <5>3. r.at <= told.at
          BY <4>1, <4>3, <5>2 DEF WholeLog, LogInv, LatestIsLast
        <5>4. r \in old /\ Older(r, told)
          BY <1>2, <3>1, <4>1, <5>2, <5>3 DEF Expired, Older, Keyed
        <5>5. QED
          BY <3>3, <3>4, <5>4
      <4>4. QED
        BY <3>4, <4>2, <4>3
    <3> HIDE DEF old, batch
    <3>5. CASE told # NULL /\ told \in batch
      <4>1. /\ Successful(told) /\ told.id < nextId /\ device.seen
            /\ \A r \in log' : ~Successful(r)
        BY <3>1, <3>4, <3>5 DEF WholeLog, ToldIsLast
      <4>2. told.at < now - Retention
        BY <3>4, <3>5
      <4>3. QED
        BY <1>1, <4>1, <4>2 DEF ToldIsLast, Successful
    <3>6. CASE told = NULL \/ told \notin batch
      BY <1>1, <3>1, <3>6 DEF WholeLog, ToldIsLast, Successful
    <3>7. QED
      BY <3>5, <3>6
  <2>3. QED
    BY <2>1, <2>2 DEF Prune, PruneStart, PruneCount, PruneFails, logVars
<1>8. WalkIsAt'
  BY <1>1, Zenon DEF WholeLog, WalkIsAt, BeyondCursor
<1>9. LogInv'
  BY PruneStep DEF WholeLog
<1>10. QED
  BY <1>5, <1>6, <1>7, <1>8, <1>9 DEF WholeLog

(* Time passes: what has expired stays expired.                           *)
LEMMA WholeTick ==
  ASSUME WholeLog, Tick
  PROVE  WholeLog'
<1> USE EventLogAssumption
<1>1. /\ now' \in Instants /\ now < now'
      /\ UNCHANGED <<log, nextId, device, last, told, call, walk, prune>>
  BY DEF Tick, logVars
<1>2. now \in Nat
  BY DEF WholeLog, TypeOK
<1>3. now' \in Nat
  BY <1>1, <1>2
<1>4. TypeOK'
  BY <1>1, <1>3 DEF WholeLog, TypeOK
<1>5. Typed'
  BY <1>1 DEF WholeLog, Typed, Uncommitted
<1>6. ToldIsLast'
  <2>1. told # NULL => told.at \in Int
    BY DEF WholeLog, TypeOK, Row
  <2>2. told # NULL /\ told \notin log => told.at < now' - Retention
    BY <1>1, <1>2, <1>3, <2>1 DEF WholeLog, ToldIsLast
  <2>3. QED
    BY <1>1, <2>2 DEF WholeLog, ToldIsLast, Successful
<1>7. WalkIsAt'
  BY <1>1, Zenon DEF WholeLog, WalkIsAt, BeyondCursor
<1>8. LogInv'
  <2>1. [Next]_vars
    BY DEF Next, Write
  <2>2. QED
    BY <2>1, LogStep DEF WholeLog
<1>9. QED
  BY <1>4, <1>5, <1>6, <1>7, <1>8 DEF WholeLog

(* A page that is not the last: its cursor is its oldest row, which lies   *)
(* beyond the cursor it was asked for, and splits what was found.          *)
LEMMA PageTells ==
  ASSUME WholeLog, NEW w, w.cursor \in Cursors \cup {NULL}
  PROVE  LET found == {r \in log : BeyondCursor(r, w.cursor)}
             next == Page(w).next
         IN  /\ Page(w).rows \subseteq found
             /\ next = NULL => Page(w).rows = found
             /\ next # NULL =>
                  /\ next \in Cursors
                  /\ \A r \in Page(w).rows : ~BeyondCursor(r, next)
                  /\ \A r \in found \ Page(w).rows : BeyondCursor(r, next)
                  /\ \A r \in Row : BeyondCursor(r, next) => BeyondCursor(r, w.cursor)
<1> DEFINE found == {r \in log : BeyondCursor(r, w.cursor)}
           rows == Newest(found, PageSize)
           o == Oldest(rows)
           cursor == [at |-> o.at, id |-> o.id]
           next == Page(w).next
<1>1. Page(w).rows = rows /\ next = IF Cardinality(found) > PageSize THEN cursor ELSE NULL
  BY DEF Page
<1>2. /\ found \subseteq log /\ log \subseteq Row /\ IsFiniteSet(found) /\ Keyed(found)
      /\ PageSize \in Nat \ {0}
  BY EventLogAssumption, FS_Subset DEF WholeLog, TypeOK, Typed, Keyed, Row
<1>3. /\ rows \subseteq found
      /\ Cardinality(found) <= PageSize => rows = found
      /\ found # {} => /\ o \in rows
                       /\ \A r \in rows : r # o => Older(o, r)
                       /\ \A r \in found \ rows : Older(r, o)
  BY <1>2, PageIsNewest
<1>4. Cardinality(found) \in Nat /\ (Cardinality(found) > PageSize => found # {})
  BY <1>2, FS_CardinalityType, FS_EmptySet
<1>5. ASSUME found # {}
      PROVE  /\ o \in found /\ o \in Row /\ cursor \in Cursors /\ cursor # NULL
             /\ cursor.at = o.at /\ cursor.id = o.id
  BY <1>2, <1>3, <1>5, EventLogAssumption DEF Row, Cursors
<1> HIDE DEF found, rows, o, cursor, next
<1>6. ASSUME found # {}, NEW r \in Row
      PROVE  BeyondCursor(r, cursor) <=> Older(r, o)
  <2>1. r.id \in Int /\ r.at \in Int /\ o.id \in Int /\ o.at \in Int
    BY <1>5, <1>6 DEF Row
  <2>2. QED
    BY <1>5, <1>6, <2>1 DEF BeyondCursor, Older
<1>7. ASSUME next = NULL PROVE rows = found
  <2>1. ~(Cardinality(found) > PageSize)
    BY <1>1, <1>4, <1>5, <1>7
  <2>2. QED
    BY <1>2, <1>3, <1>4, <2>1
<1>8. ASSUME next # NULL
      PROVE  /\ next \in Cursors
             /\ \A r \in rows : ~BeyondCursor(r, next)
             /\ \A r \in found \ rows : BeyondCursor(r, next)
             /\ \A r \in Row : BeyondCursor(r, next) => BeyondCursor(r, w.cursor)
  <2>1. next = cursor /\ found # {}
    BY <1>1, <1>4, <1>8
  <2>2. \A r \in rows : ~Older(r, o)
    <3> SUFFICES ASSUME NEW r \in rows, Older(r, o) PROVE FALSE
      OBVIOUS
    <3>1. r \in found /\ o \in found
      BY <1>3, <1>5, <2>1
    <3>2. CASE r = o
      BY <1>2, <3>1, <3>2, OlderOrders
    <3>3. CASE r # o
      <4>1. Older(o, r)
        BY <1>3, <2>1, <3>3
      <4>2. QED
        BY <1>2, <3>1, <4>1, OlderOrders
    <3>4. QED
      BY <3>2, <3>3
  <2>3. \A r \in rows : r \in Row
    BY <1>2, <1>3
  <2>4. \A r \in found \ rows : r \in Row /\ Older(r, o)
    BY <1>2, <1>3, <2>1
  <2>5. ASSUME NEW r \in Row, Older(r, o) PROVE BeyondCursor(r, w.cursor)
    <3>1. BeyondCursor(o, w.cursor)
      BY <1>5, <2>1 DEF found
    <3>2. CASE w.cursor = NULL
      BY <3>2 DEF BeyondCursor
    <3>3. CASE w.cursor # NULL
      <4>1. /\ r.id \in Int /\ r.at \in Int /\ o.id \in Int /\ o.at \in Int
            /\ w.cursor.id \in Int /\ w.cursor.at \in Int
        BY <1>5, <2>1, <3>3 DEF Row, Cursors
      <4>2. QED
        BY <2>5, <3>1, <3>3, <4>1 DEF BeyondCursor, Older
    <3>4. QED
      BY <3>2, <3>3
  <2>6. QED
    BY <1>5, <1>6, <2>1, <2>2, <2>3, <2>4, <2>5
<1>9. QED
  BY <1>1, <1>3, <1>7, <1>8 DEF found, next

(* A turn of the walk owes what its page leaves out and shows the rest.   *)
LEMMA TurnStep ==
  ASSUME WholeLog, NEW w \in [open : BOOLEAN, cursor : Cursors \cup {NULL}, due : SUBSET Row,
                              shown : SUBSET Row],
         w.open, Turn(w), UNCHANGED <<now, logVars, call, prune>>,
         \A r \in w.shown : ~BeyondCursor(r, w.cursor),
         \A r \in w.due : r.id < nextId,
         \A r \in w.due \cap log : r \in w.shown \/ BeyondCursor(r, w.cursor)
  PROVE  WholeLog'
<1> DEFINE found == {r \in log : BeyondCursor(r, w.cursor)}
           next == Page(w).next
           rows == Page(w).rows
<1>1. /\ rows \subseteq found /\ found \subseteq Row
      /\ next # NULL =>
           /\ next \in Cursors
           /\ \A r \in rows : ~BeyondCursor(r, next)
           /\ \A r \in found \ rows : BeyondCursor(r, next)
           /\ \A r \in Row : BeyondCursor(r, next) => BeyondCursor(r, w.cursor)
  BY PageTells DEF WholeLog, TypeOK
<1>2. walk' = IF next = NULL THEN Closed ELSE [w EXCEPT !.cursor = next, !.shown = @ \cup rows]
  BY DEF Turn
<1>3. UNCHANGED <<now, log, nextId, device, last, told, call, prune>>
  BY DEF logVars
<1>4. \A r \in log : r \in found <=> BeyondCursor(r, w.cursor)
  OBVIOUS
<1> HIDE DEF found, next, rows
<1>5. walk' \in [open : BOOLEAN, cursor : Cursors \cup {NULL}, due : SUBSET Row,
                 shown : SUBSET Row]
  BY <1>1, <1>2 DEF Closed
<1>6. WalkIsAt'
  <2>1. CASE next = NULL
    BY <1>2, <2>1 DEF WalkIsAt, Closed
  <2>2. CASE next # NULL
    <3>1. walk'.cursor = next /\ walk'.shown = w.shown \cup rows /\ walk'.due = w.due
      BY <1>2, <2>2
    <3>2. \A r \in w.shown : r \in Row
      OBVIOUS
    <3>3. \A r \in walk'.shown : ~BeyondCursor(r, next)
      BY <1>1, <2>2, <3>1, <3>2
    <3>4. \A r \in w.due \cap log : r \in w.shown \cup rows \/ BeyondCursor(r, next)
      BY <1>1, <1>4, <2>2
    <3>5. QED
      BY <1>1, <1>3, <2>2, <3>1, <3>3, <3>4, Zenon DEF WalkIsAt, BeyondCursor
  <2>3. QED
    BY <2>1, <2>2
<1>7. TypeOK'
  BY <1>3, <1>5 DEF WholeLog, TypeOK
<1>8. Typed'
  BY <1>3, <1>5 DEF WholeLog, Typed, Uncommitted
<1>9. ToldIsLast'
  BY <1>3 DEF WholeLog, ToldIsLast, Successful
<1>10. LogInv'
  BY <1>3 DEF WholeLog, LogInv, Recorded, InFlight, HolderIsLast, LatestIsLast, CutoffIsPast,
              Successful
<1>11. QED
  BY <1>6, <1>7, <1>8, <1>9, <1>10 DEF WholeLog

(* Opening the log, the next page and leaving it.                         *)
LEMMA WholeRead ==
  ASSUME WholeLog, Read \/ UNCHANGED vars
  PROVE  WholeLog'
<1>0. /\ walk \in [open : BOOLEAN, cursor : Cursors \cup {NULL}, due : SUBSET Row,
                   shown : SUBSET Row]
      /\ log \subseteq Row /\ \A r \in log : r.id < nextId
  BY DEF WholeLog, TypeOK, Typed
<1>1. CASE OpenLog
  <2> DEFINE w == [Closed EXCEPT !.open = TRUE, !.due = log]
  <2>1. /\ w \in [open : BOOLEAN, cursor : Cursors \cup {NULL}, due : SUBSET Row,
                  shown : SUBSET Row]
        /\ w.open /\ w.shown = {} /\ w.due = log /\ w.cursor = NULL
    BY <1>0 DEF Closed
  <2>2. Turn(w) /\ UNCHANGED <<now, logVars, call, prune>>
    BY <1>1 DEF OpenLog
  <2> HIDE DEF w
  <2>3. \A r \in w.due : BeyondCursor(r, w.cursor)
    BY <2>1 DEF BeyondCursor
  <2>4. QED
    BY <1>0, <2>1, <2>2, <2>3, TurnStep
<1>2. CASE NextPage
  <2>1. walk.open /\ Turn(walk) /\ UNCHANGED <<now, logVars, call, prune>>
    BY <1>2 DEF NextPage
  <2>2. /\ \A r \in walk.shown : ~BeyondCursor(r, walk.cursor)
        /\ \A r \in walk.due : r.id < nextId
        /\ \A r \in walk.due \cap log : r \in walk.shown \/ BeyondCursor(r, walk.cursor)
    BY <2>1 DEF WholeLog, WalkIsAt
  <2>3. QED
    BY <1>0, <2>1, <2>2, TurnStep
<1>3. CASE LeaveLog \/ UNCHANGED vars
  <2>1. /\ walk' \in [open : BOOLEAN, cursor : Cursors \cup {NULL}, due : SUBSET Row,
                      shown : SUBSET Row]
        /\ walk'.open => walk' = walk
        /\ UNCHANGED <<now, log, nextId, device, last, told, call, prune>>
    <3>1. /\ walk' = Closed \/ walk' = walk
          /\ UNCHANGED <<now, log, nextId, device, last, told, call, prune>>
      BY <1>3 DEF LeaveLog, vars, logVars
    <3>2. /\ ~Closed.open
          /\ Closed \in [open : BOOLEAN, cursor : Cursors \cup {NULL}, due : SUBSET Row,
                         shown : SUBSET Row]
      BY DEF Closed
    <3>3. QED
      BY <1>0, <3>1, <3>2
  <2>2. TypeOK'
    BY <2>1 DEF WholeLog, TypeOK
  <2>3. Typed'
    BY <2>1 DEF WholeLog, Typed, Uncommitted
  <2>4. ToldIsLast'
    BY <2>1 DEF WholeLog, ToldIsLast, Successful
  <2>5. LogInv'
    BY <2>1 DEF WholeLog, LogInv, Recorded, InFlight, HolderIsLast, LatestIsLast, CutoffIsPast,
                Successful
  <2>6. WalkIsAt'
    BY <2>1, Zenon DEF WholeLog, WalkIsAt, BeyondCursor
  <2>7. QED
    BY <2>2, <2>3, <2>4, <2>5, <2>6 DEF WholeLog
<1>4. QED
  BY <1>1, <1>2, <1>3 DEF Read

LEMMA WholeStep ==
  ASSUME WholeLog, [Next]_vars
  PROVE  WholeLog'
<1>1. QED
  BY WholeRequest, WholeCommit, WholePrune, WholeTick, WholeRead DEF Next, Write

LEMMA LogInvariant == Spec => []LogInv
<1>1. QED
  BY InitLogInv, LogStep, PTL DEF Spec

(* The board is a reader: whatever it does, the log does or stutters.      *)
LEMMA BoardStep ==
  ASSUME [BoardNext]_boardVars
  PROVE  [Next]_vars
<1>1. QED
  BY DEF BoardNext, Look, ReadDevices, ReadNames, ReadEvents, ReadStatuses, ReadWindow, Next,
         boardVars

(* The board's specification implements the log's: reading the board       *)
(* changes nothing of what get_board reads.                                *)
THEOREM BoardOnlyReads == BoardSpec => Spec
<1>1. BoardInit => Init
  BY DEF BoardInit
<1>2. QED
  BY <1>1, BoardStep, PTL DEF BoardSpec, Spec

(* For any number of calls: the newest id among a device's successful      *)
(* updates is the last of them, which is what the board's                  *)
(* _latest_successful_updates takes it for.                                *)
THEOREM NewestIdIsTheLast == BoardSpec => []LatestIsLast
<1>1. LogInv => LatestIsLast
  BY DEF LogInv
<1>2. QED
  BY <1>1, LogInvariant, BoardOnlyReads, PTL

(* For any retention and batch size: no step removes a row of the log that *)
(* event_retention_days still covers.                                      *)
THEOREM RetentionIsKept == BoardSpec => PruneSparesTheRetained
<1>1. ASSUME LogInv, [Next]_vars
      PROVE  [\A r \in log \ log' : r.at < now - Retention]_vars
  <2> SUFFICES ASSUME NEW r \in log \ log', Next
               PROVE  r.at < now - Retention
    BY <1>1
  <2>1. CASE PruneBatch
    <3>1. r \in Expired(prune.cutoff)
      BY <2>1 DEF PruneBatch, OldestFew
    <3>2. r.at < prune.cutoff /\ prune.cutoff <= now - Retention /\ prune.cutoff \in Int
      BY <3>1, <2>1, <1>1 DEF Expired, PruneBatch, LogInv, CutoffIsPast
    <3>3. QED
      BY <3>2, <1>1, EventLogAssumption DEF LogInv, Recorded
  <2>2. CASE ~PruneBatch
    BY <2>2 DEF Next, Write, Read, Request, Unauthorised, Press, Admit, Answer, Adopt, Commit,
                Fail, Prune, PruneStart, PruneCount, PruneFails, Tick, OpenLog, NextPage, LeaveLog,
                logVars
  <2>3. QED
    BY <2>1, <2>2
<1>2. QED
  BY <1>1, LogInvariant, BoardOnlyReads, PTL DEF Spec, PruneSparesTheRetained

LEMMA WholeInvariant == BoardSpec => []WholeLog
<1>1. BoardInit => Init
  BY DEF BoardInit
<1>2. QED
  BY <1>1, InitWhole, WholeStep, BoardStep, PTL DEF BoardSpec

(* For any number of calls, rows and ticks: every variable keeps its type, *)
(* the ids of what is recorded and not yet committed included, and no two  *)
(* rows share an id.                                                       *)
THEOREM LogTypeCorrect == BoardSpec => []TypeOK
<1>1. WholeLog => TypeOK
  BY DEF WholeLog
<1>2. QED
  BY <1>1, WholeInvariant, PTL

(* For any page size, and whatever is committed and pruned between the     *)
(* pages of /events: no row is shown on two of them.                       *)
THEOREM PagesAreApart == BoardSpec => ShowsNothingTwice
<1>1. ASSUME WholeLog, NextPage
      PROVE  Page(walk).rows \cap walk.shown = {}
  <2>1. /\ walk.cursor \in Cursors
        /\ \A r \in walk.shown : ~BeyondCursor(r, walk.cursor)
    BY <1>1 DEF NextPage, WholeLog, WalkIsAt
  <2>2. \A r \in Page(walk).rows : BeyondCursor(r, walk.cursor)
    BY <1>1, <2>1, PageTells
  <2>3. QED
    BY <2>1, <2>2
<1>2. QED
  BY <1>1, WholeInvariant, PTL DEF ShowsNothingTwice

(* For any page size: a walk that reaches its last page has shown every    *)
(* row that was in the log when it began and still is.                     *)
THEOREM WalksMissNothing == BoardSpec => MissesNothing
<1>1. ASSUME WholeLog, NextPage, Page(walk).next = NULL
      PROVE  walk.due \cap log \subseteq walk.shown \cup Page(walk).rows
  <2>1. /\ walk.cursor \in Cursors
        /\ \A r \in walk.due \cap log : r \in walk.shown \/ BeyondCursor(r, walk.cursor)
    BY <1>1 DEF NextPage, WholeLog, WalkIsAt
  <2>2. Page(walk).rows = {r \in log : BeyondCursor(r, walk.cursor)}
    BY <1>1, <2>1, PageTells
  <2>3. QED
    BY <2>1, <2>2
<1>2. QED
  BY <1>1, WholeInvariant, PTL DEF MissesNothing

(* What a run still owes is behind its cutoff and in the log, and once its  *)
(* batches have ended without running out it owes nothing.                 *)
PruneIsAt ==
  /\ prune.pc = "batch" => prune.due \subseteq Expired(prune.cutoff)
  /\ prune.pc = "count" /\ ~prune.truncated => prune.due = {}

LEMMA PruneMoves ==
  ASSUME WholeLog, PruneIsAt, [Next]_vars
  PROVE  PruneIsAt'
<1>1. ASSUME prune' = prune, log \subseteq log' PROVE PruneIsAt'
  BY <1>1 DEF PruneIsAt, Expired
<1>2. CASE PruneStart
  <2>1. /\ log' = log
        /\ prune' = [Resting EXCEPT !.pc = "batch", !.cutoff = now - Retention,
                                    !.due = Expired(now - Retention)]
    BY <1>2 DEF PruneStart, logVars
  <2>2. prune'.pc = "batch" /\ prune'.cutoff = now - Retention
        /\ prune'.due = Expired(now - Retention)
    BY <2>1 DEF Resting
  <2>3. QED
    BY <2>1, <2>2 DEF PruneIsAt, Expired
<1>3. CASE PruneBatch
  <2> DEFINE old == Expired(prune.cutoff)
             batch == OldestFew(old, BatchSize)
  <2>1. /\ log' = log \ batch /\ prune.due \subseteq old
        /\ prune'.due = prune.due \ batch /\ prune'.cutoff = prune.cutoff
        /\ prune'.pc = "count" /\ ~prune'.truncated => Short(batch)
    BY <1>3 DEF PruneBatch, PruneIsAt, WholeLog, Typed
  <2>2. IsFiniteSet(old) /\ Keyed(old) /\ BatchSize \in Nat
    BY EventLogAssumption, FS_Subset DEF Expired, WholeLog, TypeOK, Typed, Keyed, Row
  <2>3. Short(batch) => batch = old
    BY <2>2, BatchIsOldest DEF Short
  <2> HIDE DEF batch
  <2>4. QED
    BY <2>1, <2>3 DEF PruneIsAt, Expired
<1>4. CASE PruneCount \/ PruneFails
  BY <1>4 DEF PruneCount, PruneFails, Resting, PruneIsAt
<1>5. ASSUME NEW c \in Calls, Request(c) PROVE PruneIsAt'
  <2>1. prune' = prune /\ log \subseteq log'
    BY <1>5 DEF Request, Unauthorised, Press, Admit, Answer, Adopt, Commit, Fail, logVars
  <2>2. QED
    BY <1>1, <2>1
<1>6. CASE Tick \/ Read \/ UNCHANGED vars
  BY <1>1, <1>6 DEF Tick, Read, OpenLog, NextPage, LeaveLog, logVars, vars
<1>7. QED
  BY <1>2, <1>3, <1>4, <1>5, <1>6 DEF Next, Write, Prune

(* For any batch size and number of batches, and whatever is committed     *)
(* between two of them: a prune that stops short of its limit has removed  *)
(* every row that was expired when it began.                               *)
THEOREM PrunesFinish == BoardSpec => PruneLeavesNothingDue
<1>1. BoardInit => PruneIsAt
  BY DEF BoardInit, Init, Resting, PruneIsAt
<1>2. PruneIsAt => [PruneCount /\ ~prune.truncated => prune.due \cap log = {}]_vars
  BY DEF PruneIsAt, PruneCount
<1>3. QED
  BY <1>1, <1>2, PruneMoves, WholeInvariant, BoardStep, PTL DEF BoardSpec, PruneLeavesNothingDue

-----------------------------------------------------------------------------
(* The board. *)

(* The success with the newest id is the last one told, if it is there.    *)
LEMMA HabitIsTold ==
  ASSUME WholeLog
  PROVE  /\ LatestSuccess \in {"unknown", "own", "declared"}
         /\ LatestSuccess # "unknown" => told # NULL /\ told.kind = LatestSuccess
         /\ told # NULL /\ told \in log => LatestSuccess = told.kind
<1> DEFINE found == {r \in log : Successful(r)}
<1>1. CASE found = {}
  BY <1>1 DEF LatestSuccess, WholeLog, ToldIsLast
<1>2. CASE found # {}
  <2>1. IsFiniteSet(found) /\ Keyed(found) /\ found \subseteq log
    BY FS_Subset DEF WholeLog, TypeOK, Typed, Keyed, Row
  <2>2. told # NULL /\ told \in found /\ \A r \in found : r.id <= told.id
    BY <1>2 DEF WholeLog, ToldIsLast
  <2>3. Latest(found) \in found /\ \A r \in found : r.id <= Latest(found).id
    BY <1>2, <2>1, LatestIsThere
  <2>4. LatestSuccess = Latest(found).kind
    BY <1>2 DEF LatestSuccess
  <2> HIDE DEF found
  <2>5. Latest(found).id = told.id
    BY <2>1, <2>2, <2>3 DEF Keyed
  <2>6. Latest(found) = told
    BY <2>1, <2>2, <2>3, <2>5 DEF Keyed
  <2>7. told.kind \in {"own", "declared"}
    BY <2>2 DEF found, Successful
  <2>8. QED
    BY <2>2, <2>4, <2>6, <2>7
<1>3. QED
  BY <1>1, <1>2

(* The newest row is as new as any failure since the last success, and so  *)
(* it is none itself.                                                      *)
LEMMA NewestIsNoSuccess ==
  ASSUME WholeLog, Failures # {}
  PROVE  log # {} /\ Latest(log).kind \in {"failed", "byhand"}
<1>1. PICK f \in log : f.kind = "failed" /\ (told # NULL => told.id < f.id)
  BY DEF Failures
<1>2. IsFiniteSet(log) /\ Keyed(log) /\ log \subseteq Row
  BY DEF WholeLog, TypeOK, Typed, Keyed, Row
<1>3. Latest(log) \in log /\ f.id <= Latest(log).id
  BY <1>2, LatestIsThere
<1>4. ~Successful(Latest(log))
  <2> SUFFICES ASSUME Successful(Latest(log)) PROVE FALSE
    OBVIOUS
  <2>1. told # NULL /\ told \in log /\ Latest(log).id <= told.id
    BY <1>3 DEF WholeLog, ToldIsLast
  <2>2. told.id \in Int /\ f.id \in Int /\ Latest(log).id \in Int
    BY <1>2, <1>3, <2>1 DEF Keyed
  <2>3. QED
    BY <1>1, <1>3, <2>1, <2>2
<1>5. Latest(log).kind \in Kinds
  BY <1>2, <1>3 DEF Row
<1>6. QED
  BY <1>1, <1>4, <1>5 DEF Successful, Kinds

(* A step that commits nothing leaves what a board has read as it was.     *)
LEMMA BoardStays ==
  ASSUME BoardIsCurrent, UNCHANGED <<device, last, told, board>>, log' \subseteq log,
         now \in Int, now' \in Int, now <= now'
  PROVE  BoardIsCurrent'
<1>1. Failures' \subseteq Failures
  BY DEF Failures
<1>2. board.pc = "window" => board.since \in Int /\ board.since <= now' - IdleWindow
  BY BoardAssumption DEF BoardIsCurrent
<1>3. board.pc = "window" => (Failures' # {} => board.newest \in {"failed", "byhand"})
  BY <1>1 DEF BoardIsCurrent
<1>4. board.pc \in {"statuses", "window"} =>
         /\ board.habit \in {"unknown", "own", "declared"}
         /\ board.habit # "unknown" => told # NULL /\ told.kind = board.habit
         /\ told # NULL /\ told \in log' => board.habit = told.kind
  BY DEF BoardIsCurrent
<1> HIDE DEF Failures
<1>5. QED
  BY <1>2, <1>3, <1>4 DEF BoardIsCurrent

(* A board's reading stays true of the log until a commit races it.       *)
LEMMA BoardMoves ==
  ASSUME WholeLog, BoardIsCurrent, [BoardNext]_boardVars
  PROVE  BoardIsCurrent'
<1>1. now \in Int /\ now' \in Int
  <2>1. WholeLog'
    BY WholeStep, BoardStep
  <2>2. QED
    BY <2>1 DEF WholeLog, TypeOK
<1>2. ASSUME board' = Away PROVE BoardIsCurrent'
  BY <1>2 DEF BoardIsCurrent, Away
<1>3. ASSUME UNCHANGED boardVars PROVE BoardIsCurrent'
  BY <1>1, <1>3, BoardStays DEF boardVars, vars, logVars
<1>4. ASSUME Write, GivenUpIfRaced PROVE BoardIsCurrent'
  <2>1. CASE board' = board /\ log' \subseteq log
    <3>1. UNCHANGED <<device, last, told>> /\ now <= now'
      <4>1. ASSUME NEW c \in Calls, Request(c) PROVE UNCHANGED <<device, last, told, now>>
        <5>1. ~Commit(c)
          <6> SUFFICES ASSUME Commit(c) PROVE FALSE
            OBVIOUS
          <6>1. PICK r \in Rows(c) : nextId <= r.id /\ r \in Row
            BY NewRows DEF WholeLog
          <6>2. r \in log
            BY <2>1, <6>1 DEF Commit
          <6>3. r.id < nextId /\ nextId \in Int /\ r.id \in Int
            BY <6>1, <6>2 DEF WholeLog, TypeOK, Row
          <6>4. QED
            BY <6>1, <6>3
        <5>2. QED
          BY <4>1, <5>1 DEF Request, Unauthorised, Press, Admit, Answer, Adopt, Fail, logVars
      <4>2. CASE Prune
        BY <1>1, <4>2 DEF Prune, PruneStart, PruneBatch, PruneCount, PruneFails, logVars
      <4>3. CASE Tick
        BY <1>1, <4>3 DEF Tick, logVars
      <4>4. QED
        BY <1>1, <1>4, <4>1, <4>2, <4>3 DEF Write
    <3>2. QED
      BY <1>1, <2>1, <3>1, BoardStays
  <2>2. QED
    BY <1>2, <1>4, <2>1 DEF GivenUpIfRaced
<1>5. ASSUME Read, board = Away, UNCHANGED board PROVE BoardIsCurrent'
  BY <1>2, <1>5
<1>6. CASE Look
  <2> USE DEF BoardIsCurrent
  <2>0. CASE ReadDevices
    BY <2>0 DEF ReadDevices, Away, vars, logVars
  <2>1. CASE ReadNames
    BY <2>1 DEF ReadNames, vars, logVars
  <2>2. CASE ReadEvents
    <3>1. /\ board.pc = "events" /\ UNCHANGED <<device, last, told, log>>
          /\ board' = [board EXCEPT !.pc = "statuses", !.habit = LatestSuccess]
      BY <2>2 DEF ReadEvents, vars, logVars
    <3>2. QED
      BY <3>1, HabitIsTold
  <2>3. CASE ReadStatuses
    <3>1. /\ board.pc = "statuses" /\ UNCHANGED <<now, device, last, told, log>>
          /\ board' = [board EXCEPT !.pc = "window", !.since = now - IdleWindow,
                                   !.newest = IF log = {} THEN "none" ELSE Latest(log).kind]
      BY <2>3 DEF ReadStatuses, vars, logVars
    <3>2. Failures' = Failures
      BY <3>1 DEF Failures
    <3>3. board'.since = now - IdleWindow /\ now - IdleWindow \in Int
      BY <1>1, <3>1, BoardAssumption DEF Away
    <3>4. Failures # {} => board'.newest \in {"failed", "byhand"}
      BY <3>1, NewestIsNoSuccess
    <3> HIDE DEF Failures
    <3>5. QED
      BY <1>1, <3>1, <3>2, <3>3, <3>4
  <2>4. CASE ReadWindow
    BY <1>2, <2>4 DEF ReadWindow
  <2>5. QED
    BY <1>6, <2>0, <2>1, <2>2, <2>3, <2>4 DEF Look
<1>7. QED
  BY <1>3, <1>4, <1>5, <1>6 DEF BoardNext

LEMMA BoardInvariant == BoardSpec => []BoardIsCurrent
<1>1. BoardInit => BoardIsCurrent
  BY DEF BoardInit, BoardIsCurrent, Away
<1>2. QED
  BY <1>1, BoardMoves, WholeInvariant, PTL DEF BoardSpec

(* For any interleaving of calls, hands and prunes: a board that no commit *)
(* raced says diverged of a name only if the device calls from another     *)
(* address than the published one and publishes what it calls from, and    *)
(* it does say so as long as the row that tells of the habit is there.     *)
THEOREM DivergedIsSo == BoardSpec => LowerJointIsReal
<1>1. ASSUME WholeLog, BoardIsCurrent, ReadWindow
      PROVE  LET strays == told # NULL /\ told.kind = "own" /\ last # NULL /\ last # device.ip
             IN /\ LowerJoint = "diverged" => strays
                /\ strays /\ told \in log => LowerJoint = "diverged"
  <2>1. /\ board.device = device /\ board.last = last
        /\ board.habit # "unknown" => told # NULL /\ told.kind = board.habit
        /\ told # NULL /\ told \in log => board.habit = told.kind
    BY <1>1 DEF ReadWindow, BoardIsCurrent
  <2>2. told # NULL => device.ip # NULL
    BY <1>1 DEF WholeLog, ToldIsLast, TypeOK
  <2>3. QED
    BY <2>1, <2>2 DEF LowerJoint
<1>2. QED
  BY <1>1, WholeInvariant, BoardInvariant, PTL DEF LowerJointIsReal

(* For any idle window and any retention, the shorter of the two           *)
(* whichever: never seen is never admitted, idle is no success inside the  *)
(* window but one that the retention no longer covered and a prune took,   *)
(* and a failure since the last success hides behind idle or active only   *)
(* if a hand has published since.                                          *)
THEOREM LivenessIsSo == BoardSpec => LivenessIsHonest
<1>1. ASSUME WholeLog, BoardIsCurrent, ReadWindow
      PROVE  /\ (Liveness = "never_seen") = ~device.seen
             /\ Liveness = "idle" =>
                  \/ told = NULL
                  \/ told.at < now - IdleWindow
                  \/ told \notin log /\ told.at < now - Retention
             /\ Failures # {} /\ Liveness \in {"idle", "active"} => board.newest = "byhand"
  <2>1. /\ board.device = device
        /\ board.since \in Int /\ board.since <= now - IdleWindow
        /\ Failures # {} => board.newest \in {"failed", "byhand"}
    BY <1>1 DEF ReadWindow, BoardIsCurrent
  <2>2. (Liveness = "never_seen") = ~device.seen
    BY <1>1, <2>1 DEF Liveness, WholeLog, TypeOK
  <2>3. ASSUME Liveness = "idle", told # NULL
        PROVE  told.at < now - IdleWindow \/ (told \notin log /\ told.at < now - Retention)
    <3>1. told \in Row /\ told.at \in Int /\ now \in Int /\ Successful(told)
      BY <1>1, <2>3 DEF WholeLog, TypeOK, Row, ToldIsLast
    <3>2. CASE told \in log
      <4>1. InWindow = {}
        BY <2>3 DEF Liveness
      <4>2. ~(told.at >= board.since)
        BY <3>1, <3>2, <4>1 DEF InWindow
      <4>3. QED
        BY <2>1, <3>1, <4>2, BoardAssumption
    <3>3. CASE told \notin log
      BY <1>1, <2>3, <3>3 DEF WholeLog, ToldIsLast
    <3>4. QED
      BY <3>2, <3>3
  <2>4. ASSUME Failures # {}, Liveness \in {"idle", "active"} PROVE board.newest = "byhand"
    BY <2>1, <2>4 DEF Liveness
  <2>5. QED
    BY <2>2, <2>3, <2>4
<1>2. QED
  BY <1>1, WholeInvariant, BoardInvariant, PTL DEF LivenessIsHonest, Failures
============================================================================
