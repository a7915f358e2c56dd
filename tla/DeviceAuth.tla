----------------------------- MODULE DeviceAuth -----------------------------
(***************************************************************************)
(* The credential of one device: /nic/* calls that verify it and re-hash a  *)
(* migrated one, and rotations that replace it.                             *)
(*                                                                         *)
(* authenticate_device reads the hash with no lock and verifies it on a     *)
(* thread; the re-hash it leaves in the session is written, for whatever    *)
(* the row holds by then, with the rest of the call.  A call that is        *)
(* refused afterwards (abuse, 911, an inactive owner) commits it as well.   *)
(* The UPDATE and the commit are one step here: the row is locked between   *)
(* them.  A hash is its plaintext and its scheme.                           *)
(***************************************************************************)
EXTENDS Naturals, FiniteSets

CONSTANTS
  Calls,       \* concurrent /nic/* requests of the device
  Rotations,   \* concurrent POST /devices/{id}/rotate requests
  MaxSecrets   \* bound on the secrets ever issued, for model checking

ASSUME DeviceAuthAssumption ==
  /\ Calls \cap Rotations = {}
  /\ MaxSecrets \in Nat

VARIABLES
  imported,  \* whether the device came from the old service, under bcrypt
  stored,    \* Device.password_hash
  router,    \* the secret the device is configured with
  shown,     \* the secret its owner was shown last
  issued,    \* how many secrets were ever generated
  call,      \* the calls in flight and the hash each has verified against
  rotation   \* the rotations in flight and the secret each will show

vars == <<imported, stored, router, shown, issued, call, rotation>>

Secrets == 0..MaxSecrets
Hash == [secret : Secrets, scheme : {"bcrypt", "argon2id"}]

IssuedPlain(s) == [secret |-> s, scheme |-> "plain"]   \* mutant: not hashed

Issued(s) == [secret |-> s, scheme |-> "argon2id"]

Init ==
  /\ imported \in BOOLEAN
  /\ stored = [secret |-> 0, scheme |-> IF imported THEN "bcrypt" ELSE "argon2id"]
  /\ router = 0 /\ shown = 0 /\ issued = 0
  /\ call = [c \in Calls |-> [pc |-> "idle", seen |-> stored]]
  /\ rotation = [r \in Rotations |-> [pc |-> "idle", secret |-> 0]]

-----------------------------------------------------------------------------
(* The hash is read and verified.                                           *)
Authenticate(c) ==
  /\ call[c].pc = "idle"
  /\ stored.secret = router
  /\ call' = [call EXCEPT ![c] = [pc |-> "verified", seen |-> stored]]
  /\ UNCHANGED <<imported, stored, router, shown, issued, rotation>>

(* A wrong secret is badauth: an event is recorded and the device left.     *)
Refuse(c) ==
  /\ call[c].pc = "idle"
  /\ stored.secret # router
  /\ UNCHANGED vars

(* Mutants: the verified hash is written back every time; the upgrade is    *)
(* never written.                                                           *)
RehashedAlways(c) == Issued(call[c].seen.secret)
RehashedNever(c) == stored

(* verify_and_update hands back a hash only for a bcrypt one.               *)
Rehashed(c) ==
  IF call[c].seen.scheme = "bcrypt" THEN Issued(call[c].seen.secret) ELSE stored

CallCommit(c) ==
  /\ call[c].pc = "verified"
  /\ stored' = Rehashed(c)
  /\ call' = [call EXCEPT ![c].pc = "idle"]
  /\ UNCHANGED <<imported, router, shown, issued, rotation>>

(* A rollback loses the upgrade and nothing else.                           *)
CallFails(c) ==
  /\ call[c].pc = "verified"
  /\ call' = [call EXCEPT ![c].pc = "idle"]
  /\ UNCHANGED <<imported, stored, router, shown, issued, rotation>>

(* rotate_device_secret: a fresh secret, hashed on a thread, then committed *)
(* and shown.                                                               *)
Rotate(r) ==
  /\ rotation[r].pc = "idle"
  /\ issued < MaxSecrets
  /\ issued' = issued + 1
  /\ rotation' = [rotation EXCEPT ![r] = [pc |-> "hashed", secret |-> issued']]
  /\ UNCHANGED <<imported, stored, router, shown, call>>

RotateCommit(r) ==
  /\ rotation[r].pc = "hashed"
  /\ stored' = Issued(rotation[r].secret)
  /\ shown' = rotation[r].secret
  /\ rotation' = [rotation EXCEPT ![r].pc = "idle"]
  /\ UNCHANGED <<imported, router, issued, call>>

RotateFails(r) ==
  /\ rotation[r].pc = "hashed"
  /\ rotation' = [rotation EXCEPT ![r].pc = "idle"]
  /\ UNCHANGED <<imported, stored, router, shown, issued, call>>

(* The owner types what was shown into the router.                          *)
Configure ==
  /\ router # shown
  /\ router' = shown
  /\ UNCHANGED <<imported, stored, shown, issued, call, rotation>>

Next ==
  \/ \E c \in Calls : Authenticate(c) \/ Refuse(c) \/ CallCommit(c) \/ CallFails(c)
  \/ \E r \in Rotations : Rotate(r) \/ RotateCommit(r) \/ RotateFails(r)
  \/ Configure

Spec == Init /\ [][Next]_vars

(* The device calls for ever, and a commit that is tried for ever succeeds. *)
Fairness == \A c \in Calls : SF_vars(Authenticate(c)) /\ SF_vars(CallCommit(c))

FairSpec == Spec /\ Fairness

-----------------------------------------------------------------------------
(* Every variable has its type.                                             *)
TypeOK ==
  /\ imported \in BOOLEAN
  /\ stored \in Hash
  /\ router \in Secrets /\ shown \in Secrets /\ issued \in Secrets
  /\ call \in [Calls -> [pc : {"idle", "verified"}, seen : Hash]]
  /\ rotation \in [Rotations -> [pc : {"idle", "hashed"}, secret : Secrets]]

(* The secret an owner was shown last is the device's.                      *)
ShownSecretWorks == stored.secret = shown

(* That holds of every device created here: it never had a bcrypt hash, so  *)
(* no call re-hashes (authenticate_device, rotate_device_secret).           *)
IssuedSecretWorks == ~imported => ShownSecretWorks

(* A migrated device can lose the secret just shown, and get the old one    *)
(* back, in one way only: a call that verified the bcrypt hash before a     *)
(* rotation commits its upgrade after it.  A call that verified an argon2id *)
(* hash never does, however late it commits (authenticate_device).          *)
StaleUpgrade(c) ==
  CallCommit(c) /\ call[c].seen.scheme = "bcrypt" /\ call[c].seen # stored

LostOnlyToStaleUpgrade ==
  [][ShownSecretWorks /\ ~ShownSecretWorks' => \E c \in Calls : StaleUpgrade(c)]_vars

(* A migrated device whose router keeps calling with the right secret comes *)
(* to have an argon2id hash, and keeps it (authenticate_device: the fleet   *)
(* migrates itself).                                                        *)
FleetMigrates ==
  <>[](router = stored.secret) => <>[](stored.scheme = "argon2id")
=============================================================================
