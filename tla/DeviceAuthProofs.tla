-------------------------- MODULE DeviceAuthProofs --------------------------
(***************************************************************************)
(* An issued device's secret is the one its owner was shown last, for any   *)
(* number of concurrent calls and rotations.                                *)
(*                                                                         *)
(* IssuedSecretWorks alone is not inductive: a call that had verified a      *)
(* bcrypt hash would write it back over a rotation.  What rules that out is *)
(* that no bcrypt hash is stored and none was ever verified against.        *)
(***************************************************************************)
EXTENDS DeviceAuth, TLAPS

NoBcrypt ==
  /\ stored.scheme = "argon2id"
  /\ \A c \in Calls : call[c].seen.scheme = "argon2id"

AuthInv == TypeOK /\ (~imported => NoBcrypt /\ ShownSecretWorks)

LEMMA SecretTypes == 0 \in Secrets /\ \A s \in Secrets : Issued(s) \in Hash
  BY DeviceAuthAssumption DEF Secrets, Hash, Issued, DeviceAuthAssumption

(* Every variable of the module keeps its type, for a device of either kind *)
(* and any number of calls and rotations.                                   *)
THEOREM AuthTypeCorrect == Spec => []TypeOK
<1>1. Init => TypeOK
  BY SecretTypes DEF Init, TypeOK, Hash
<1>2. TypeOK /\ [Next]_vars => TypeOK'
  <2> SUFFICES ASSUME TypeOK, [Next]_vars PROVE TypeOK'
    OBVIOUS
  <2> USE DEF TypeOK
  <2>1. ASSUME NEW c \in Calls, Authenticate(c) PROVE TypeOK'
    BY <2>1 DEF Authenticate
  <2>2. ASSUME NEW c \in Calls, Refuse(c) PROVE TypeOK'
    BY <2>2 DEF Refuse, vars
  <2>3. ASSUME NEW c \in Calls, CallCommit(c) PROVE TypeOK'
    <3>1. call[c].seen \in Hash
      OBVIOUS
    <3>2. Rehashed(c) \in Hash
      BY <3>1, SecretTypes DEF Rehashed, Hash
    <3> QED BY <2>3, <3>2 DEF CallCommit
  <2>4. ASSUME NEW c \in Calls, CallFails(c) PROVE TypeOK'
    BY <2>4 DEF CallFails
  <2>5. ASSUME NEW r \in Rotations, Rotate(r) PROVE TypeOK'
    <3>1. issued + 1 \in Secrets
      BY <2>5, DeviceAuthAssumption DEF Rotate, Secrets, DeviceAuthAssumption
    <3> QED BY <2>5, <3>1 DEF Rotate
  <2>6. ASSUME NEW r \in Rotations, RotateCommit(r) PROVE TypeOK'
    BY <2>6, SecretTypes DEF RotateCommit
  <2>7. ASSUME NEW r \in Rotations, RotateFails(r) PROVE TypeOK'
    BY <2>7 DEF RotateFails
  <2>8. CASE Configure
    BY <2>8 DEF Configure
  <2>9. CASE UNCHANGED vars
    BY <2>9 DEF vars
  <2> QED BY <2>1, <2>2, <2>3, <2>4, <2>5, <2>6, <2>7, <2>8, <2>9 DEF Next
<1> QED BY <1>1, <1>2, PTL DEF Spec

LEMMA AuthStep ==
  ASSUME TypeOK, NoBcrypt, ShownSecretWorks, [Next]_vars
  PROVE  (NoBcrypt /\ ShownSecretWorks)'
<1> USE DEF NoBcrypt, ShownSecretWorks
<1>1. ASSUME NEW c \in Calls, Authenticate(c) PROVE (NoBcrypt /\ ShownSecretWorks)'
  BY <1>1 DEF Authenticate, TypeOK
<1>2. ASSUME NEW c \in Calls, Refuse(c) PROVE (NoBcrypt /\ ShownSecretWorks)'
  BY <1>2 DEF Refuse, vars
<1>3. ASSUME NEW c \in Calls, CallCommit(c) PROVE (NoBcrypt /\ ShownSecretWorks)'
  <2>1. Rehashed(c) = stored
    BY DEF Rehashed
  <2> QED BY <1>3, <2>1 DEF CallCommit, TypeOK
<1>4. ASSUME NEW c \in Calls, CallFails(c) PROVE (NoBcrypt /\ ShownSecretWorks)'
  BY <1>4 DEF CallFails, TypeOK
<1>5. ASSUME NEW r \in Rotations, Rotate(r) PROVE (NoBcrypt /\ ShownSecretWorks)'
  BY <1>5 DEF Rotate
<1>6. ASSUME NEW r \in Rotations, RotateCommit(r) PROVE (NoBcrypt /\ ShownSecretWorks)'
  BY <1>6 DEF RotateCommit, Issued
<1>7. ASSUME NEW r \in Rotations, RotateFails(r) PROVE (NoBcrypt /\ ShownSecretWorks)'
  BY <1>7 DEF RotateFails
<1>8. CASE Configure
  BY <1>8 DEF Configure
<1>9. CASE UNCHANGED vars
  BY <1>9 DEF vars
<1> QED BY <1>1, <1>2, <1>3, <1>4, <1>5, <1>6, <1>7, <1>8, <1>9 DEF Next

(* A device that never had a bcrypt hash answers to the secret its owner    *)
(* was shown last, whatever calls and rotations are in flight.              *)
THEOREM IssuedSecretStays == Spec => []IssuedSecretWorks
<1>1. Init => AuthInv
  <2> SUFFICES ASSUME Init PROVE AuthInv
    OBVIOUS
  <2>1. TypeOK
    BY SecretTypes DEF Init, TypeOK, Hash
  <2> QED BY <2>1 DEF Init, AuthInv, NoBcrypt, ShownSecretWorks
<1>2. AuthInv /\ TypeOK' /\ [Next]_vars => AuthInv'
  <2>1. [Next]_vars => imported' = imported
    BY DEF Next, vars, Authenticate, Refuse, CallCommit, CallFails, Rotate, RotateCommit,
           RotateFails, Configure
  <2> QED BY <2>1, AuthStep DEF AuthInv
<1>3. AuthInv => IssuedSecretWorks
  BY DEF AuthInv, IssuedSecretWorks
<1> QED BY <1>1, <1>2, <1>3, AuthTypeCorrect, PTL DEF Spec

(* A device of either kind loses the secret just shown only to a call that  *)
(* writes the upgrade of a hash which is no longer stored.                  *)
THEOREM RehashIsTheOnlyLoss == Spec => LostOnlyToStaleUpgrade
<1> DEFINE Loss == ShownSecretWorks /\ ~ShownSecretWorks' =>
                     \E c \in Calls : StaleUpgrade(c)
<1>1. TypeOK /\ [Next]_vars => Loss
  <2> SUFFICES ASSUME TypeOK, [Next]_vars, ShownSecretWorks, ~ShownSecretWorks'
               PROVE  \E c \in Calls : StaleUpgrade(c)
    OBVIOUS
  <2> USE DEF ShownSecretWorks
  <2>1. ASSUME NEW c \in Calls, CallCommit(c) PROVE StaleUpgrade(c)
    <3>1. stored' = Rehashed(c) /\ shown' = shown
      BY <2>1 DEF CallCommit
    <3>2. call[c].seen.scheme = "bcrypt" /\ Rehashed(c) = Issued(call[c].seen.secret)
      BY <3>1 DEF Rehashed
    <3>3. call[c].seen.secret # stored.secret
      BY <3>1, <3>2 DEF Issued
    <3> QED BY <2>1, <3>2, <3>3 DEF StaleUpgrade
  <2>2. \A r \in Rotations : ~RotateCommit(r)
    BY DEF RotateCommit, Issued
  <2>3. ~ UNCHANGED <<stored, shown>>
    OBVIOUS
  <2> QED BY <2>1, <2>2, <2>3
       DEF Next, vars, Authenticate, Refuse, CallFails, Rotate, RotateFails, Configure
<1> QED BY <1>1, AuthTypeCorrect, PTL DEF Spec, LostOnlyToStaleUpgrade
=============================================================================
