------------------------------- MODULE Board --------------------------------
(***************************************************************************)
(* The board's reading of the log: get_board and device_statuses, five     *)
(* statements at READ COMMITTED, each a snapshot of its own, beside what   *)
(* EventLog does meanwhile.                                                *)
(*                                                                         *)
(* Readers write nothing, so one at a time is enough: a tenant has the log *)
(* or the board open.  A board that a commit races mixes two moments;      *)
(* nothing is claimed of it, and its reading is given up.                  *)
(***************************************************************************)
EXTENDS EventLog

CONSTANT
  IdleWindow   \* device_idle_window_days

(* DdnsConfig does not relate it to the retention.                         *)
ASSUME BoardAssumption == IdleWindow \in Nat

VARIABLE
  board   \* the board being read: what its statements have returned

boardVars == <<vars, board>>

Away == [pc |-> "away", device |-> NULL, last |-> NULL, habit |-> "unknown", newest |-> "none",
         since |-> 0]

BoardInit == Init /\ board = Away

(* The statements, in their order; one device_statuses makes of devices    *)
(* finds them in the session, as they were.                                *)
ReadDevices ==
  /\ board = Away /\ ~walk.open
  /\ board' = [Away EXCEPT !.pc = "names", !.device = device]
  /\ UNCHANGED vars

ReadNames ==
  /\ board.pc = "names"
  /\ board' = [board EXCEPT !.pc = "events", !.last = last]
  /\ UNCHANGED vars

(* _latest_successful_updates: the newest id, and the habit it tells of.   *)
LatestSuccess ==
  LET found == {r \in log : Successful(r)}
  IN IF found = {} THEN "unknown" ELSE Latest(found).kind

ReadEvents ==
  /\ board.pc = "events"
  /\ board' = [board EXCEPT !.pc = "statuses", !.habit = LatestSuccess]
  /\ UNCHANGED vars

(* The newest row of the device, whatever wrote it; `since` is taken first.*)
ReadStatuses ==
  /\ board.pc = "statuses"
  /\ board' = [board EXCEPT !.pc = "window", !.since = now - IdleWindow,
                            !.newest = IF log = {} THEN "none" ELSE Latest(log).kind]
  /\ UNCHANGED vars

SinceThen == {r \in log : Successful(r) /\ r.at > board.since}
InWindow == {r \in log : Successful(r) /\ r.at >= board.since}

ReadWindow ==
  /\ board.pc = "window"
  /\ board' = Away
  /\ UNCHANGED vars

Look == ReadDevices \/ ReadNames \/ ReadEvents \/ ReadStatuses \/ ReadWindow

GivenUpIfRaced == board' = IF log' \subseteq log THEN board ELSE Away

BoardNext ==
  \/ Write /\ GivenUpIfRaced
  \/ Read /\ board = Away /\ UNCHANGED board
  \/ Look

BoardSpec == BoardInit /\ [][BoardNext]_boardVars

-----------------------------------------------------------------------------
(* What the reader is told, once ReadWindow has answered.                  *)

Liveness ==
  IF ~board.device.seen THEN "never_seen"
  ELSE IF board.newest = "failed" THEN "last_call_failed"
  ELSE IF InWindow = {} THEN "idle"
  ELSE "active"

LowerJointAlways ==
  IF board.last = NULL \/ board.device.ip = NULL THEN "not_applicable"
  ELSE IF board.last = board.device.ip THEN "agreed"
  ELSE "diverged"

LowerJoint ==
  IF board.habit # "own" THEN "not_applicable"
  ELSE IF board.last = NULL \/ board.device.ip = NULL THEN "not_applicable"
  ELSE IF board.last = board.device.ip THEN "agreed"
  ELSE "diverged"

(* Unless a commit raced its reading, the board marks a name as left       *)
(* behind exactly when the device, whose habit is to publish the address   *)
(* it calls from, calls from another than the one published.  The habit is *)
(* inferred from rows that the prune removes and that failures, manual     *)
(* updates and strangers' calls intersperse.                               *)
LowerJointIsReal ==
  [][ReadWindow =>
       LET strays == told # NULL /\ told.kind = "own" /\ last # NULL /\ last # device.ip
       IN /\ LowerJoint = "diverged" => strays
          /\ strays /\ told \in log => LowerJoint = "diverged"]_boardVars

(* A device shown never seen has never been admitted; one shown idle has   *)
(* published nothing inside the window, unless a prune has taken what it   *)
(* published, and then the retention no longer covered it; and one that    *)
(* has failed since it last succeeded is shown idle or active only if      *)
(* somebody has published or adopted by hand since.                        *)
LivenessIsHonest ==
  [][ReadWindow =>
       LET failures == {r \in log : r.kind = "failed" /\ (told # NULL => told.id < r.id)}
       IN /\ (Liveness = "never_seen") = ~device.seen
          /\ Liveness = "idle" =>
               \/ told = NULL
               \/ told.at < now - IdleWindow
               \/ told \notin log /\ told.at < now - Retention
          /\ failures # {} /\ Liveness \in {"idle", "active"}
               => board.newest = "byhand"]_boardVars
============================================================================
