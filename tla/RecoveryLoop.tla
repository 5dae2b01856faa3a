---------------------------- MODULE RecoveryLoop ----------------------------
(***************************************************************************)
(* What ConnectionSupervisor promises of a call                             *)
(* (src/src/features/call/connection-supervisor.ts): between two            *)
(* resumptions there is one loop of recovery, which tries at most           *)
(* MaxAttempts times in a row, gives up, and then waits for the user; and   *)
(* nothing is recovered once the user has disconnected.                     *)
(***************************************************************************)
EXTENDS Naturals

CONSTANT MaxAttempts        \* MAX_RECOVERY_ATTEMPTS, at least one (Supervisor)

VARIABLES phase,            \* what the loop is doing
          tries             \* the recoveries that failed in a row

vars == <<phase, tries>>

Phases == {"rest", "armed", "recovering", "given up", "disconnected", "astray"}

Init == phase = "rest" /\ tries = 0

Request == phase = "rest" /\ phase' = "armed" /\ UNCHANGED tries

Begin == phase = "armed" /\ tries < MaxAttempts
         /\ phase' = "recovering" /\ UNCHANGED tries

Succeed == phase = "recovering" /\ phase' \in {"rest", "armed"} /\ tries' = 0

Fail == /\ phase = "recovering"
        /\ tries' = tries + 1
        /\ phase' = IF tries' = MaxAttempts THEN "given up" ELSE "armed"

Disconnect == phase # "astray" /\ phase' = "disconnected" /\ UNCHANGED tries

(* A resumption starts afresh: what was armed or running is abandoned.  The *)
(* render that resumes may ask for a recovery in the same commit.           *)
Resume == phase # "astray" /\ phase' \in {"rest", "armed"} /\ tries' = 0

(* The one exception: a recovery of before the last resumption, settling    *)
(* while one of after it runs, makes the supervisor lose count of its loop. *)
Astray == phase = "recovering" /\ phase' = "astray" /\ tries' \in Nat

Unaccounted == phase = "astray" /\ phase' = "astray" /\ tries' \in Nat

Next == \/ Request \/ Begin \/ Succeed \/ Fail
        \/ Disconnect \/ Resume \/ Astray \/ Unaccounted

Spec == Init /\ [][Next]_vars
=============================================================================
