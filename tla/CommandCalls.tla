---------------------------- MODULE CommandCalls ----------------------------
(* What FFmpegTool promises the callers of execCmd: each command runs once  *)
(* and returns a value that tells of the whole process, not of the command; *)
(* the values of commands with a listener are posted once each and handed   *)
(* over in the order they were posted.  The process may die under a running *)
(* command or by a signal, and then nothing more is said.                   *)
EXTENDS Integers, Sequences

CONSTANTS Runs, Listeners

VARIABLES
    alive,
    phase,        \* of each command: "new", "running", "returned", "over"
    value,        \* what it returned (NoRet before)
    failed,       \* a write has failed in this process
    signalled,    \* a signal has come
    posted,       \* the answers posted, <<command, value>>
    heard         \* how many of them listeners have got

vars == <<alive, phase, value, failed, signalled, posted, heard>>

NoRet == -1

Init ==
    /\ alive = TRUE
    /\ phase = [r \in Runs |-> "new"]
    /\ value = [r \in Runs |-> NoRet]
    /\ failed = FALSE /\ signalled = FALSE
    /\ posted = <<>> /\ heard = 0

Enter(r, from, to) == phase[r] = from /\ phase' = [phase EXCEPT ![r] = to]

Issue(r) ==
    /\ alive
    /\ Enter(r, "new", "running")
    /\ UNCHANGED <<alive, value, failed, signalled, posted, heard>>

WriteFails(r) ==
    /\ alive
    /\ phase[r] = "running"
    /\ failed' = TRUE
    /\ UNCHANGED <<alive, phase, value, signalled, posted, heard>>

CommandDies(r) ==
    /\ alive
    /\ phase[r] = "running"
    /\ alive' = FALSE
    /\ UNCHANGED <<phase, value, failed, signalled, posted, heard>>

Return(r) ==
    /\ alive
    /\ Enter(r, "running", "returned")
    /\ value' = [value EXCEPT ![r] = IF signalled THEN 255 ELSE IF failed THEN 1 ELSE 0]
    /\ UNCHANGED <<alive, failed, signalled, posted, heard>>

Post(r) ==
    /\ alive
    /\ Enter(r, "returned", "over")
    /\ posted' = IF r \in Listeners THEN Append(posted, <<r, value[r]>>) ELSE posted
    /\ UNCHANGED <<alive, value, failed, signalled, heard>>

Hear ==
    /\ alive
    /\ heard < Len(posted)
    /\ heard' = heard + 1
    /\ UNCHANGED <<alive, phase, value, failed, signalled, posted>>

Signal ==
    /\ alive
    /\ signalled' = TRUE
    /\ alive' \in BOOLEAN
    /\ UNCHANGED <<phase, value, failed, posted, heard>>

Next ==
    \/ \E r \in Runs : \/ Issue(r) \/ WriteFails(r) \/ CommandDies(r)
                       \/ Return(r) \/ Post(r)
    \/ Hear \/ Signal

Spec == Init /\ [][Next]_vars
=============================================================================
