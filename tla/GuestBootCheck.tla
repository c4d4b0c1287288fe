--------------------------- MODULE GuestBootCheck ---------------------------
(***************************************************************************)
(* tools/verify-guest-boot.py: a prepared image is booted in isolation,    *)
(* its guest agent is asked for its calls and runs the verification        *)
(* script; whatever happens, QEMU is stopped.                              *)
(*                                                                         *)
(* Every request is a connection of its own, with id 1, a timeout of 5     *)
(* seconds, and the first reply that comes is taken.  A request that timed *)
(* out stays in the channel: the agent answers it when it gets to it, and  *)
(* the next connection may read that answer.  QEMU and the agent are not   *)
(* part of the repository: the channel is modelled as a queue of requests  *)
(* that are answered in order, and that may be lost between connections.   *)
(***************************************************************************)
EXTENDS Naturals, Sequences, FiniteSets

CONSTANTS
  Checkers,   \* processes running the check
  Demanded,   \* `required': the agent calls the panel needs
  MaxQueue    \* bound on the requests in the channel

ASSUME QueueAssumption == MaxQueue \in Nat

VARIABLES
  bpc,        \* bpc[c]: where c is in verify()
  machine,    \* machine[c]: its QEMU process
  waiting,    \* waiting[c]: c has sent a request and reads
  queue,      \* queue[c]: requests sent and not answered, oldest first
  script,     \* script[c]: the script as the guest runs it
  expired,    \* expired[c]: the deadline has passed
  verdict,    \* verdict[c]: how the try block of c ended
  reported,   \* checkers whose .boot.json exists
  \* history variables, read by no action
  stale,      \* checkers that took an answer to an earlier request
  leaked      \* checkers stopped where nothing stops QEMU

bootVars == <<bpc, machine, waiting, queue, script, expired, verdict,
              reported, stale, leaked>>
talkVars == <<waiting, queue, script, stale>>

Asking     == {"ping", "info", "exec", "status"}
BootActive == {"launch", "launched", "stop", "kill", "report"} \cup Asking
BootEnded  == {"verified", "rejected", "dead"}
Verdicts   == {"none", "passed", "failed", "disabled"}

BootInit ==
  /\ bpc = [c \in Checkers |-> "idle"]
  /\ machine = [c \in Checkers |-> "none"]
  /\ waiting = [c \in Checkers |-> FALSE]
  /\ queue = [c \in Checkers |-> <<>>]
  /\ script = [c \in Checkers |-> "none"]
  /\ expired = [c \in Checkers |-> FALSE]
  /\ verdict = [c \in Checkers |-> "none"]
  /\ reported = {}
  /\ stale = {}
  /\ leaked = {}

BootGoto(c, from, to) ==
  /\ bpc[c] = from
  /\ bpc' = [bpc EXCEPT ![c] = to]

\* The try block is left, by `return' or by an exception.
Finish(c, v) ==
  /\ bpc' = [bpc EXCEPT ![c] = "stop"]
  /\ verdict' = [verdict EXCEPT ![c] = v]

-----------------------------------------------------------------------------
\* The engine calls verify-guest-boot.py with the image and the snippet.
StartChecking(c) ==
  /\ BootGoto(c, "idle", "launch")
  /\ UNCHANGED <<machine, talkVars, expired, verdict, reported, leaked>>

\* A missing input, genisoimage, qemu-img or the firmware copy fails.
LaunchFails(c) ==
  /\ BootGoto(c, "launch", "rejected")
  /\ UNCHANGED <<machine, talkVars, expired, verdict, reported, leaked>>

\* Popen.
Launch(c) ==
  /\ BootGoto(c, "launch", "launched")
  /\ machine' = [machine EXCEPT ![c] = "running"]
  /\ UNCHANGED <<talkVars, expired, verdict, reported, leaked>>

\* The deadline is set and the try block entered.
EnterTry(c) ==
  /\ BootGoto(c, "launched", "ping")
  /\ UNCHANGED <<machine, talkVars, expired, verdict, reported, leaked>>

\* agent(): connect and send.  The loops look at the deadline before.
Ask(c) ==
  /\ bpc[c] \in Asking
  /\ ~waiting[c]
  /\ machine[c] = "running"
  /\ bpc[c] \in {"ping", "status"} => ~expired[c]
  /\ Len(queue[c]) < MaxQueue
  /\ waiting' = [waiting EXCEPT ![c] = TRUE]
  /\ queue' = [queue EXCEPT ![c] = Append(@, bpc[c])]
  /\ UNCHANGED <<bpc, machine, script, expired, verdict, reported, stale, leaked>>

\* The agent answers the oldest request, which c takes for its own.  It
\* starts the script when it meets the guest-exec.
Taken(c) ==
  /\ bpc[c] \in Asking
  /\ waiting[c]
  /\ queue[c] # <<>>
  /\ waiting' = [waiting EXCEPT ![c] = FALSE]
  /\ queue' = [queue EXCEPT ![c] = Tail(@)]
  /\ stale' = IF Head(queue[c]) # bpc[c] THEN stale \cup {c} ELSE stale
  /\ UNCHANGED <<machine, expired, reported, leaked>>

\* Any reply but an error ends the first loop; an error is retried.
PingAnswered(c, enabled) ==
  /\ bpc[c] = "ping"
  /\ Taken(c)
  /\ bpc' = [bpc EXCEPT ![c] = IF Head(queue[c]) \in enabled THEN "info" ELSE @]
  /\ UNCHANGED <<script, verdict>>

\* The calls listed as enabled; an answer without a list lists none.
Listed(c, enabled) ==
  Head(queue[c]) = "info" /\ Demanded \subseteq enabled

InfoAnswered(c, enabled) ==
  /\ bpc[c] = "info"
  /\ Taken(c)
  /\ \/ /\ Head(queue[c]) \notin enabled
        /\ Finish(c, "failed")
     \/ /\ Head(queue[c]) \in enabled
        /\ Listed(c, enabled)
        /\ bpc' = [bpc EXCEPT ![c] = "exec"]
        /\ UNCHANGED verdict
     \/ /\ Head(queue[c]) \in enabled
        /\ ~Listed(c, enabled)
        /\ Finish(c, "disabled")
  /\ UNCHANGED script

\* Only the answer to guest-exec has a pid; the agent may also refuse.
ExecAnswered(c, enabled) ==
  /\ bpc[c] = "exec"
  /\ Taken(c)
  /\ \/ /\ Head(queue[c]) = "exec" /\ "exec" \in enabled
        /\ script' = [script EXCEPT ![c] = "running"]
        /\ bpc' = [bpc EXCEPT ![c] = "status"]
        /\ UNCHANGED verdict
     \/ /\ Finish(c, "failed")
        /\ UNCHANGED script

\* Bug: the exit code is not looked at.
PassedAnyhow(c) == Head(queue[c]) = "status" /\ script[c] \in {"ok", "bad"}

\* The answer says that the script has exited with 0.
Passed(c) == Head(queue[c]) = "status" /\ script[c] = "ok"

\* Neither an answer to another request nor a running script is `exited'.
StatusAnswered(c) ==
  /\ bpc[c] = "status"
  /\ Taken(c)
  /\ IF Passed(c) THEN Finish(c, "passed")
     ELSE IF Head(queue[c]) = "status" /\ script[c] = "bad" THEN Finish(c, "failed")
     ELSE UNCHANGED <<bpc, verdict>>
  /\ UNCHANGED script

\* No answer in 5 seconds: only the first loop goes on.
AskTimesOut(c) ==
  /\ bpc[c] \in Asking
  /\ waiting[c]
  /\ waiting' = [waiting EXCEPT ![c] = FALSE]
  /\ IF bpc[c] = "ping" THEN UNCHANGED <<bpc, verdict>> ELSE Finish(c, "failed")
  /\ UNCHANGED <<machine, queue, script, expired, reported, stale, leaked>>

\* Bug: the second loop has no deadline.
DeadlineMetByPing(c) ==
  /\ bpc[c] = "ping"
  /\ ~waiting[c] /\ expired[c]
  /\ Finish(c, "failed")
  /\ UNCHANGED <<machine, talkVars, expired, reported, leaked>>

\* A loop ends with its `while': TimeoutError.
DeadlineMet(c) ==
  /\ bpc[c] \in {"ping", "status"}
  /\ ~waiting[c] /\ expired[c]
  /\ Finish(c, "failed")
  /\ UNCHANGED <<machine, talkVars, expired, reported, leaked>>

\* poll() shows that QEMU is gone, or a connection to it fails.
MachineGone(c) ==
  /\ bpc[c] \in Asking
  /\ machine[c] = "off"
  /\ ~waiting[c]
  /\ Finish(c, "failed")
  /\ UNCHANGED <<machine, talkVars, expired, reported, leaked>>

\* Ctrl-C, or SIGTERM through its handler.  Between Popen and try nothing
\* stops QEMU.
Interrupt(c) ==
  /\ \/ /\ bpc[c] \in Asking
        /\ Finish(c, "failed")
        /\ waiting' = [waiting EXCEPT ![c] = FALSE]
        /\ UNCHANGED leaked
     \/ /\ BootGoto(c, "launched", "rejected")
        /\ leaked' = leaked \cup {c}
        /\ UNCHANGED <<verdict, waiting>>
  /\ UNCHANGED <<machine, queue, script, expired, reported, stale>>

\* SIGKILL, or a signal within the finally block.
CheckKilled(c) ==
  /\ bpc[c] \in BootActive
  /\ bpc' = [bpc EXCEPT ![c] = "dead"]
  /\ leaked' = leaked \cup {c}
  /\ UNCHANGED <<machine, talkVars, expired, verdict, reported>>

AfterStop(c) == IF verdict[c] = "passed" THEN "report" ELSE "rejected"

\* Bug: QEMU is asked to stop and not waited for.
TerminateOnly(c) ==
  /\ BootGoto(c, "stop", AfterStop(c))
  /\ machine' \in {machine, [machine EXCEPT ![c] = "off"]}
  /\ UNCHANGED <<talkVars, expired, verdict, reported, leaked>>

\* finally: terminate() and wait 10 seconds ...
Terminate(c) ==
  /\ \/ /\ BootGoto(c, "stop", AfterStop(c))
        /\ machine' = [machine EXCEPT ![c] = "off"]
     \/ /\ BootGoto(c, "stop", "kill")
        /\ machine[c] = "running"
        /\ UNCHANGED machine
  /\ UNCHANGED <<talkVars, expired, verdict, reported, leaked>>

\* ... else kill(), which no process survives.
KillMachine(c) ==
  /\ BootGoto(c, "kill", AfterStop(c))
  /\ machine' = [machine EXCEPT ![c] = "off"]
  /\ UNCHANGED <<talkVars, expired, verdict, reported, leaked>>

\* main() writes .boot.json when verify() has returned.
ReportBoot(c) ==
  /\ BootGoto(c, "report", "verified")
  /\ reported' = reported \cup {c}
  /\ UNCHANGED <<machine, talkVars, expired, verdict, leaked>>

-----------------------------------------------------------------------------
(* The guest and the clock.                                                *)

\* cloud-init may also never finish.
ScriptEnds(c) ==
  /\ script[c] = "running"
  /\ machine[c] = "running"
  /\ script' \in {[script EXCEPT ![c] = r] : r \in {"ok", "bad"}}
  /\ UNCHANGED <<bpc, machine, waiting, queue, expired, verdict, reported, stale,
                 leaked>>

\* Requests in the channel are lost when the connection was closed.
RequestsLost(c) ==
  /\ ~waiting[c]
  /\ queue[c] # <<>>
  /\ queue' = [queue EXCEPT ![c] = <<>>]
  /\ UNCHANGED <<bpc, machine, waiting, script, expired, verdict, reported, stale,
                 leaked>>

\* The guest powers off (-no-reboot) or QEMU fails.
MachineDies(c) ==
  /\ machine[c] = "running"
  /\ bpc[c] \in Asking
  /\ machine' = [machine EXCEPT ![c] = "off"]
  /\ queue' = [queue EXCEPT ![c] = <<>>]
  /\ UNCHANGED <<bpc, waiting, script, expired, verdict, reported, stale, leaked>>

Expire(c) ==
  /\ bpc[c] \in Asking
  /\ ~expired[c]
  /\ expired' = [expired EXCEPT ![c] = TRUE]
  /\ UNCHANGED <<bpc, machine, talkVars, verdict, reported, leaked>>

Environment(c) ==
  ScriptEnds(c) \/ RequestsLost(c) \/ MachineDies(c) \/ CheckKilled(c) \/ Interrupt(c)

Answered(c, enabled) ==
  \/ PingAnswered(c, enabled) \/ InfoAnswered(c, enabled)
  \/ ExecAnswered(c, enabled) \/ StatusAnswered(c)

\* What the checker does by itself, and what its timeouts make it do.
BootProgress(c, enabled) ==
  \/ LaunchFails(c) \/ Launch(c) \/ EnterTry(c) \/ Ask(c) \/ Answered(c, enabled)
  \/ AskTimesOut(c) \/ DeadlineMet(c) \/ MachineGone(c) \/ Terminate(c)
  \/ KillMachine(c) \/ ReportBoot(c)

-----------------------------------------------------------------------------
BootTypeOK ==
  /\ bpc \in [Checkers -> {"idle"} \cup BootActive \cup BootEnded]
  /\ machine \in [Checkers -> {"none", "running", "off"}]
  /\ waiting \in [Checkers -> BOOLEAN]
  /\ queue \in [Checkers -> Seq(Asking)]
  /\ \A c \in Checkers : Len(queue[c]) <= MaxQueue
  /\ script \in [Checkers -> {"none", "running", "ok", "bad"}]
  /\ expired \in [Checkers -> BOOLEAN]
  /\ verdict \in [Checkers -> Verdicts]
  /\ reported \cup stale \cup leaked \subseteq Checkers

\* However it ends, the check leaves no QEMU process behind, unless it was
\* killed or interrupted between Popen and try.
NoMachineLeft ==
  \A c \in Checkers :
    bpc[c] \in BootEnded /\ c \notin leaked => machine[c] # "running"

=============================================================================
