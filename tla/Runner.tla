------------------------------- MODULE Runner -------------------------------
(***************************************************************************)
(* One shell command: run_sandboxed and pump_output of                     *)
(* src/tools/sandbox.cpp, with the pipe they read, the clock, the cancel   *)
(* token, and the processes the command turns into, which may write, close *)
(* their output, leave the process group, or outlive the shell.            *)
(*                                                                         *)
(* A job stands for what the shell starts and does not wait for.  What the *)
(* tiers allow a process to touch is the operating system's.               *)
(***************************************************************************)
EXTENDS Naturals

CONSTANTS
  Jobs,       \* processes the shell may start
  Shell,      \* /bin/sh, or the container runtime's client
  PipeRoom,   \* what the pipe holds before a writer must wait
  OutputCap,  \* max_output_bytes
  MaxWritten  \* bound: what all of them write

ASSUME RunnerAssumption ==
  /\ Shell \notin Jobs
  /\ PipeRoom \in Nat \ {0} /\ OutputCap \in Nat /\ MaxWritten \in Nat

VARIABLES
  tier, usable,    \* the grant, and whether a container runtime can be used
  toldToStop,      \* the cancel token
  overdue,         \* the wall clock is past the deadline
  runner,          \* where run_sandboxed is
  alive,           \* processes that run
  holding,         \* those whose output is the pipe
  grouped,         \* those in the command's process group
  shellEnd,        \* how the shell ended
  written, unread, \* bytes written so far, and those still in the pipe
  outcome,         \* ExecOutcome
  pipeFailed       \* history: select or read failed

command == <<alive, holding, grouped, shellEnd, written, unread>>
runnerVars == <<tier, usable, toldToStop, overdue, runner, command, outcome, pipeFailed>>

Processes == Jobs \union {Shell}
NotStarted == [status |-> "ToolError", stored |-> 0, truncated |-> FALSE]

RunnerInit ==
  /\ tier \in {"T0", "T1", "T2", "T3"} /\ usable \in BOOLEAN
  /\ toldToStop = FALSE /\ overdue = FALSE /\ runner = "start"
  /\ alive = {} /\ holding = {} /\ grouped = {} /\ shellEnd = "not"
  /\ written = 0 /\ unread = 0 /\ outcome = NotStarted /\ pipeFailed = FALSE

-----------------------------------------------------------------------------
(* run_sandboxed before the fork.                                          *)
Granted == tier \in {"T1", "T3"} \/ (tier = "T2" /\ usable)
ReturnsAs(status) == runner' = "done" /\ outcome' = [outcome EXCEPT !.status = status]
SettingsStay == UNCHANGED <<tier, usable, toldToStop, overdue, pipeFailed>>

DoesNotStart ==
  /\ runner = "start"
  /\ IF toldToStop THEN ReturnsAs("Cancelled")
     ELSE ~Granted /\ ReturnsAs("Refused")
  /\ SettingsStay /\ UNCHANGED command

(* No pipe, or no process.                                                 *)
CannotSpawn ==
  /\ runner = "start" /\ ~toldToStop /\ Granted
  /\ ReturnsAs("ToolError")
  /\ SettingsStay /\ UNCHANGED command

Spawns ==
  /\ runner = "start" /\ ~toldToStop /\ Granted
  /\ alive' = {Shell} /\ holding' = {Shell} /\ grouped' = {Shell}
  /\ runner' = "token"
  /\ SettingsStay /\ UNCHANGED <<shellEnd, written, unread, outcome>>

(* pump_output, around its loop.                                           *)
(* Mutant: the group is left.                                              *)
KillsShellOnly ==
  /\ alive' = alive \ {Shell} /\ holding' = holding \ {Shell}
  /\ shellEnd' = IF Shell \in alive THEN "signalled" ELSE shellEnd
  /\ UNCHANGED <<grouped, written, unread>>

KillsGroup ==
  /\ alive' = alive \ (grouped \union {Shell}) /\ holding' = holding \ (grouped \union {Shell})
  /\ shellEnd' = IF Shell \in alive THEN "signalled" ELSE shellEnd
  /\ UNCHANGED <<grouped, written, unread>>

LooksAtToken ==
  /\ runner = "token"
  /\ IF toldToStop
       THEN KillsGroup /\ runner' = "reap" /\ outcome' = [outcome EXCEPT !.status = "Cancelled"]
       ELSE runner' = "clock" /\ UNCHANGED <<command, outcome>>
  /\ SettingsStay

LooksAtClock ==
  /\ runner = "clock"
  /\ IF overdue
       THEN KillsGroup /\ runner' = "reap" /\ outcome' = [outcome EXCEPT !.status = "Timeout"]
       ELSE runner' = "select" /\ UNCHANGED <<command, outcome>>
  /\ SettingsStay

(* Past the cap it drains without storing.                                 *)
Stores(n) ==
  LET room == OutputCap - outcome.stored
  IN  [outcome EXCEPT !.stored = IF n > room THEN OutputCap ELSE @ + n,
                      !.truncated = @ \/ n > room]
Reads(n) ==
  /\ runner = "select" /\ n \in 1 .. unread
  /\ unread' = unread - n /\ outcome' = Stores(n) /\ runner' = "token"
  /\ SettingsStay /\ UNCHANGED <<alive, holding, grouped, shellEnd, written>>

SelectTimesOut ==
  /\ runner = "select" /\ unread = 0 /\ holding # {}
  /\ runner' = "token"
  /\ SettingsStay /\ UNCHANGED <<command, outcome>>

SeesEndOfOutput ==
  /\ runner = "select" /\ unread = 0 /\ holding = {}
  /\ runner' = "reap"
  /\ SettingsStay /\ UNCHANGED <<command, outcome>>

(* The loop is left and the pipe closed, with nothing killed.              *)
ReadFails ==
  /\ runner = "select" /\ runner' = "reap" /\ pipeFailed' = TRUE
  /\ UNCHANGED <<tier, usable, toldToStop, overdue, command, outcome>>

(* waitpid, which has neither token nor deadline.                          *)
Reaps ==
  /\ runner = "reap" /\ Shell \notin alive
  /\ ReturnsAs(IF outcome.status \in {"Cancelled", "Timeout"} THEN outcome.status
             ELSE IF shellEnd = "success" THEN "Ok" ELSE "ToolError")
  /\ SettingsStay /\ UNCHANGED command

-----------------------------------------------------------------------------
(* The command, the clock and the operator.                                *)
OnItsOwn == UNCHANGED <<tier, usable, toldToStop, overdue, runner, outcome, pipeFailed>>

StartsJob(j) ==
  /\ Shell \in alive /\ j \in Jobs \ alive /\ j \notin grouped
  /\ alive' = alive \union {j} /\ grouped' = grouped \union {j}
  /\ holding' = IF Shell \in holding THEN holding \union {j} ELSE holding
  /\ OnItsOwn /\ UNCHANGED <<shellEnd, written, unread>>

LeavesGroup(j) ==
  /\ j \in Jobs \intersect alive \intersect grouped
  /\ grouped' = grouped \ {j}
  /\ OnItsOwn /\ UNCHANGED <<alive, holding, shellEnd, written, unread>>

Prints(p) ==
  /\ p \in holding /\ unread < PipeRoom /\ written < MaxWritten
  /\ written' = written + 1 /\ unread' = unread + 1
  /\ OnItsOwn /\ UNCHANGED <<alive, holding, grouped, shellEnd>>

ClosesOutput(p) ==
  /\ p \in holding /\ holding' = holding \ {p}
  /\ OnItsOwn /\ UNCHANGED <<alive, grouped, shellEnd, written, unread>>

ProcessExits(p, how) ==
  /\ p \in alive
  /\ alive' = alive \ {p} /\ holding' = holding \ {p}
  /\ shellEnd' = IF p = Shell THEN how ELSE shellEnd
  /\ OnItsOwn /\ UNCHANGED <<grouped, written, unread>>

ToldToStop ==
  toldToStop' = TRUE /\ UNCHANGED <<tier, usable, overdue, runner, command, outcome, pipeFailed>>
TimePasses ==
  /\ runner \notin {"start", "done"} /\ overdue' = TRUE
  /\ UNCHANGED <<tier, usable, toldToStop, runner, command, outcome, pipeFailed>>

RunnerStep ==
  \/ DoesNotStart \/ CannotSpawn \/ Spawns
  \/ LooksAtToken \/ LooksAtClock
  \/ \E n \in 1 .. PipeRoom : Reads(n)
  \/ SelectTimesOut \/ SeesEndOfOutput \/ ReadFails \/ Reaps

CommandStep ==
  \/ \E j \in Jobs : StartsJob(j) \/ LeavesGroup(j)
  \/ \E p \in Processes :
       \/ Prints(p) \/ ClosesOutput(p)
       \/ \E how \in {"success", "failure", "signalled"} : ProcessExits(p, how)

RunnerNext == RunnerStep \/ CommandStep \/ ToldToStop \/ TimePasses

(* The harness runs and so does the clock; the command owes nothing.       *)
RunnerSpec == RunnerInit /\ [][RunnerNext]_runnerVars
RunnerFairSpec == RunnerSpec /\ WF_runnerVars(RunnerStep) /\ WF_runnerVars(TimePasses)

-----------------------------------------------------------------------------
Outcomes == [status : {"Ok", "ToolError", "Cancelled", "Timeout", "Refused"},
             stored : 0 .. OutputCap, truncated : BOOLEAN]
RunnerTypeOK ==
  /\ runner \in {"start", "token", "clock", "select", "reap", "done"}
  /\ holding \subseteq alive /\ alive \subseteq Processes /\ grouped \subseteq Processes
  /\ shellEnd \in {"not", "success", "failure", "signalled"}
  /\ written \in Nat /\ unread \in 0 .. PipeRoom /\ unread <= written
  /\ outcome \in Outcomes /\ pipeFailed \in BOOLEAN

(* What is reported is what happened: success is the shell's own, all that *)
(* was printed is there or said to be cut (unless the pipe itself failed,  *)
(* of which nothing is said), and of a command that was killed nothing of  *)
(* the process group goes on (sandbox.hpp:160).                            *)
OutcomeIsTrue ==
  runner = "done" =>
    /\ outcome.status = "Ok" => shellEnd = "success"
    /\ outcome.status \in {"Ok", "ToolError"} /\ ~pipeFailed =>
         /\ outcome.truncated <=> written > outcome.stored
         /\ outcome.truncated => outcome.stored = OutputCap
    /\ outcome.status = "Cancelled" => toldToStop
    /\ outcome.status = "Timeout" => overdue
    /\ outcome.status \in {"Cancelled", "Timeout"} => alive \intersect grouped = {}

(* "An unattended run cannot afford a command that never returns"          *)
(* (sandbox.cpp:527): whatever the command does, it is over one day.       *)
CommandReturns == runner # "start" ~> runner = "done"
=============================================================================
