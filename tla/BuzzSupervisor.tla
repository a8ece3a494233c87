--------------------------- MODULE BuzzSupervisor ---------------------------
(***************************************************************************)
(* scripts/buzz-agent-supervise.sh: one buzz-acp process per name listed   *)
(* in $BUZZ_AGENT_DIR/enabled.  Cron starts a supervisor every minute      *)
(* (buzz-agents-watchdog.sh); it may also loop.  What survives a process   *)
(* is a pid file per name and a lock file.  The lock belongs to an open    *)
(* file that every forked child shares until it closes fd 9, a pid file    *)
(* may outlive its process, and the kernel hands pids out again.           *)
(***************************************************************************)
EXTENDS Naturals, FiniteSets

CONSTANTS
  Names,       \* agent profiles
  Pids,        \* bound: the process ids of the container
  Supervisors, \* runs of the script that may overlap
  None,        \* no name, no process, an empty or missing pid file
  MaxLines,    \* bound: how often the file `enabled` may list a name
  MaxFaults,   \* bound: deaths, failed starts, kills and container restarts
  PromptExec   \* has a child become buzz-acp before the next sweep begins?

ASSUME LinesAssumption == MaxLines \in Nat \ {0}
ASSUME FaultsAssumption == MaxFaults \in Nat
ASSUME PromptAssumption == PromptExec \in BOOLEAN
ASSUME IdentityAssumption == None \notin Names \cup Pids /\ Supervisors \cap Pids = {}

VARIABLES
  lines,    \* lines[n]: how many lines of `enabled` hold n
  ready,    \* names whose .env exists and whose .key is not empty
  pidfile,  \* pidfile[n]: the content of <n>.pid
  proc,     \* proc[pid]: what runs under a pid
  lock,     \* the processes that hold the lock file's open file description
  pc,       \* pc[s]: off / sweep / record
  todo,     \* todo[s]: the lines s has still to read
  job,      \* job[s]: the name and the pid s has just forked for it
  lost,     \* history: children whose supervisor died before recording them
  faults    \* bound: faults so far

files == <<lines, ready>>
super == <<pc, todo, job>>
vars  == <<lines, ready, pidfile, proc, lock, pc, todo, job, lost, faults>>

-----------------------------------------------------------------------------
(* A child is "forked" while it shares the supervisor's descriptors,       *)
(* "closed" after `exec 9>&-`, and "agent" once buzz-acp runs, which is    *)
(* when /proc/<pid>/environ first shows its BUZZ_AGENT_PROFILE.            *)

Free        == [is |-> "free",  of |-> None]
Unrelated   == [is |-> "other", of |-> None]
Stage(i, n) == [is |-> i, of |-> n]

Children == {Stage(i, n) : i \in {"forked", "closed", "agent"}, n \in Names}
NoLines  == [n \in Names |-> 0]
NoJob    == [of |-> None, pid |-> None]

\* mutated form: `kill -0` alone, without the environment marker
AnyLivePid(n) ==
  /\ pidfile[n] # None
  /\ proc[pidfile[n]] # Free

\* is_running: a live process with n's marker in its environment
IsRunning(n) ==
  /\ pidfile[n] # None
  /\ proc[pidfile[n]] = Stage("agent", n)

Init ==
  /\ lines \in [Names -> 0 .. MaxLines]
  /\ ready \in SUBSET Names
  /\ pidfile = [n \in Names |-> None]
  /\ proc    = [p \in Pids |-> Free]
  /\ lock    = {}
  /\ pc      = [s \in Supervisors |-> "off"]
  /\ todo    = [s \in Supervisors |-> NoLines]
  /\ job     = [s \in Supervisors |-> NoJob]
  /\ lost    = {}
  /\ faults  = 0

-----------------------------------------------------------------------------
(* The supervisor.                                                         *)

Starting == \E p \in Pids : proc[p].is \in {"forked", "closed"}

\* mutated form: the lock is opened and never taken
NoFlock(s) ==
  /\ pc[s] = "off"
  /\ PromptExec => ~Starting
  /\ lock' = lock \cup {s}
  /\ pc'   = [pc EXCEPT ![s] = "sweep"]
  /\ todo' = [todo EXCEPT ![s] = lines]
  /\ UNCHANGED <<files, pidfile, proc, job, lost, faults>>

\* exec 9>"$LOCK"; flock -n 9 || exit 0
TryLock(s) ==
  /\ pc[s] = "off"
  /\ lock = {}
  /\ PromptExec => ~Starting
  /\ lock' = {s}
  /\ pc'   = [pc EXCEPT ![s] = "sweep"]
  /\ todo' = [todo EXCEPT ![s] = lines]
  /\ UNCHANGED <<files, pidfile, proc, job, lost, faults>>

ReadLine(s, n) ==
  /\ pc[s] = "sweep"
  /\ todo[s][n] > 0
  /\ todo' = [todo EXCEPT ![s][n] = @ - 1]

\* start_one's early returns: it runs already, or has no env or no key
Leave(s, n) ==
  /\ ReadLine(s, n)
  /\ IsRunning(n) \/ n \notin ready
  /\ UNCHANGED <<files, pidfile, proc, lock, pc, job, lost, faults>>

\* ( ... ) & : the child starts as a copy of the supervisor, lock included
Fork(s, n, p) ==
  /\ ReadLine(s, n)
  /\ ~IsRunning(n)
  /\ n \in ready
  /\ proc[p] = Free
  /\ proc' = [proc EXCEPT ![p] = Stage("forked", n)]
  /\ lock' = IF s \in lock THEN lock \cup {p} ELSE lock
  /\ pc'   = [pc EXCEPT ![s] = "record"]
  /\ job'  = [job EXCEPT ![s] = [of |-> n, pid |-> p]]
  /\ UNCHANGED <<files, pidfile, lost, faults>>

\* mutated form: the pid file is written only when there is none yet
RecordOnce(s) ==
  /\ pc[s] = "record"
  /\ pidfile' = [pidfile EXCEPT ![job[s].of] = IF @ = None THEN job[s].pid ELSE @]
  /\ pc'      = [pc EXCEPT ![s] = "sweep"]
  /\ job'     = [job EXCEPT ![s] = NoJob]
  /\ UNCHANGED <<files, proc, lock, todo, lost, faults>>

\* echo $! > "$pidf"
Record(s) ==
  /\ pc[s] = "record"
  /\ pidfile' = [pidfile EXCEPT ![job[s].of] = job[s].pid]
  /\ pc'      = [pc EXCEPT ![s] = "sweep"]
  /\ job'     = [job EXCEPT ![s] = NoJob]
  /\ UNCHANGED <<files, proc, lock, todo, lost, faults>>

SweepDone(s) == pc[s] = "sweep" /\ todo[s] = NoLines

\* --once
Exit(s) ==
  /\ SweepDone(s)
  /\ pc'   = [pc EXCEPT ![s] = "off"]
  /\ lock' = lock \ {s}
  /\ UNCHANGED <<files, pidfile, proc, todo, job, lost, faults>>

\* without a flag: sleep 15 and sweep again, under the same lock
SweepAgain(s) ==
  /\ SweepDone(s)
  /\ PromptExec => ~Starting
  /\ todo' = [todo EXCEPT ![s] = lines]
  /\ UNCHANGED <<files, pidfile, proc, lock, pc, job, lost, faults>>

-----------------------------------------------------------------------------
(* The child, between fork and buzz-acp.                                   *)

CloseLock(p) ==
  /\ proc[p].is = "forked"
  /\ proc' = [proc EXCEPT ![p].is = "closed"]
  /\ lock' = lock \ {p}
  /\ UNCHANGED <<files, pidfile, super, lost, faults>>

Exec(p) ==
  /\ proc[p].is = "closed"
  /\ proc' = [proc EXCEPT ![p].is = "agent"]
  /\ UNCHANGED <<files, pidfile, lock, super, lost, faults>>

-----------------------------------------------------------------------------
(* What happens around the script.                                         *)

Fault == faults < MaxFaults /\ faults' = faults + 1

\* buzz-acp exits or is killed, or the child fails before it gets there
Die(p) ==
  /\ Fault
  /\ proc[p] \in Children
  /\ proc' = [proc EXCEPT ![p] = Free]
  /\ lock' = lock \ {p}
  /\ lost' = lost \ {p}
  /\ UNCHANGED <<files, pidfile, super>>

\* The supervisor dies: killed, or ended by `set -e` when the pid file cannot
\* be written, which may already have emptied that file.
Kill(s) ==
  /\ Fault
  /\ pc[s] # "off"
  /\ pc'   = [pc EXCEPT ![s] = "off"]
  /\ todo' = [todo EXCEPT ![s] = NoLines]
  /\ job'  = [job EXCEPT ![s] = NoJob]
  /\ lock' = lock \ {s}
  /\ lost' = IF pc[s] = "record" /\ proc[job[s].pid] \in Children
             THEN lost \cup {job[s].pid} ELSE lost
  /\ \/ UNCHANGED pidfile
     \/ /\ pc[s] = "record"
        /\ pidfile' = [pidfile EXCEPT ![job[s].of] = None]
  /\ UNCHANGED <<files, proc>>

\* a container restart ends every process; the files are on a volume
Restart ==
  /\ Fault
  /\ proc' = [p \in Pids |-> Free]
  /\ lock' = {}
  /\ pc'   = [s \in Supervisors |-> "off"]
  /\ todo' = [s \in Supervisors |-> NoLines]
  /\ job'  = [s \in Supervisors |-> NoJob]
  /\ lost' = {}
  /\ UNCHANGED <<files, pidfile>>

\* a process that is none of ours takes a pid (one at a time)
OtherStarts(p) ==
  /\ proc[p] = Free
  /\ Unrelated \notin {proc[q] : q \in Pids}
  /\ proc' = [proc EXCEPT ![p] = Unrelated]
  /\ UNCHANGED <<files, pidfile, lock, super, lost, faults>>

OtherEnds(p) ==
  /\ proc[p] = Unrelated
  /\ proc' = [proc EXCEPT ![p] = Free]
  /\ UNCHANGED <<files, pidfile, lock, super, lost, faults>>

\* the administrator edits `enabled`, or a name's .env and .key
Edit(n) ==
  /\ \/ \E m \in 0 .. MaxLines : lines' = [lines EXCEPT ![n] = m] /\ UNCHANGED ready
     \/ ready' \in {ready \cup {n}, ready \ {n}} /\ UNCHANGED lines
  /\ UNCHANGED <<pidfile, proc, lock, super, lost, faults>>

Supervise(s) ==
  \/ TryLock(s)
  \/ \E n \in Names : Leave(s, n) \/ \E p \in Pids : Fork(s, n, p)
  \/ Record(s)
  \/ Exit(s)
  \/ SweepAgain(s)

Child(p) == CloseLock(p) \/ Exec(p)

Around ==
  \/ \E p \in Pids : Die(p) \/ OtherStarts(p) \/ OtherEnds(p)
  \/ \E s \in Supervisors : Kill(s)
  \/ Restart
  \/ \E n \in Names : Edit(n)

Next ==
  \/ \E s \in Supervisors : Supervise(s)
  \/ \E p \in Pids : Child(p)
  \/ Around

Spec == Init /\ [][Next]_vars

\* cron runs the script every minute; a running process gets on
Fairness ==
  /\ WF_vars(\E s \in Supervisors : TryLock(s))
  /\ \A s \in Supervisors : WF_vars(pc[s] # "off" /\ Supervise(s))
  /\ \A p \in Pids : WF_vars(Child(p))

FairSpec == Spec /\ Fairness

-----------------------------------------------------------------------------
(* Properties.                                                             *)

Busy(s) == pc[s] # "off"

Running(n) == \E p \in Pids : proc[p] = Stage("agent", n)

\* a child that is in the middle of being recorded
BeingRecorded(p) == \E s \in Supervisors : pc[s] = "record" /\ job[s].pid = p

\* Every variable has its type, the lock is never in the hands of a process
\* that became buzz-acp (the comment at fd 9), and a supervisor that runs
\* holds it.
TypeOK ==
  /\ lines \in [Names -> 0 .. MaxLines]
  /\ ready \subseteq Names
  /\ pidfile \in [Names -> Pids \cup {None}]
  /\ proc \in [Pids -> Children \cup {Free, Unrelated}]
  /\ pc \in [Supervisors -> {"off", "sweep", "record"}]
  /\ todo \in [Supervisors -> [Names -> 0 .. MaxLines]]
  /\ job \in [Supervisors -> [of : Names \cup {None}, pid : Pids \cup {None}]]
  /\ lock = {s \in Supervisors : Busy(s)} \cup {p \in Pids : proc[p].is = "forked"}
  /\ lost \subseteq {p \in Pids : proc[p] \in Children}
  /\ faults \in 0 .. MaxFaults

\* "One supervisor at a time": two sweeps never overlap, whoever was killed
\* and however long a child kept the lock it was forked with.
OneSweep == Cardinality({s \in Supervisors : Busy(s)}) <= 1

\* The pid file of a name leads to its process, through deaths, restarts and
\* reused pids; only a child whose supervisor died between the fork and the
\* pid file escapes it.
PidFileFindsAgent ==
  \A p \in Pids :
    proc[p] \in Children /\ p \notin lost /\ ~BeingRecorded(p)
      => pidfile[proc[p].of] = p

\* An agent that stays enabled and provisioned is always brought back.
AgentsComeBack ==
  \A n \in Names :
    <>[](lines[n] > 0 /\ n \in ready) => []<>Running(n)

=============================================================================
