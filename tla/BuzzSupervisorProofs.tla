------------------------- MODULE BuzzSupervisorProofs -------------------------
(***************************************************************************)
(* The Buzz supervisor for any number of agents, pids, overlapping runs of *)
(* the script and faults: two sweeps never overlap, and a pid file leads   *)
(* to its process.                                                         *)
(***************************************************************************)
EXTENDS BuzzSupervisor, FiniteSetTheorems, TLAPS

Starts(p) == proc[p].is \in {"forked", "closed"}

\* The lock as a mutex: OneSweep without counting.
Exclusive == \A s, t \in Supervisors : Busy(s) /\ Busy(t) => s = t

\* Between the fork and the pid file, a supervisor knows the name and the pid.
JobsTyped ==
  \A s \in Supervisors :
    pc[s] = "record" => job[s].of \in Names /\ job[s].pid \in Pids

\* While a sweep goes on, a child on its way to buzz-acp belongs to a name
\* whose line has been read: that child is invisible to is_running, so its
\* name must not be read again before the next sweep.
Swept ==
  \A s \in Supervisors, p \in Pids :
    Busy(s) /\ Starts(p) => todo[s][proc[p].of] = 0

\* In that time, the new child is the only process of
\* its name that a pid file could lead to, and its pid is not yet another
\* name's.
Recording ==
  \A s \in Supervisors : pc[s] = "record" =>
    /\ todo[s][job[s].of] = 0
    /\ \A p \in Pids : proc[p] \in Children =>
         IF p = job[s].pid THEN proc[p].of = job[s].of
         ELSE proc[p].of = job[s].of => p \in lost

LInv == TypeOK /\ Exclusive /\ JobsTyped
PInv == Swept /\ Recording /\ PidFileFindsAgent

-----------------------------------------------------------------------------
(* Types and the lock.                                                     *)

LEMMA StageType ==
  /\ \A n \in Names : \A i \in {"forked", "closed", "agent"} : Stage(i, n) \in Children
  /\ \A c \in Children : /\ c.is \in {"forked", "closed", "agent"}
                         /\ c.of \in Names /\ c = Stage(c.is, c.of)
  /\ Free \notin Children /\ Unrelated \notin Children
<1>1. \A n \in Names : \A i \in {"forked", "closed", "agent"} : Stage(i, n) \in Children
  BY DEF Children
<1>2. ASSUME NEW c \in Children
      PROVE  c.is \in {"forked", "closed", "agent"} /\ c.of \in Names /\ c = Stage(c.is, c.of)
  <2>1. PICK i \in {"forked", "closed", "agent"}, n \in Names : c = Stage(i, n)
    BY DEF Children
  <2>2. QED
    BY <2>1 DEF Stage
<1>3. Free \notin Children /\ Unrelated \notin Children
  BY <1>2 DEF Free, Unrelated
<1>4. QED
  BY <1>1, <1>2, <1>3

\* Going on to another stage leaves a child its name.
LEMMA NextStage ==
  ASSUME NEW c \in Children, NEW i
  PROVE  [c EXCEPT !.is = i] = Stage(i, c.of)
<1>1. c = [is |-> c.is, of |-> c.of]
  BY StageType DEF Stage
<1>2. QED
  BY <1>1 DEF Stage

LEMMA InitTypes == Init => LInv
  BY LinesAssumption, FaultsAssumption
     DEF Init, LInv, TypeOK, Exclusive, JobsTyped, Busy, NoLines, NoJob, Free

\* Taking the lock: nobody held it, so nobody else is busy.
LEMMA TryLockTypes ==
  ASSUME LInv, NEW s \in Supervisors, TryLock(s)
  PROVE  LInv'
<1>1. \A t \in Supervisors : pc[t] = "off"
  BY DEF LInv, TypeOK, TryLock, Busy
<1>2. \A p \in Pids : proc[p].is # "forked"
  BY DEF LInv, TypeOK, TryLock
<1>3. pc' = [pc EXCEPT ![s] = "sweep"] /\ lock' = {s} /\ todo' = [todo EXCEPT ![s] = lines]
      /\ UNCHANGED <<files, pidfile, proc, job, lost, faults>>
  BY DEF TryLock
<1>4. lock' = {t \in Supervisors : Busy(t)'} \cup {p \in Pids : proc'[p].is = "forked"}
  BY <1>1, <1>2, <1>3 DEF LInv, TypeOK, Busy
<1>5. Exclusive'
  BY <1>1, <1>3 DEF LInv, TypeOK, Exclusive, Busy
<1>6. JobsTyped'
  BY <1>3 DEF LInv, TypeOK, JobsTyped
<1>7. QED
  BY <1>3, <1>4, <1>5, <1>6 DEF LInv, TypeOK, files

LEMMA LeaveTypes ==
  ASSUME LInv, NEW s \in Supervisors, NEW n \in Names, Leave(s, n)
  PROVE  LInv'
<1>1. todo' \in [Supervisors -> [Names -> 0 .. MaxLines]]
  BY LinesAssumption DEF LInv, TypeOK, Leave, ReadLine
<1>2. QED
  BY <1>1 DEF LInv, TypeOK, Exclusive, JobsTyped, Busy, Leave, files

\* Forking: the child joins the holders of the lock its parent holds.
LEMMA ForkTypes ==
  ASSUME LInv, NEW s \in Supervisors, NEW n \in Names, NEW p \in Pids, Fork(s, n, p)
  PROVE  LInv'
<1>1. todo' \in [Supervisors -> [Names -> 0 .. MaxLines]]
  BY LinesAssumption DEF LInv, TypeOK, Fork, ReadLine
<1>2. pc[s] = "sweep" /\ s \in lock
  BY DEF LInv, TypeOK, Fork, ReadLine, Busy
<1>3. /\ proc' = [proc EXCEPT ![p] = Stage("forked", n)] /\ lock' = lock \cup {p}
      /\ pc' = [pc EXCEPT ![s] = "record"] /\ proc[p] = Free
      /\ job' = [job EXCEPT ![s] = [of |-> n, pid |-> p]]
      /\ UNCHANGED <<files, pidfile, lost, faults>>
  BY <1>2 DEF Fork
<1>4. proc' \in [Pids -> Children \cup {Free, Unrelated}]
  BY <1>3, StageType DEF LInv, TypeOK
<1>5. \A q \in Pids : proc'[q].is = "forked" <=> q = p \/ proc[q].is = "forked"
  BY <1>3 DEF LInv, TypeOK, Stage
<1>6. \A t \in Supervisors : Busy(t)' <=> Busy(t)
  BY <1>2, <1>3 DEF LInv, TypeOK, Busy
<1>7. lock' = {t \in Supervisors : Busy(t)'} \cup {q \in Pids : proc'[q].is = "forked"}
  BY <1>3, <1>5, <1>6 DEF LInv, TypeOK
<1>8. lost' \subseteq {q \in Pids : proc'[q] \in Children}
  BY <1>3, StageType DEF LInv, TypeOK
<1>9. JobsTyped'
  BY <1>3 DEF LInv, TypeOK, JobsTyped
<1>10. QED
  BY <1>1, <1>3, <1>4, <1>6, <1>7, <1>8, <1>9 DEF LInv, TypeOK, Exclusive, files

LEMMA RecordTypes ==
  ASSUME LInv, NEW s \in Supervisors, Record(s)
  PROVE  LInv'
<1>1. pidfile' \in [Names -> Pids \cup {None}]
  BY DEF LInv, TypeOK, JobsTyped, Record
<1>2. /\ pc[s] = "record" /\ pc' = [pc EXCEPT ![s] = "sweep"]
      /\ job' = [job EXCEPT ![s] = NoJob]
      /\ UNCHANGED <<files, proc, lock, todo, lost, faults>>
  BY DEF Record
<1>3. \A t \in Supervisors : Busy(t)' <=> Busy(t)
  BY <1>2 DEF LInv, TypeOK, Busy
<1>4. QED
  BY <1>1, <1>2, <1>3 DEF LInv, TypeOK, Exclusive, JobsTyped, NoJob, files

LEMMA ExitTypes ==
  ASSUME LInv, NEW s \in Supervisors, Exit(s)
  PROVE  LInv'
<1>1. /\ pc' = [pc EXCEPT ![s] = "off"] /\ lock' = lock \ {s}
      /\ UNCHANGED <<files, pidfile, proc, todo, job, lost, faults>>
  BY DEF Exit
<1>2. \A t \in Supervisors : Busy(t)' <=> Busy(t) /\ t # s
  BY <1>1 DEF LInv, TypeOK, Busy
<1>3. lock' = {t \in Supervisors : Busy(t)'} \cup {q \in Pids : proc'[q].is = "forked"}
  BY <1>1, <1>2, IdentityAssumption DEF LInv, TypeOK
<1>4. QED
  BY <1>1, <1>2, <1>3 DEF LInv, TypeOK, Exclusive, JobsTyped, files

LEMMA SweepAgainTypes ==
  ASSUME LInv, NEW s \in Supervisors, SweepAgain(s)
  PROVE  LInv'
  BY DEF LInv, TypeOK, Exclusive, JobsTyped, Busy, SweepAgain, files

\* A process whose entry is replaced: what is left to show is who holds the
\* lock afterwards.
LEMMA ChildTypes ==
  ASSUME LInv, NEW p \in Pids, Child(p)
  PROVE  LInv'
<1>1. proc[p] \in Children /\ UNCHANGED <<files, pidfile, super, lost, faults>>
  BY DEF LInv, TypeOK, Child, CloseLock, Exec, Free, Unrelated
<1>2. PICK i \in {"closed", "agent"} :
        /\ proc' = [proc EXCEPT ![p] = Stage(i, proc[p].of)]
        /\ lock' = lock \ {p}
  <2>1. CASE CloseLock(p)
    <3>1. proc' = [proc EXCEPT ![p] = [proc[p] EXCEPT !.is = "closed"]] /\ lock' = lock \ {p}
      BY <2>1, Zenon DEF CloseLock
    <3>2. QED
      BY <3>1, <1>1, NextStage
  <2>2. CASE Exec(p)
    <3>1. p \notin lock
      BY <2>2, IdentityAssumption DEF LInv, TypeOK, Exec
    <3>2. proc' = [proc EXCEPT ![p] = [proc[p] EXCEPT !.is = "agent"]] /\ lock' = lock
      BY <2>2, Zenon DEF Exec
    <3>3. lock' = lock \ {p}
      BY <3>1, <3>2
    <3>4. QED
      BY <3>2, <3>3, <1>1, NextStage
  <2>3. QED
    BY <2>1, <2>2 DEF Child
<1>3. proc' \in [Pids -> Children \cup {Free, Unrelated}]
  BY <1>1, <1>2, StageType DEF LInv, TypeOK
<1>4. \A q \in Pids : proc'[q].is = "forked" <=> q # p /\ proc[q].is = "forked"
  BY <1>2 DEF LInv, TypeOK, Stage
<1>5. lock' = {t \in Supervisors : Busy(t)'} \cup {q \in Pids : proc'[q].is = "forked"}
  BY <1>1, <1>2, <1>4, IdentityAssumption DEF LInv, TypeOK, Busy, super
<1>6. \A q \in Pids : proc[q] \in Children => proc'[q] \in Children
  BY <1>1, <1>2, StageType DEF LInv, TypeOK
<1>7. QED
  BY <1>1, <1>3, <1>5, <1>6 DEF LInv, TypeOK, Exclusive, JobsTyped, Busy, files, super

LEMMA DieTypes ==
  ASSUME LInv, NEW p \in Pids, Die(p)
  PROVE  LInv'
<1>1. /\ proc' = [proc EXCEPT ![p] = Free] /\ lock' = lock \ {p}
      /\ lost' = lost \ {p} /\ UNCHANGED <<files, pidfile, super>>
      /\ faults' \in 0 .. MaxFaults
  BY FaultsAssumption DEF LInv, TypeOK, Die, Fault
<1>2. \A q \in Pids : proc'[q].is = "forked" <=> q # p /\ proc[q].is = "forked"
  BY <1>1 DEF LInv, TypeOK, Free
<1>3. lock' = {t \in Supervisors : Busy(t)'} \cup {q \in Pids : proc'[q].is = "forked"}
  BY <1>1, <1>2, IdentityAssumption DEF LInv, TypeOK, Busy, super
<1>4. QED
  BY <1>1, <1>3 DEF LInv, TypeOK, Exclusive, JobsTyped, Busy, files, super

LEMMA KillTypes ==
  ASSUME LInv, NEW s \in Supervisors, Kill(s)
  PROVE  LInv'
<1>1. /\ pc' = [pc EXCEPT ![s] = "off"] /\ lock' = lock \ {s}
      /\ todo' = [todo EXCEPT ![s] = NoLines] /\ job' = [job EXCEPT ![s] = NoJob]
      /\ UNCHANGED <<files, proc>> /\ faults' \in 0 .. MaxFaults
  BY FaultsAssumption DEF LInv, TypeOK, Kill, Fault
<1>2. \A t \in Supervisors : Busy(t)' <=> Busy(t) /\ t # s
  BY <1>1 DEF LInv, TypeOK, Busy
<1>3. lock' = {t \in Supervisors : Busy(t)'} \cup {q \in Pids : proc'[q].is = "forked"}
  BY <1>1, <1>2, IdentityAssumption DEF LInv, TypeOK
<1>4. pidfile' \in [Names -> Pids \cup {None}]
  BY DEF LInv, TypeOK, Kill
<1>5. lost' \subseteq {q \in Pids : proc'[q] \in Children}
  BY <1>1 DEF LInv, TypeOK, JobsTyped, Kill
<1>6. NoLines \in [Names -> 0 .. MaxLines] /\ NoJob \in [of : Names \cup {None}, pid : Pids \cup {None}]
  BY LinesAssumption DEF NoLines, NoJob
<1>7. QED
  BY <1>1, <1>2, <1>3, <1>4, <1>5, <1>6 DEF LInv, TypeOK, Exclusive, JobsTyped, files
LEMMA RestartTypes ==
  ASSUME LInv, Restart
  PROVE  LInv'
<1>1. NoLines \in [Names -> 0 .. MaxLines] /\ NoJob \in [of : Names \cup {None}, pid : Pids \cup {None}]
  BY LinesAssumption DEF NoLines, NoJob
<1>2. QED
  BY <1>1, FaultsAssumption
     DEF LInv, TypeOK, Exclusive, JobsTyped, Busy, Restart, Fault, files, Free

LEMMA OtherTypes ==
  ASSUME LInv, NEW p \in Pids, OtherStarts(p) \/ OtherEnds(p)
  PROVE  LInv'
<1>1. /\ proc' = [proc EXCEPT ![p] = IF proc[p] = Free THEN Unrelated ELSE Free]
      /\ proc[p] \in {Free, Unrelated}
      /\ UNCHANGED <<files, pidfile, lock, super, lost, faults>>
  BY DEF OtherStarts, OtherEnds, Free, Unrelated
<1>2. \A q \in Pids : proc'[q].is = "forked" <=> proc[q].is = "forked"
  BY <1>1 DEF LInv, TypeOK, Free, Unrelated
<1>3. \A q \in Pids : proc[q] \in Children => proc'[q] \in Children
  BY <1>1, StageType DEF LInv, TypeOK
<1>4. lock' = {t \in Supervisors : Busy(t)'} \cup {q \in Pids : proc'[q].is = "forked"}
  BY <1>1, <1>2 DEF LInv, TypeOK, Busy, super
<1>5. QED
  BY <1>1, <1>3, <1>4 DEF LInv, TypeOK, Exclusive, JobsTyped, Busy, files, super

LEMMA EditTypes ==
  ASSUME LInv, NEW n \in Names, Edit(n)
  PROVE  LInv'
  BY DEF LInv, TypeOK, Exclusive, JobsTyped, Busy, Edit, super

LEMMA StepTypes == LInv /\ [Next]_vars => LInv'
<1> SUFFICES ASSUME LInv, [Next]_vars PROVE LInv'
  OBVIOUS
<1>1. CASE UNCHANGED vars
  BY <1>1 DEF LInv, TypeOK, Exclusive, JobsTyped, Busy, vars
<1>2. ASSUME NEW s \in Supervisors, Supervise(s) PROVE LInv'
  BY <1>2, TryLockTypes, LeaveTypes, ForkTypes, RecordTypes, ExitTypes,
     SweepAgainTypes DEF Supervise
<1>3. ASSUME Around PROVE LInv'
  BY <1>3, DieTypes, OtherTypes, KillTypes, RestartTypes, EditTypes DEF Around
<1>4. QED
  BY <1>1, <1>2, <1>3, ChildTypes DEF Next

THEOREM TypeCorrect == Spec => []TypeOK
<1>1. LInv => TypeOK
  BY DEF LInv
<1>2. QED
  BY <1>1, InitTypes, StepTypes, PTL DEF Spec

\* "One supervisor at a time", for any number of runs that overlap, names
\* listed any number of times, and faults: the supervisors that are busy hold
\* the lock, and it is taken only from nobody.
THEOREM SweepsExclude == Spec => []OneSweep
<1>1. LInv => OneSweep
  <2> SUFFICES ASSUME LInv PROVE OneSweep
    OBVIOUS
  <2> DEFINE busy == {s \in Supervisors : Busy(s)}
  <2> SUFFICES Cardinality(busy) <= 1
    BY DEF OneSweep
  <2> HIDE DEF busy
  <2>1. CASE busy = {}
    BY <2>1, FS_EmptySet
  <2>2. CASE \E s \in busy : TRUE
    <3>1. PICK s \in busy : TRUE
      BY <2>2
    <3>2. busy = {s}
      BY <3>1 DEF busy, LInv, Exclusive
    <3>3. Cardinality(busy) = 1
      BY <3>2, FS_Singleton, Zenon
    <3>4. QED
      BY <3>3
  <2>3. QED
    BY <2>1, <2>2
<1>2. QED
  BY <1>1, InitTypes, StepTypes, PTL DEF Spec

-----------------------------------------------------------------------------
(* Pid files.  A name is read once in a sweep, and a child has become      *)
(* buzz-acp before the next one: without either, is_running overlooks a    *)
(* child that is still starting, and a second one takes over its pid file. *)

OncePerSweep == MaxLines = 1 /\ PromptExec

LEMMA InitPids == Init => PInv
  BY StageType DEF Init, PInv, Swept, Recording, PidFileFindsAgent, Busy

\* A sweep begins when no child is starting.
LEMMA SweepPids ==
  ASSUME LInv, PInv, OncePerSweep, NEW s \in Supervisors, TryLock(s) \/ SweepAgain(s)
  PROVE  PInv'
<1>1. /\ pc' = [pc EXCEPT ![s] = "sweep"] /\ pc[s] # "record"
      /\ todo' = [todo EXCEPT ![s] = lines]
      /\ UNCHANGED <<pidfile, proc, job, lost>>
  BY DEF LInv, TypeOK, TryLock, SweepAgain, SweepDone
<1>2. \A p \in Pids : ~Starts(p)
  BY DEF OncePerSweep, TryLock, SweepAgain, Starting, Starts
<1>3. Swept'
  BY <1>1, <1>2 DEF Swept, Starts
<1>4. Recording'
  BY <1>1 DEF LInv, TypeOK, PInv, Recording
<1>5. \A p \in Pids : BeingRecorded(p)' <=> BeingRecorded(p)
  BY <1>1 DEF LInv, TypeOK, BeingRecorded
<1>6. PidFileFindsAgent'
  BY <1>1, <1>5 DEF PInv, PidFileFindsAgent
<1>7. QED
  BY <1>3, <1>4, <1>6 DEF PInv

\* Reading a line, and leaving it at that.
LEMMA LeavePids ==
  ASSUME LInv, PInv, NEW s \in Supervisors, NEW n \in Names, Leave(s, n)
  PROVE  PInv'
<1>1. /\ todo' = [todo EXCEPT ![s][n] = @ - 1] /\ todo[s][n] > 0
      /\ UNCHANGED <<pidfile, proc, pc, job, lost>>
  BY DEF Leave, ReadLine
<1>2. \A t \in Supervisors, m \in Names : todo[t][m] = 0 => todo'[t][m] = 0
  BY <1>1 DEF LInv, TypeOK
<1>3. \A p \in Pids : Starts(p) => proc[p].of \in Names
  BY StageType DEF LInv, TypeOK, Starts, Free, Unrelated
<1>4. Swept'
  BY <1>1, <1>2, <1>3 DEF PInv, Swept, Starts, Busy
<1>5. Recording'
  BY <1>1, <1>2 DEF LInv, JobsTyped, PInv, Recording
<1>6. QED
  BY <1>1, <1>4, <1>5 DEF PInv, PidFileFindsAgent, BeingRecorded

\* A name is forked only when no process that its pid file could lead to is
\* left: one that is starting would have had its line read, one that runs is
\* what is_running looks for.
LEMMA NoneLeft ==
  ASSUME LInv, PInv, NEW s \in Supervisors, NEW n \in Names, NEW p \in Pids, Fork(s, n, p),
         NEW q \in Pids, proc[q] \in Children, proc[q].of = n
  PROVE  q \in lost
<1>1. /\ pc[s] = "sweep" /\ todo[s][n] > 0 /\ ~IsRunning(n)
  BY DEF Fork, ReadLine
<1>2. ~Starts(q)
  BY <1>1 DEF PInv, Swept, Busy
<1>3. proc[q] = Stage("agent", n)
  BY <1>2, StageType DEF Starts
<1>4. ~BeingRecorded(q)
  BY <1>1 DEF LInv, Exclusive, Busy, BeingRecorded
<1>5. SUFFICES ASSUME q \notin lost PROVE FALSE
  OBVIOUS
<1>6. pidfile[n] = q
  BY <1>4, <1>5 DEF PInv, PidFileFindsAgent
<1>7. QED
  BY <1>1, <1>3, <1>6, IdentityAssumption DEF IsRunning

LEMMA ForkPids ==
  ASSUME LInv, PInv, OncePerSweep,
         NEW s \in Supervisors, NEW n \in Names, NEW p \in Pids, Fork(s, n, p)
  PROVE  PInv'
<1>1. /\ pc' = [pc EXCEPT ![s] = "record"] /\ pc[s] = "sweep"
      /\ todo' = [todo EXCEPT ![s][n] = @ - 1] /\ todo[s][n] > 0
      /\ proc[p] = Free /\ proc' = [proc EXCEPT ![p] = Stage("forked", n)]
      /\ job' = [job EXCEPT ![s] = [of |-> n, pid |-> p]]
      /\ UNCHANGED <<pidfile, lost>>
  BY DEF Fork, ReadLine
<1>2. todo[s][n] \in 0 .. 1
  BY DEF LInv, TypeOK, OncePerSweep
<1>3. todo'[s][n] = 0
  BY <1>1, <1>2 DEF LInv, TypeOK
<1>4. \A t \in Supervisors, m \in Names : todo[t][m] = 0 => todo'[t][m] = 0
  BY <1>1 DEF LInv, TypeOK
<1>5. \A t \in Supervisors : (Busy(t)' <=> Busy(t)) /\ (Busy(t) => t = s)
  BY <1>1 DEF LInv, TypeOK, Exclusive, Busy
<1>6. \A q \in Pids : q # p => proc'[q] = proc[q]
  BY <1>1 DEF LInv, TypeOK
<1>7. proc'[p] = Stage("forked", n) /\ proc'[p].of = n /\ p \notin lost
  BY <1>1, StageType DEF LInv, TypeOK, Stage
<1>8. Swept'
  <2> SUFFICES ASSUME NEW t \in Supervisors, NEW q \in Pids, Busy(t)', Starts(q)'
               PROVE  todo'[t][proc'[q].of] = 0
    BY DEF Swept
  <2>1. t = s /\ Busy(t)
    BY <1>5
  <2>2. CASE q = p
    BY <2>1, <2>2, <1>3, <1>7
  <2>3. CASE q # p
    <3>1. Starts(q) /\ proc[q].of \in Names
      BY <2>3, <1>6, StageType DEF LInv, TypeOK, Starts, Free, Unrelated
    <3>2. QED
      BY <2>1, <2>3, <3>1, <1>4, <1>6 DEF PInv, Swept
  <2>4. QED
    BY <2>2, <2>3
<1>9. Recording'
  <2> SUFFICES ASSUME NEW t \in Supervisors, pc'[t] = "record"
               PROVE  /\ todo'[t][job'[t].of] = 0
                      /\ \A q \in Pids : proc'[q] \in Children =>
                           IF q = job'[t].pid THEN proc'[q].of = job'[t].of
                           ELSE proc'[q].of = job'[t].of => q \in lost'
    BY DEF Recording
  <2>1. t = s
    BY <1>5 DEF Busy
  <2>2. job'[t].of = n /\ job'[t].pid = p
    BY <1>1, <2>1 DEF LInv, TypeOK
  <2>3. QED
    BY <2>1, <2>2, <1>1, <1>3, <1>6, <1>7, NoneLeft
<1>10. PidFileFindsAgent'
  <2> SUFFICES ASSUME NEW q \in Pids, proc'[q] \in Children, q \notin lost', ~BeingRecorded(q)'
               PROVE  pidfile'[proc'[q].of] = q
    BY DEF PidFileFindsAgent
  <2>1. BeingRecorded(p)'
    BY <1>1 DEF LInv, TypeOK, BeingRecorded
  <2>2. ~BeingRecorded(q)
    BY <1>1, <1>5 DEF BeingRecorded, Busy
  <2>3. QED
    BY <2>1, <2>2, <1>1, <1>6 DEF PInv, PidFileFindsAgent
<1>11. QED
  BY <1>8, <1>9, <1>10 DEF PInv

\* The pid file is written: no other process of the name counts on it.
LEMMA RecordPids ==
  ASSUME LInv, PInv, NEW s \in Supervisors, Record(s)
  PROVE  PInv'
<1>1. /\ pc[s] = "record" /\ pc' = [pc EXCEPT ![s] = "sweep"]
      /\ pidfile' = [pidfile EXCEPT ![job[s].of] = job[s].pid]
      /\ job' = [job EXCEPT ![s] = NoJob]
      /\ UNCHANGED <<proc, todo, lost>>
  BY DEF Record
<1>2. \A t \in Supervisors : pc'[t] # "record" /\ (Busy(t)' <=> Busy(t))
  BY <1>1 DEF LInv, TypeOK, Exclusive, Busy
<1>3. Swept' /\ Recording'
  BY <1>1, <1>2 DEF PInv, Swept, Recording, Starts
<1>4. PidFileFindsAgent'
  <2> SUFFICES ASSUME NEW q \in Pids, proc[q] \in Children, q \notin lost
               PROVE  pidfile'[proc[q].of] = q
    BY <1>1 DEF PidFileFindsAgent
  <2>1. proc[q].of \in Names
    BY StageType
  <2>2. CASE q = job[s].pid
    BY <2>1, <2>2, <1>1 DEF LInv, TypeOK, PInv, Recording
  <2>3. CASE q # job[s].pid
    <3>1. proc[q].of # job[s].of
      BY <2>3, <1>1 DEF PInv, Recording
    <3>2. ~BeingRecorded(q)
      BY <2>3, <1>1 DEF LInv, Exclusive, Busy, BeingRecorded
    <3>3. QED
      BY <2>1, <3>1, <3>2, <1>1 DEF LInv, TypeOK, PInv, PidFileFindsAgent
  <2>4. QED
    BY <2>2, <2>3
<1>5. QED
  BY <1>3, <1>4 DEF PInv

LEMMA ExitPids ==
  ASSUME LInv, PInv, NEW s \in Supervisors, Exit(s)
  PROVE  PInv'
<1>1. /\ pc[s] = "sweep" /\ pc' = [pc EXCEPT ![s] = "off"]
      /\ UNCHANGED <<pidfile, proc, todo, job, lost>>
  BY DEF Exit, SweepDone
<1>2. \A t \in Supervisors : (Busy(t)' => Busy(t)) /\ (pc'[t] = "record" <=> pc[t] = "record")
  BY <1>1 DEF LInv, TypeOK, Busy
<1>3. QED
  BY <1>1, <1>2 DEF PInv, Swept, Starts, Recording, PidFileFindsAgent, BeingRecorded
\* A child goes on to its next stage under the same name.
LEMMA ChildPids ==
  ASSUME LInv, PInv, NEW p \in Pids, Child(p)
  PROVE  PInv'
<1>1. Starts(p) /\ proc[p] \in Children /\ UNCHANGED <<pidfile, pc, todo, job, lost>>
  BY DEF LInv, TypeOK, Child, CloseLock, Exec, Starts, super, Free, Unrelated
<1>2. PICK i \in {"closed", "agent"} :
        proc' = [proc EXCEPT ![p] = Stage(i, proc[p].of)]
  <2>1. PICK i \in {"closed", "agent"} :
          proc' = [proc EXCEPT ![p] = [proc[p] EXCEPT !.is = i]]
    BY Zenon DEF Child, CloseLock, Exec
  <2>2. QED
    BY <2>1, <1>1, NextStage
<1>3. \A q \in Pids : /\ proc'[q] \in Children <=> proc[q] \in Children
                      /\ proc'[q].of = proc[q].of
                      /\ Starts(q)' => Starts(q)
  <2>1. ASSUME NEW q \in Pids, q # p
        PROVE  proc'[q] = proc[q]
    BY <1>2, <2>1 DEF LInv, TypeOK
  <2>2. /\ proc'[p] \in Children /\ proc'[p].of = proc[p].of
    BY <1>1, <1>2, StageType DEF LInv, TypeOK, Stage
  <2>3. QED
    BY <1>1, <2>1, <2>2 DEF Starts
<1>4. \A q \in Pids : BeingRecorded(q)' <=> BeingRecorded(q)
  BY <1>1 DEF BeingRecorded
<1>5. Swept'
  BY <1>1, <1>3 DEF PInv, Swept, Busy
<1>6. Recording'
  BY <1>1, <1>3 DEF PInv, Recording
<1>7. PidFileFindsAgent'
  BY <1>1, <1>3, <1>4 DEF PInv, PidFileFindsAgent
<1>8. QED
  BY <1>5, <1>6, <1>7 DEF PInv

\* A process that is no child appears or disappears, or a child ends.
LEMMA GonePids ==
  ASSUME LInv, PInv, NEW p \in Pids, Die(p) \/ OtherStarts(p) \/ OtherEnds(p)
  PROVE  PInv'
<1>1. /\ \E new \in {Free, Unrelated} : proc' = [proc EXCEPT ![p] = new]
      /\ UNCHANGED <<pidfile, pc, todo, job>>
      /\ \A q \in Pids : q # p /\ q \in lost => q \in lost'
      /\ lost' \subseteq lost
  BY DEF Die, OtherStarts, OtherEnds, super
<1>2. \A q \in Pids : q # p => proc'[q] = proc[q]
  BY <1>1 DEF LInv, TypeOK
<1>3. proc'[p] \notin Children /\ ~Starts(p)'
  BY <1>1, StageType DEF LInv, TypeOK, Starts, Free, Unrelated
<1>4. \A q \in Pids : BeingRecorded(q)' <=> BeingRecorded(q)
  BY <1>1 DEF BeingRecorded
<1>5. Swept'
  <2>1. \A q \in Pids : Starts(q)' => Starts(q) /\ proc'[q] = proc[q]
    BY <1>2, <1>3 DEF Starts
  <2>2. QED
    BY <1>1, <2>1 DEF PInv, Swept, Busy
<1>6. Recording'
  BY <1>1, <1>2, <1>3 DEF PInv, Recording
<1>7. PidFileFindsAgent'
  BY <1>1, <1>2, <1>3, <1>4 DEF PInv, PidFileFindsAgent
<1>8. QED
  BY <1>5, <1>6, <1>7 DEF PInv

\* The supervisor dies: the child it was recording is lost, and if the pid file
\* was emptied already, no other process counted on it.
LEMMA KillPids ==
  ASSUME LInv, PInv, NEW s \in Supervisors, Kill(s)
  PROVE  PInv'
<1>1. /\ pc[s] # "off" /\ pc' = [pc EXCEPT ![s] = "off"]
      /\ todo' = [todo EXCEPT ![s] = NoLines] /\ job' = [job EXCEPT ![s] = NoJob]
      /\ UNCHANGED proc
  BY DEF Kill
<1>2. \A t \in Supervisors : ~Busy(t)' /\ (Busy(t) => t = s)
  BY <1>1 DEF LInv, TypeOK, Exclusive, Busy
<1>3. Swept' /\ Recording'
  BY <1>2 DEF Swept, Recording, Busy
<1>4. lost \subseteq lost'
  BY DEF Kill
<1>5. PidFileFindsAgent'
  <2> SUFFICES ASSUME NEW q \in Pids, proc[q] \in Children, q \notin lost'
               PROVE  pidfile'[proc[q].of] = q
    BY <1>1 DEF PidFileFindsAgent
  <2>1. ~BeingRecorded(q)
    BY <1>2 DEF Kill, BeingRecorded, Busy
  <2>2. pidfile[proc[q].of] = q /\ proc[q].of \in Names
    BY <1>4, <2>1, StageType DEF PInv, PidFileFindsAgent
  <2>3. pc[s] = "record" => proc[q].of # job[s].of
    BY <1>4, <2>1 DEF PInv, Recording, BeingRecorded
  <2>4. QED
    BY <2>2, <2>3 DEF LInv, TypeOK, Kill
<1>6. QED
  BY <1>3, <1>5 DEF PInv

LEMMA StepPids == ASSUME OncePerSweep PROVE LInv /\ PInv /\ [Next]_vars => PInv'
<1> SUFFICES ASSUME LInv, PInv, [Next]_vars PROVE PInv'
  OBVIOUS
<1>1. CASE UNCHANGED vars \/ \E n \in Names : Edit(n)
  BY <1>1 DEF vars, Edit, super, PInv, Swept, Starts, Recording, PidFileFindsAgent,
     BeingRecorded, Busy
<1>2. CASE Restart
  <2>1. (\A p \in Pids : proc'[p] = Free) /\ (\A s \in Supervisors : pc'[s] = "off")
    BY <1>2 DEF Restart
  <2>2. Swept' /\ Recording'
    BY <2>1 DEF Swept, Recording, Busy
  <2>3. \A p \in Pids : proc'[p] \notin Children
    BY <2>1, StageType
  <2>4. PidFileFindsAgent'
    BY <2>3 DEF PidFileFindsAgent
  <2>5. QED
    BY <2>2, <2>4 DEF PInv
<1>3. ASSUME NEW s \in Supervisors, Supervise(s) PROVE PInv'
  BY <1>3, SweepPids, LeavePids, ForkPids, RecordPids, ExitPids DEF Supervise
<1>4. QED
  BY <1>1, <1>2, <1>3, ChildPids, GonePids, KillPids DEF Next, Around

\* The pid file of a name leads to its process, for any number of deaths,
\* kills, restarts, strangers under old pids, edits and overlapping runs,
\* provided that `enabled` lists no name twice and children start promptly.
THEOREM PidFilesLead == ASSUME OncePerSweep PROVE Spec => []PidFileFindsAgent
<1>1. Init => LInv /\ PInv
  BY InitTypes, InitPids
<1>2. LInv /\ PInv /\ [Next]_vars => (LInv /\ PInv)'
  BY StepTypes, StepPids
<1>3. PInv => PidFileFindsAgent
  BY DEF PInv
<1>4. QED
  BY <1>1, <1>2, <1>3, PTL DEF Spec
=============================================================================
