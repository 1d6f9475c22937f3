------------------------------ MODULE JobList ------------------------------
(***************************************************************************)
(* The job table of the tiny shell (shlab-handout/tsh.c): the array `jobs' *)
(* of MAXJOBS slots, the counter `nextjid', and the helper routines that   *)
(* scan and change them.                                                   *)
(*                                                                         *)
(* The routines scan the array from its first slot and stop at the first   *)
(* match.  A scan that returns a pointer is a relation between its         *)
(* argument and the slot it returns, with slot 0 standing for NULL (the    *)
(* array's slots are numbered from 1).  Command lines are not modelled.    *)
(***************************************************************************)
EXTENDS Integers, FiniteSets

CONSTANTS
    MAXJOBS,    \* slots of the table (16 in tsh.c)
    Pids,       \* the process ids fork() may return
    JidBound    \* bound of the model: no job ID grows beyond it

ASSUME MaxJobsAssumption == MAXJOBS \in Nat \ {0}
ASSUME PidsAssumption == 0 \notin Pids
ASSUME JidBoundAssumption == JidBound \in Nat

VARIABLES
    jobs,       \* jobs[i]: the struct job_t in slot i
    nextjid     \* next job ID to allocate

tableVars == <<jobs, nextjid>>

Slots == 1..MAXJOBS
States == {"UNDEF", "FG", "BG", "ST"}
Job == [pid: Pids \cup {0}, jid: Nat, state: States]

\* The first slot of S in scan order, or NULL when S is empty.
First(i, S) == \/ i = 0 /\ S = {}
               \/ i \in S /\ \A k \in S : i <= k

clearjob == [pid |-> 0, jid |-> 0, state |-> "UNDEF"]

initjobs == jobs = [i \in Slots |-> clearjob]

\* m is the largest job ID of table t, 0 when no job ID is allocated.
maxjid(t, m) == /\ m \in {0} \cup {t[i].jid : i \in Slots}
                /\ \A i \in Slots : t[i].jid <= m

\* i is the slot getjobpid(p) returns.
getjobpid(p, i) == First(i, IF p = 0 THEN {} ELSE {k \in Slots : jobs[k].pid = p})

\* i is the slot getjobjid(j) returns.
getjobjid(j, i) == First(i, IF j < 1 THEN {} ELSE {k \in Slots : jobs[k].jid = j})

MutantAnyRunning(p) == \E i \in 0..MAXJOBS :
                           /\ First(i, {k \in Slots : jobs[k].state \in {"FG", "BG"}})
                           /\ p = IF i = 0 THEN 0 ELSE jobs[i].pid

\* p is the pid fgpid() returns: the pid in the first slot marked FG, else 0.
fgpid(p) == \E i \in 0..MAXJOBS :
                /\ First(i, {k \in Slots : jobs[k].state = "FG"})
                /\ p = IF i = 0 THEN 0 ELSE jobs[i].pid

\* addjob takes the first slot with pid 0 and stores the pid, the state and the
\* job ID one after the other.  Until the second store the slot keeps the state
\* it had, and the handlers of ctrl-c and ctrl-z may look at it.
FreeSlot(i) == First(i, {k \in Slots : jobs[k].pid = 0})

StorePid(i, p) == jobs' = [jobs EXCEPT ![i].pid = p] /\ UNCHANGED nextjid

StoreState(i, st) == jobs' = [jobs EXCEPT ![i].state = st] /\ UNCHANGED nextjid

StoreJid(i) == /\ jobs' = [jobs EXCEPT ![i].jid = nextjid]
               /\ nextjid' = IF nextjid + 1 > MAXJOBS THEN 1 ELSE nextjid + 1

MutantReuseMaxjid(p) ==
    \E i \in 0..MAXJOBS :
        /\ getjobpid(p, i)
        /\ \/ i = 0 /\ UNCHANGED tableVars
           \/ /\ i # 0
              /\ jobs' = [jobs EXCEPT ![i] = clearjob]
              /\ \E m \in {0} \cup {jobs[k].jid : k \in Slots} :
                    maxjid(jobs', m) /\ nextjid' = m

\* deletejob(p): clear the first slot that holds p and restart the job IDs
\* above the largest one still allocated; nothing when p is not listed.
deletejob(p) ==
    \E i \in 0..MAXJOBS :
        /\ getjobpid(p, i)
        /\ \/ i = 0 /\ UNCHANGED tableVars
           \/ /\ i # 0
              /\ jobs' = [jobs EXCEPT ![i] = clearjob]
              /\ \E m \in {0} \cup {jobs[k].jid : k \in Slots} :
                    maxjid(jobs', m) /\ nextjid' = m + 1

\* Job IDs have no bound in the code (a deletion restarts them above the
\* largest one in use): no job is started that could exceed JidBound.
JidRoom == nextjid <= JidBound /\ \A i \in Slots : jobs[i].jid < JidBound

\* The table when the shell starts.
TableInit == initjobs /\ nextjid = 1
=============================================================================
