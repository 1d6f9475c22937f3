----------------------------- MODULE JobControl -----------------------------
(***************************************************************************)
(* What the shell's job control promises (tsh.c, the table of job states   *)
(* and transitions that precede job_t): every job is in the foreground, in *)
(* the background or stopped, at most one job is in the foreground, and    *)
(* the shell starts or resumes a job only while no other job is there.     *)
(* `Documented' has the transitions of that table and no others; `Next'    *)
(* adds the one the code makes besides, the stop of a background job.      *)
(***************************************************************************)
CONSTANT Jobs

VARIABLE table          \* table[p]: the state of job p, or "absent"

TypeOK == table \in [Jobs -> {"absent", "FG", "BG", "ST"}]

Init == table = [p \in Jobs |-> "absent"]

NoOtherFG(p) == \A q \in Jobs : q # p => table[q] # "FG"

\* A command line starts job p.
Launch(p, st) == /\ table[p] = "absent"
                 /\ NoOtherFG(p)
                 /\ table' = [table EXCEPT ![p] = st]

\* bg resumes a stopped job in the background.
ResumeBackground(p) == /\ table[p] = "ST"
                       /\ NoOtherFG(p)
                       /\ table' = [table EXCEPT ![p] = "BG"]

\* fg takes a stopped or a background job to the foreground.
ResumeForeground(p) == /\ table[p] \in {"BG", "ST"}
                       /\ NoOtherFG(p)
                       /\ table' = [table EXCEPT ![p] = "FG"]

\* The foreground job is stopped (ctrl-z).
Stop(p) == /\ table[p] = "FG"
           /\ table' = [table EXCEPT ![p] = "ST"]

\* Job p terminates.
Finish(p) == /\ table[p] # "absent"
             /\ table' = [table EXCEPT ![p] = "absent"]

\* The transitions tsh.c documents, and jobs that come and go.
Documented == \E p \in Jobs : \/ \E st \in {"FG", "BG"} : Launch(p, st)
                              \/ ResumeBackground(p)
                              \/ ResumeForeground(p)
                              \/ Stop(p)
                              \/ Finish(p)

\* A background job is stopped.  The documented table does not have this
\* transition; sigchld_handler records the stop of any child.
StopBackground(p) == /\ table[p] = "BG"
                     /\ table' = [table EXCEPT ![p] = "ST"]

Next == Documented \/ \E p \in Jobs : StopBackground(p)

Spec == Init /\ [][Next]_table
=============================================================================
