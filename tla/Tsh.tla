-------------------------------- MODULE Tsh --------------------------------
(***************************************************************************)
(* The tiny shell (shlab-handout/tsh.c): one thread that reads and         *)
(* evaluates command lines, its handlers for SIGCHLD, SIGINT and SIGTSTP,  *)
(* and the processes it forks.                                             *)
(*                                                                         *)
(* A handler interrupts the main program, or another handler (Signal()     *)
(* installs each one with an empty sa_mask, so only its own signal is held *)
(* back while it runs), at any point between two steps of the one it       *)
(* interrupts, and runs to its end before the interrupted code goes on:    *)
(* level[s] is the place of the handler of s on the stack of active        *)
(* handlers, 0 when it is not active, and depth the height of that stack.  *)
(* Each step below reads or writes the shared job table at most once, or   *)
(* makes one system call.  Pending signals of one kind coalesce.           *)
(***************************************************************************)
EXTENDS JobList

CONSTANTS
    ForkMayFail,    \* whether fork() may return -1
    Keys,           \* the signals typed at the keyboard (ctrl-c, ctrl-z)
    OutsideStops    \* whether jobs are also stopped by other signals

ASSUME ForkMayFailAssumption == ForkMayFail \in BOOLEAN
ASSUME KeysAssumption == Keys \subseteq {"INT", "TSTP"}
ASSUME OutsideStopsAssumption == OutsideStops \in BOOLEAN

VARIABLES
    pc,         \* where the main program is
    cmd,        \* eval's flag bg, or do_bgfg's command: "fg" or "bg"
    mpid,       \* local variable pid of eval, do_bgfg and waitfg
    slot,       \* local variable job of do_bgfg and waitfg; i of listjobs, addjob
    proc,       \* proc[p]: process p as the kernel sees it
    pending,    \* signals generated for the shell and not yet delivered
    blocked,    \* whether SIGCHLD is in the shell's signal mask
    level, depth,       \* the stack of active handlers
    hpc,        \* hpc[s]: where the handler of s is
    hpid,       \* hpid[s]: local variable pid (wpid) of the handler of s
    hstat       \* local variable child_status of sigchld_handler

mainVars == <<pc, cmd, mpid, slot>>
handlerVars == <<level, depth, hpc, hpid, hstat>>
vars == <<jobs, nextjid, pc, cmd, mpid, slot, proc, pending, blocked,
          level, depth, hpc, hpid, hstat>>

Sigs == {"CHLD", "INT", "TSTP"}

MainPcs == {"prompt", "block", "fork", "add", "add_state", "add_jid", "print", "unblock",
            "wait_get", "wait_test", "wait_pause", "paused",
            "bgfg_pid", "bgfg_test", "bgfg_cont", "bgfg_set",
            "list_pid", "list_state", "exited", "crashed"}

(***************************************************************************)
(* Processes: "none" (no such process), "forked" (still in the shell's     *)
(* process group), "grouped" (after setpgid, before execve: the shell's    *)
(* handlers are still installed and swallow signals), "run", "stopping"    *)
(* (stopped, not yet reported by waitpid), "stopped" (reported), and the   *)
(* zombies "exited" and "killed".                                          *)
(***************************************************************************)
Zombie == {"exited", "killed"}
Ready == Zombie \cup {"stopping"}       \* what waitpid can report
ProcStates == {"none", "forked", "grouped", "run", "stopped"} \cup Ready

Alive == pc \notin {"exited", "crashed"}

Init == /\ TableInit
        /\ pc = "prompt" /\ cmd = "fg" /\ mpid = 0 /\ slot = 0
        /\ proc = [p \in Pids |-> "none"]
        /\ pending = {} /\ blocked = FALSE
        /\ level = [s \in Sigs |-> 0] /\ depth = 0
        /\ hpc = [s \in Sigs |-> "idle"]
        /\ hpid = [s \in Sigs |-> 0] /\ hstat = "exited"

-----------------------------------------------------------------------------
(* The main program.  It runs while no handler is active.                  *)

Main(from) == depth = 0 /\ pc = from

\* The main program moves on and changes no local variable.
Goto(to) == pc' = to /\ UNCHANGED <<cmd, mpid, slot>>

\* eval is back in the loop of main; its local variables are gone.
ToPrompt == pc' = "prompt" /\ cmd' = "fg" /\ mpid' = 0 /\ slot' = 0

Quiet == UNCHANGED <<proc, pending, blocked, handlerVars>>

\* The shell's process ends: what is left is the table as it was, and the
\* processes it leaves behind.
Die(how) == /\ pc' = how /\ cmd' = "fg" /\ mpid' = 0 /\ slot' = 0
            /\ pending' = {} /\ blocked' = FALSE
            /\ level' = [s \in Sigs |-> 0] /\ depth' = 0
            /\ hpc' = [s \in Sigs |-> "idle"]
            /\ hpid' = [s \in Sigs |-> 0] /\ hstat' = "exited"
            /\ UNCHANGED <<tableVars, proc>>

\* End of file, or the command quit.
Quit == Main("prompt") /\ Die("exited")

\* A line without arguments, or with & alone: argv[0] is NULL when builtin_cmd
\* passes it to strcmp.
BlankLine == Main("prompt") /\ Die("crashed")

\* A command line that is not a built-in command.
Command(c) == /\ Main("prompt") /\ JidRoom
              /\ pc' = "block" /\ cmd' = c /\ UNCHANGED <<mpid, slot>>
              /\ Quiet /\ UNCHANGED tableVars

MutantNoBlock == /\ Main("block") /\ Goto("fork")
                 /\ Quiet /\ UNCHANGED tableVars

Block == /\ Main("block") /\ Goto("fork")
         /\ blocked' = TRUE
         /\ UNCHANGED <<tableVars, proc, pending, handlerVars>>

Fork(p) == /\ Main("fork")
           /\ proc[p] = "none"
           /\ pc' = "add" /\ mpid' = p /\ UNCHANGED <<cmd, slot>>
           /\ proc' = [proc EXCEPT ![p] = "forked"]
           /\ UNCHANGED <<tableVars, pending, blocked, handlerVars>>

\* fork() fails: eval returns and SIGCHLD stays blocked.
ForkFails == /\ Main("fork") /\ ForkMayFail
             /\ ToPrompt /\ Quiet /\ UNCHANGED tableVars

AfterAdd == pc' = (IF cmd = "bg" THEN "print" ELSE "unblock") /\ slot' = 0

\* addjob, its three stores.  When the table is full it prints "Tried to create
\* too many jobs" and returns 0, which eval does not look at.
AddPid == /\ Main("add")
          /\ \E i \in 0..MAXJOBS :
                /\ FreeSlot(i)
                /\ \/ i = 0 /\ AfterAdd /\ UNCHANGED tableVars
                   \/ i # 0 /\ pc' = "add_state" /\ slot' = i /\ StorePid(i, mpid)
          /\ UNCHANGED <<cmd, mpid>>
          /\ Quiet

AddState == /\ Main("add_state") /\ Goto("add_jid")
            /\ StoreState(slot, IF cmd = "bg" THEN "BG" ELSE "FG")
            /\ Quiet

AddJid == /\ Main("add_jid") /\ AfterAdd
          /\ StoreJid(slot)
          /\ UNCHANGED <<cmd, mpid>>
          /\ Quiet

\* Print the job added; the pointer getjobpid returns is not checked.
PrintJob == /\ Main("print")
            /\ \E i \in 0..MAXJOBS :
                /\ getjobpid(mpid, i)
                /\ \/ i = 0 /\ Die("crashed")
                   \/ i # 0 /\ Goto("unblock") /\ Quiet /\ UNCHANGED tableVars

\* The signal s starts its handler on top of the stack.
Enter(s) == /\ pending' = pending \ {s}
            /\ depth' = depth + 1
            /\ level' = [level EXCEPT ![s] = depth + 1]
            /\ hpc' = [hpc EXCEPT ![s] = "start"]
            /\ UNCHANGED <<hpid, hstat>>

MutantStayBlocked == /\ Main("unblock")
                     /\ IF cmd = "bg" THEN ToPrompt ELSE Goto("wait_get")
                     /\ Quiet /\ UNCHANGED tableVars

\* sigprocmask delivers a pending SIGCHLD before it returns.
Unblock == /\ Main("unblock")
           /\ IF cmd = "bg" THEN ToPrompt ELSE Goto("wait_get")
           /\ blocked' = FALSE
           /\ \/ "CHLD" \in pending /\ Enter("CHLD")
              \/ "CHLD" \notin pending /\ UNCHANGED <<pending, handlerVars>>
           /\ UNCHANGED <<tableVars, proc>>

\* waitfg: look the job up; it may be gone already.
WaitGet == /\ Main("wait_get")
           /\ \E i \in 0..MAXJOBS :
                /\ getjobpid(mpid, i)
                /\ \/ i = 0 /\ ToPrompt
                   \/ i # 0 /\ pc' = "wait_test" /\ slot' = i /\ UNCHANGED <<cmd, mpid>>
           /\ Quiet /\ UNCHANGED tableVars

MutantWaitWhileStopped == jobs[slot].pid = mpid /\ jobs[slot].state = "ST"

\* waitfg's loop condition.
StillForeground == jobs[slot].pid = mpid /\ jobs[slot].state = "FG"

WaitTest == /\ Main("wait_test")
            /\ IF StillForeground THEN Goto("wait_pause") ELSE ToPrompt
            /\ Quiet /\ UNCHANGED tableVars

\* pause() suspends the shell until a handler returns.
Pause == /\ Main("wait_pause") /\ Goto("paused")
         /\ Quiet /\ UNCHANGED tableVars

\* do_bgfg with a process ID, and with a job ID.  With a missing or malformed
\* argument, or with no such job, it prints a message and returns.
BgFgByPid(c, p) ==
    /\ Main("prompt")
    /\ \E i \in 0..MAXJOBS :
        /\ getjobpid(p, i)
        /\ \/ i = 0 /\ ToPrompt
           \/ i # 0 /\ pc' = "bgfg_test" /\ cmd' = c /\ mpid' = p /\ slot' = i
    /\ Quiet /\ UNCHANGED tableVars

BgFgByJid(c, j) ==
    /\ Main("prompt")
    /\ \E i \in 0..MAXJOBS :
        /\ getjobjid(j, i)
        /\ \/ i = 0 /\ ToPrompt
           \/ i # 0 /\ pc' = "bgfg_pid" /\ cmd' = c /\ slot' = i /\ UNCHANGED mpid
    /\ Quiet /\ UNCHANGED tableVars

ReadPid == /\ Main("bgfg_pid")
           /\ pc' = "bgfg_test" /\ mpid' = jobs[slot].pid /\ UNCHANGED <<cmd, slot>>
           /\ Quiet /\ UNCHANGED tableVars

TestStopped == /\ Main("bgfg_test")
               /\ Goto(IF jobs[slot].state = "ST" THEN "bgfg_cont" ELSE "bgfg_set")
               /\ Quiet /\ UNCHANGED tableVars

\* kill(-p, sig) finds the process group of p.
GroupExists(p) == p # 0 /\ proc[p] \notin {"none", "forked"}

\* SIGCONT resumes a stopped process, and tells its parent.
Continue(p) ==
    IF proc[p] \in {"stopping", "stopped"}
    THEN proc' = [proc EXCEPT ![p] = "run"] /\ pending' = pending \cup {"CHLD"}
    ELSE UNCHANGED <<proc, pending>>

SendCont == /\ Main("bgfg_cont")
            /\ \/ GroupExists(mpid) /\ Goto("bgfg_set") /\ Continue(mpid)
               \/ ~GroupExists(mpid) /\ ToPrompt /\ UNCHANGED <<proc, pending>>
            /\ UNCHANGED <<tableVars, blocked, handlerVars>>

\* job->state = FG or BG, through the pointer looked up several steps ago.
SetState == /\ Main("bgfg_set")
            /\ jobs' = [jobs EXCEPT ![slot].state = IF cmd = "fg" THEN "FG" ELSE "BG"]
            /\ UNCHANGED nextjid
            /\ IF cmd = "fg" THEN Goto("wait_get") ELSE ToPrompt
            /\ Quiet

\* listjobs reads the pid, then the state, of one slot after the other.
ListJobs == /\ Main("prompt")
            /\ pc' = "list_pid" /\ slot' = 1 /\ UNCHANGED <<cmd, mpid>>
            /\ Quiet /\ UNCHANGED tableVars

NextSlot == IF slot = MAXJOBS
            THEN ToPrompt
            ELSE pc' = "list_pid" /\ slot' = slot + 1 /\ UNCHANGED <<cmd, mpid>>

ListPid == /\ Main("list_pid")
           /\ IF jobs[slot].pid # 0 THEN Goto("list_state") ELSE NextSlot
           /\ Quiet /\ UNCHANGED tableVars

ListState == /\ Main("list_state")
             /\ NextSlot
             /\ Quiet /\ UNCHANGED tableVars

MainStep == \/ \E c \in {"fg", "bg"} : Command(c)
            \/ Block
            \/ ForkFails
            \/ \E p \in Pids : Fork(p)
            \/ AddPid
            \/ AddState
            \/ AddJid
            \/ PrintJob
            \/ Unblock
            \/ WaitGet
            \/ WaitTest
            \/ Pause
            \/ \E c \in {"fg", "bg"} : \E p \in Pids : BgFgByPid(c, p)
            \/ \E c \in {"fg", "bg"} : \E j \in 0..JidBound : BgFgByJid(c, j)
            \/ ReadPid
            \/ TestStopped
            \/ SendCont
            \/ SetState
            \/ ListJobs
            \/ ListPid
            \/ ListState

-----------------------------------------------------------------------------
(* The signal handlers.                                                    *)

Deliver(s) == /\ Alive
              /\ s \in pending
              /\ level[s] = 0
              /\ ~(s = "CHLD" /\ blocked)
              /\ Enter(s)
              /\ UNCHANGED <<tableVars, mainVars, proc, blocked>>

\* The handler of s is on top of the stack, about to take the step at.
Handler(s, at) == Alive /\ depth > 0 /\ level[s] = depth /\ hpc[s] = at

\* The handler of s returns; when it interrupted pause(), pause() returns.
Return(s) == /\ depth' = depth - 1
             /\ level' = [level EXCEPT ![s] = 0]
             /\ hpc' = [hpc EXCEPT ![s] = "idle"]
             /\ hpid' = [hpid EXCEPT ![s] = 0]
             /\ pc' = IF depth = 1 /\ pc = "paused" THEN "wait_test" ELSE pc
             /\ UNCHANGED <<cmd, mpid, slot, hstat>>

\* sigchld_handler: the loop ends when no job ID is allocated, or when
\* waitpid has no child to report (0), or no child at all (-1).
ChldDone == /\ Handler("CHLD", "start")
            /\ maxjid(jobs, 0) \/ \A p \in Pids : proc[p] \notin Ready
            /\ Return("CHLD")
            /\ UNCHANGED <<tableVars, proc, pending, blocked>>

\* waitpid(-1, ..., WNOHANG | WUNTRACED) reports child p.
ChldWait(p) == /\ Handler("CHLD", "start")
               /\ ~maxjid(jobs, 0)
               /\ proc[p] \in Ready
               /\ proc' = [proc EXCEPT ![p] = IF @ = "stopping" THEN "stopped" ELSE "none"]
               /\ hpc' = [hpc EXCEPT !["CHLD"] = "act"]
               /\ hpid' = [hpid EXCEPT !["CHLD"] = p]
               /\ hstat' = proc[p]
               /\ UNCHANGED <<tableVars, mainVars, pending, blocked, level, depth>>

MutantApplyStopDeletes(p, i) == deletejob(p)

MutantApplyKeepsExited(p, i) ==
    \/ hstat = "exited" /\ UNCHANGED tableVars
    \/ hstat = "killed" /\ i # 0 /\ deletejob(p)
    \/ /\ hstat = "stopping" /\ i # 0
       /\ jobs' = [jobs EXCEPT ![i].state = "ST"]
       /\ UNCHANGED nextjid

MutantApplyStopIsBackground(p, i) ==
    \/ hstat = "exited" /\ deletejob(p)
    \/ hstat = "killed" /\ i # 0 /\ deletejob(p)
    \/ /\ hstat = "stopping" /\ i # 0
       /\ jobs' = [jobs EXCEPT ![i].state = "BG"]
       /\ UNCHANGED nextjid

\* What the handler does with the status of p, whose job is in slot i.
Apply(p, i) ==
    \/ hstat = "exited" /\ deletejob(p)
    \/ hstat = "killed" /\ i # 0 /\ deletejob(p)
    \/ /\ hstat = "stopping" /\ i # 0
       /\ jobs' = [jobs EXCEPT ![i].state = "ST"]
       /\ UNCHANGED nextjid

\* Its messages about signals read the pointer without a test.
ChldNull == /\ Handler("CHLD", "act") /\ hstat # "exited"
            /\ getjobpid(hpid["CHLD"], 0)
            /\ Die("crashed")

MutantHandleOnce ==
    /\ Handler("CHLD", "act")
    /\ \E i \in 0..MAXJOBS : getjobpid(hpid["CHLD"], i) /\ Apply(hpid["CHLD"], i)
    /\ Return("CHLD")
    /\ UNCHANGED <<proc, pending, blocked>>

ChldApply == /\ Handler("CHLD", "act")
             /\ \E i \in 0..MAXJOBS : getjobpid(hpid["CHLD"], i) /\ Apply(hpid["CHLD"], i)
             /\ hpc' = [hpc EXCEPT !["CHLD"] = "start"]
             /\ hpid' = [hpid EXCEPT !["CHLD"] = 0]
             /\ hstat' = "exited"
             /\ UNCHANGED <<mainVars, proc, pending, blocked, level, depth>>

\* sigint_handler and sigtstp_handler: find the foreground job ...
FindFg(s) == /\ Handler(s, "start")
             /\ \/ fgpid(0) /\ Return(s)
                \/ \E p \in Pids :
                    /\ fgpid(p)
                    /\ hpc' = [hpc EXCEPT ![s] = "act"]
                    /\ hpid' = [hpid EXCEPT ![s] = p]
                    /\ UNCHANGED <<mainVars, level, depth, hstat>>
             /\ UNCHANGED <<tableVars, proc, pending, blocked>>

\* ... and send the signal on to its process group.  A running program is
\* killed or stopped by it, or handles it in its own way.
Forward(s) ==
    /\ Handler(s, "act")
    /\ \/ UNCHANGED <<proc, pending>>
       \/ /\ proc[hpid[s]] = "run"
          /\ proc' = [proc EXCEPT ![hpid[s]] = IF s = "INT" THEN "killed" ELSE "stopping"]
          /\ pending' = pending \cup {"CHLD"}
    /\ Return(s)
    /\ UNCHANGED <<tableVars, blocked>>

ChldStep == ChldDone \/ (\E p \in Pids : ChldWait(p)) \/ ChldApply \/ ChldNull

KeyStep(s) == FindFg(s) \/ Forward(s)

HandlerStep == ChldStep \/ \E s \in {"INT", "TSTP"} : KeyStep(s)

-----------------------------------------------------------------------------
(* The environment: the keyboard, and the child processes.                 *)

\* ctrl-c, ctrl-z.
Key(s) == /\ Alive
          /\ pending' = pending \cup {s}
          /\ UNCHANGED <<tableVars, mainVars, proc, blocked, handlerVars>>

\* SIGQUIT: its handler ends the shell wherever it is.
Sigquit == Alive /\ Die("exited")

\* The state of process p changes; the kernel tells the parent, unless n = {}.
Becomes(p, st, n) == /\ Alive
                     /\ proc' = [proc EXCEPT ![p] = st]
                     /\ pending' = pending \cup n
                     /\ UNCHANGED <<tableVars, mainVars, blocked, handlerVars>>

Setpgid(p) == proc[p] = "forked" /\ Becomes(p, "grouped", {})

Execve(p) == proc[p] = "grouped" /\ Becomes(p, "run", {})

\* setpgid or execve fails and the child exits, or the program ends.
Exit(p) == proc[p] \in {"forked", "grouped", "run"} /\ Becomes(p, "exited", {"CHLD"})

\* Some signal terminates the process, stops it, or continues it.
Killed(p) == proc[p] \notin Zombie \cup {"none"} /\ Becomes(p, "killed", {"CHLD"})

Stopped(p) == OutsideStops /\ proc[p] = "run" /\ Becomes(p, "stopping", {"CHLD"})

Continued(p) == proc[p] \in {"stopping", "stopped"} /\ Becomes(p, "run", {"CHLD"})

Environment == \/ \E s \in Keys : Key(s)
               \/ Sigquit
               \/ \E p \in Pids : \/ Setpgid(p)
                                  \/ Execve(p)
                                  \/ Exit(p)
                                  \/ Killed(p)
                                  \/ Stopped(p)
                                  \/ Continued(p)

-----------------------------------------------------------------------------
Next == \/ Quit
        \/ BlankLine
        \/ MainStep
        \/ \E s \in Sigs : Deliver(s)
        \/ HandlerStep
        \/ Environment

Spec == Init /\ [][Next]_vars

(***************************************************************************)
(* The shell is a single thread the scheduler runs again and again: the    *)
(* main program takes its steps while no handler is active, a pending      *)
(* signal that is not blocked is delivered, and a handler's next step is   *)
(* taken even when other handlers keep interrupting it (strong fairness).  *)
(* Which command comes next, and whether one comes at all, is up to the    *)
(* user: the steps that leave the prompt are not fair.                     *)
(***************************************************************************)
Fairness == /\ SF_vars(MainStep /\ pc # "prompt")
            /\ \A s \in Sigs : SF_vars(Deliver(s))
            /\ SF_vars(ChldStep)
            /\ \A s \in {"INT", "TSTP"} : SF_vars(KeyStep(s))

FairSpec == Spec /\ Fairness
-----------------------------------------------------------------------------
(* Properties.                                                             *)

\* The variables keep their types.
TypeOK == /\ jobs \in [Slots -> Job]
          /\ nextjid \in Nat \ {0}
          /\ pc \in MainPcs
          /\ cmd \in {"fg", "bg"}
          /\ mpid \in Pids \cup {0}
          /\ slot \in 0..MAXJOBS
          /\ proc \in [Pids -> ProcStates]
          /\ pending \subseteq Sigs
          /\ blocked \in BOOLEAN
          /\ level \in [Sigs -> Nat]
          /\ depth \in Nat
          /\ hpc \in [Sigs -> {"idle", "start", "act"}]
          /\ hpid \in [Sigs -> Pids \cup {0}]
          /\ hstat \in Ready

\* The job table lists children of the shell and nothing else, each of them
\* once: a process leaves the table when it is reaped (sigchld_handler), and
\* eval blocks SIGCHLD so that it is not added after it was reaped.  Between
\* waitpid and deletejob the handler is the one that knows better.
JobsAreChildren ==
    \A i \in Slots : Alive /\ jobs[i].pid # 0 =>
        /\ \/ proc[jobs[i].pid] # "none"
           \/ hpc["CHLD"] = "act" /\ hpid["CHLD"] = jobs[i].pid
        /\ \A k \in Slots : jobs[k].pid = jobs[i].pid => k = i

\* A job is in the foreground only while the shell waits for it (or is on its
\* way from starting it to waitfg): at the prompt no job is, whatever the
\* handlers and stale pointers did to the table before.  The one exception is
\* the job addjob is adding, before its state is stored: it has the state the
\* slot was left with, FG after a stale pointer (see DocumentedTransitions).
ForegroundIsAwaited ==
    \A i \in Slots : Alive /\ jobs[i].pid # 0 /\ jobs[i].state = "FG" =>
        /\ jobs[i].pid = mpid
        /\ \/ pc = "add_state"
           \/ /\ cmd = "fg"
              /\ pc \in {"add_jid", "unblock", "wait_get", "wait_test", "wait_pause", "paused"}
        /\ pc \in {"add_state", "add_jid", "wait_test", "wait_pause", "paused"} => slot = i

\* What a job did is never forgotten: while a listed process waits to be
\* reaped, or its stop to be reported, SIGCHLD is pending or its handler is
\* at work, although pending signals coalesce and the handler loops on its own.
EventNotLost ==
    \A i \in Slots : Alive /\ jobs[i].pid # 0 /\ proc[jobs[i].pid] \in Ready =>
        "CHLD" \in pending \/ level["CHLD"] > 0

Listed(p) == \E i \in Slots : jobs[i].pid = p

\* Every child but the one eval is about to add is in the table, so that
\* getjobpid "never fails" (while there are no more children than slots).
EveryChildTracked ==
    \A p \in Pids : Alive /\ proc[p] # "none" => Listed(p) \/ (pc = "add" /\ mpid = p)

\* sigint_handler and sigtstp_handler never send a signal to a job the table
\* has as a background job at that moment, although other handlers may run
\* between the search for the foreground job and the kill.  This is no promise
\* for a job whose state addjob has yet to store (see DocumentedTransitions).
NoSignalToBackground ==
    [][\A s \in {"INT", "TSTP"} : Forward(s) =>
         \A i \in Slots : jobs[i].pid = hpid[s] => jobs[i].state # "BG"]_vars

\* The state of process p in table t, as the abstract specification sees it: a
\* job is launched when addjob has stored the last of pid, state and job ID.
Complete(t, p) == {i \in Slots : t[i].pid = p /\ t[i].jid # 0}

JobState(t, p) == IF Complete(t, p) = {} THEN "absent"
                  ELSE t[CHOOSE i \in Complete(t, p) : TRUE].state

JC == INSTANCE JobControl WITH Jobs <- Pids, table <- [p \in Pids |-> JobState(jobs, p)]

\* The shell, its races included, implements the abstract job control, where a
\* job in the background may stop (what tsh.c's own table does not have).
ImplementsJobControl == JC!Spec

\* A job's process that has terminated is reaped (sigchld_handler "reaps all
\* available zombie children"), as long as jobs do not stop over and over, which
\* could keep waitpid busy with other children.
FinitelyManyStops == <>[](\A p \in Pids : proc[p] # "stopping")

ZombieReaped ==
    FinitelyManyStops =>
        \A p \in Pids : (Listed(p) /\ proc[p] \in Zombie) ~> (proc[p] = "none" \/ ~Alive)

\* When the foreground job terminates while the shell is suspended in pause(),
\* the shell comes back to the prompt, as long as no key is typed (the handler
\* of a key ends pause() too, and SIGCHLD may then come before the next one).
NoKeys == [](pending \subseteq {"CHLD"})

ForegroundExitWakes ==
    NoKeys /\ FinitelyManyStops =>
        \A p \in Pids : (pc = "paused" /\ mpid = p /\ proc[p] \in Zombie)
                            ~> (pc = "prompt" \/ ~Alive)

-----------------------------------------------------------------------------
(* What comments and messages of tsh.c say of it, and the code does not do *)
(* (one run each, with the trace of events that refutes it).               *)

\* waitfg: "Block until process pid is no longer the foreground process".
WaitfgReturns ==
    FinitelyManyStops =>
        \A p \in Pids : (pc = "paused" /\ mpid = p /\ ~StillForeground)
                            ~> (pc = "prompt" \/ ~Alive)

\* "Job state transitions and enabling actions": only a job in the foreground
\* becomes stopped, by ctrl-z.  (Without signals from outside: a background job
\* that stops itself, or is sent SIGSTOP, is stopped too.)  A job started with &
\* in a slot that a stale pointer has left FG is stopped by a ctrl-z, whose
\* handler reads the slot between addjob's stores of the pid and of the state.
DocumentedTransitions == [][JC!Documented]_[p \in Pids |-> JobState(jobs, p)]
=============================================================================
