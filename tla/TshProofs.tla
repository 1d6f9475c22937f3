----------------------------- MODULE TshProofs -----------------------------
(***************************************************************************)
(* Proofs about the shell, for every number of job slots and every set of  *)
(* process ids.                                                            *)
(***************************************************************************)
EXTENDS Tsh, FiniteSetTheorems, TLAPS

USE MaxJobsAssumption, PidsAssumption, ForkMayFailAssumption, KeysAssumption, OutsideStopsAssumption

\* The helpers on the table return slots and leave a table behind.
LEMMA TableTypes ==
    ASSUME jobs \in [Slots -> Job], nextjid \in Nat \ {0}
    PROVE  /\ \A i \in Slots : \A p \in Pids \cup {0} : \A st \in States :
                StorePid(i, p) \/ StoreState(i, st) \/ StoreJid(i)
                    => jobs' \in [Slots -> Job] /\ nextjid' \in Nat \ {0}
           /\ \A p \in Pids \cup {0} :
                deletejob(p) => jobs' \in [Slots -> Job] /\ nextjid' \in Nat \ {0}
<1>1. ASSUME NEW i \in Slots, NEW p \in Pids \cup {0}, NEW st \in States,
             StorePid(i, p) \/ StoreState(i, st) \/ StoreJid(i)
      PROVE  jobs' \in [Slots -> Job] /\ nextjid' \in Nat \ {0}
  BY <1>1 DEF StorePid, StoreState, StoreJid, Job
<1>2. ASSUME NEW p \in Pids \cup {0}, deletejob(p)
      PROVE  jobs' \in [Slots -> Job] /\ nextjid' \in Nat \ {0}
  <2>1. clearjob \in Job
    BY DEF clearjob, Job, States
  <2>2. \A k \in Slots : jobs[k].jid \in Nat
    BY DEF Job
  <2> QED BY <1>2, <2>1, <2>2 DEF deletejob, tableVars
<1> QED BY <1>1, <1>2

\* Where the main program uses a pointer into the table, it is not NULL.
PointerOK == pc \in {"add_state", "add_jid", "wait_test", "wait_pause", "paused", "bgfg_pid", "bgfg_test",
                     "bgfg_cont", "bgfg_set", "list_pid", "list_state"} => slot \in Slots

\* The states a step gives to a process are states of a process.
LEMMA ProcTypes == /\ {"none", "forked", "grouped", "run", "stopped"} \subseteq ProcStates
                   /\ {"stopping", "exited", "killed"} \subseteq ProcStates \cap Ready
                   /\ Ready \subseteq ProcStates
  BY DEF ProcStates, Ready, Zombie

\* The shell starts with variables of their types (main, before its loop).
LEMMA InitTypeOK == Init => TypeOK /\ PointerOK
<1> SUFFICES ASSUME Init PROVE TypeOK /\ PointerOK
  OBVIOUS
<1>1. clearjob \in Job
  BY DEF clearjob, Job, States
<1>2. jobs \in [Slots -> Job] /\ nextjid \in Nat \ {0}
  BY <1>1 DEF Init, TableInit, initjobs
<1>3. proc \in [Pids -> ProcStates] /\ hstat \in Ready
  BY ProcTypes DEF Init
<1>4. level \in [Sigs -> Nat] /\ hpc \in [Sigs -> {"idle", "start", "act"}]
      /\ hpid \in [Sigs -> Pids \cup {0}]
  BY DEF Init
<1>5. blocked \in BOOLEAN
  BY DEF Init
<1> QED BY <1>2, <1>3, <1>4, <1>5 DEF Init, TypeOK, PointerOK, MainPcs

\* Each step preserves the types.
LEMMA NextTypeOK == TypeOK /\ PointerOK /\ [Next]_vars => TypeOK' /\ PointerOK'
<1> SUFFICES ASSUME TypeOK, PointerOK, [Next]_vars PROVE (TypeOK /\ PointerOK)'
  OBVIOUS
<1> USE DEF TypeOK, PointerOK, Quiet, Goto, ToPrompt, Main, mainVars, handlerVars, tableVars, Sigs, MainPcs
<1>die. ASSUME NEW how \in {"exited", "crashed"}, Die(how) PROVE (TypeOK /\ PointerOK)'
  <2>1. level' \in [Sigs -> Nat] /\ hpc' \in [Sigs -> {"idle", "start", "act"}]
        /\ hpid' \in [Sigs -> Pids \cup {0}]
    BY <1>die DEF Die
  <2>2. blocked' \in BOOLEAN
    BY <1>die, Zenon DEF Die
  <2> QED BY <1>die, <2>1, <2>2, ProcTypes DEF Die
<1>enter. ASSUME NEW s \in Sigs, Enter(s)
          PROVE  /\ pending' \subseteq Sigs /\ level' \in [Sigs -> Nat] /\ depth' \in Nat
                 /\ hpc' \in [Sigs -> {"idle", "start", "act"}] /\ hpid' = hpid /\ hstat' = hstat
  BY <1>enter DEF Enter
<1>1. CASE Quit
  BY <1>1, <1>die DEF Quit
<1>2. CASE BlankLine
  BY <1>2, <1>die DEF BlankLine
<1>3. CASE MainStep
  <2>1. ASSUME NEW c \in {"fg", "bg"}, Command(c) PROVE (TypeOK /\ PointerOK)'
    BY <2>1 DEF Command
  <2>2. CASE Block
    BY <2>2 DEF Block
  <2>3. CASE ForkFails
    BY <2>3 DEF ForkFails
  <2>4. ASSUME NEW p \in Pids, Fork(p) PROVE (TypeOK /\ PointerOK)'
    BY <2>4, ProcTypes DEF Fork
  <2>5. CASE AddPid
    <3>1. jobs' \in [Slots -> Job] /\ nextjid' \in Nat \ {0}
      BY <2>5, TableTypes DEF AddPid, FreeSlot, First, States
    <3> QED BY <2>5, <3>1 DEF AddPid, AfterAdd, FreeSlot, First
  <2>20. CASE AddState
    <3>1. jobs' \in [Slots -> Job] /\ nextjid' \in Nat \ {0}
      BY <2>20, TableTypes DEF AddState, States
    <3> QED BY <2>20, <3>1 DEF AddState
  <2>21. CASE AddJid
    <3>1. jobs' \in [Slots -> Job] /\ nextjid' \in Nat \ {0}
      BY <2>21, TableTypes DEF AddJid, States
    <3> QED BY <2>21, <3>1 DEF AddJid, AfterAdd
  <2>6. CASE PrintJob
    BY <2>6, <1>die DEF PrintJob
  <2>7. CASE Unblock
    <3>1. blocked' \in BOOLEAN
      BY <2>7, Zenon DEF Unblock
    <3>2. pending' \subseteq Sigs /\ level' \in [Sigs -> Nat] /\ depth' \in Nat
          /\ hpc' \in [Sigs -> {"idle", "start", "act"}] /\ hpid' = hpid /\ hstat' = hstat
      <4>1. Enter("CHLD") \/ UNCHANGED <<pending, handlerVars>>
        BY <2>7 DEF Unblock
      <4> QED BY <4>1, <1>enter
    <3>3. pc' \in {"prompt", "wait_get"} /\ cmd' \in {"fg", "bg"} /\ mpid' \in {0, mpid}
          /\ slot' \in {0, slot} /\ jobs' = jobs /\ nextjid' = nextjid /\ proc' = proc
      BY <2>7 DEF Unblock
    <3> QED BY <3>1, <3>2, <3>3
  <2>8. CASE WaitGet
    BY <2>8 DEF WaitGet, getjobpid, First
  <2>9. CASE WaitTest
    BY <2>9 DEF WaitTest
  <2>10. CASE Pause
    BY <2>10 DEF Pause
  <2>11. ASSUME NEW c \in {"fg", "bg"}, NEW p \in Pids, BgFgByPid(c, p) PROVE (TypeOK /\ PointerOK)'
    BY <2>11 DEF BgFgByPid, getjobpid, First
  <2>12. ASSUME NEW c \in {"fg", "bg"}, NEW j \in 0..JidBound, BgFgByJid(c, j) PROVE (TypeOK /\ PointerOK)'
    BY <2>12 DEF BgFgByJid, getjobjid, First
  <2>13. CASE ReadPid
    BY <2>13 DEF ReadPid, Job
  <2>14. CASE TestStopped
    BY <2>14 DEF TestStopped
  <2>15. CASE SendCont
    <3>1. proc' \in [Pids -> ProcStates] /\ pending' \subseteq Sigs
      BY <2>15, ProcTypes DEF SendCont, Continue
    <3> QED BY <2>15, <3>1 DEF SendCont
  <2>16. CASE SetState
    <3>1. jobs' \in [Slots -> Job]
      BY <2>16 DEF SetState, Job, States
    <3> QED BY <2>16, <3>1 DEF SetState
  <2>17. CASE ListJobs
    BY <2>17 DEF ListJobs, Slots
  <2>18. CASE ListPid
    BY <2>18 DEF ListPid, NextSlot, Slots
  <2>19. CASE ListState
    BY <2>19 DEF ListState, NextSlot, Slots
  <2> QED BY <1>3, <2>1, <2>2, <2>3, <2>4, <2>5, <2>6, <2>7, <2>8, <2>9, <2>10, <2>11, <2>12,
             <2>13, <2>14, <2>15, <2>16, <2>17, <2>18, <2>19, <2>20, <2>21 DEF MainStep
<1>4. ASSUME NEW s \in Sigs, Deliver(s) PROVE (TypeOK /\ PointerOK)'
  BY <1>4, <1>enter DEF Deliver
<1>5. CASE HandlerStep
  <2>1. CASE ChldDone
    BY <2>1 DEF ChldDone, Handler, Return
  <2>2. ASSUME NEW p \in Pids, ChldWait(p) PROVE (TypeOK /\ PointerOK)'
    BY <2>2, ProcTypes DEF ChldWait
  <2>3. CASE ChldApply
    <3>1. jobs' \in [Slots -> Job] /\ nextjid' \in Nat \ {0}
      BY <2>3, TableTypes DEF ChldApply, Apply, Job, States
    <3> QED BY <2>3, <3>1, ProcTypes DEF ChldApply
  <2>4. CASE ChldNull
    BY <2>4, <1>die DEF ChldNull
  <2>5. ASSUME NEW s \in {"INT", "TSTP"}, FindFg(s) PROVE (TypeOK /\ PointerOK)'
    BY <2>5 DEF FindFg, Handler, Return
  <2>6. ASSUME NEW s \in {"INT", "TSTP"}, Forward(s) PROVE (TypeOK /\ PointerOK)'
    <3>1. proc' \in [Pids -> ProcStates] /\ pending' \subseteq Sigs
      BY <2>6, ProcTypes DEF Forward
    <3> QED BY <2>6, <3>1 DEF Forward, Handler, Return
  <2> QED BY <1>5, <2>1, <2>2, <2>3, <2>4, <2>5, <2>6 DEF HandlerStep, ChldStep, KeyStep
<1>6. CASE Environment
  <2>1. ASSUME NEW s \in Keys, Key(s) PROVE (TypeOK /\ PointerOK)'
    BY <2>1 DEF Key
  <2>2. CASE Sigquit
    BY <2>2, <1>die DEF Sigquit
  <2>3. ASSUME NEW p \in Pids, NEW st \in ProcStates, NEW n \in SUBSET {"CHLD"}, Becomes(p, st, n)
        PROVE  (TypeOK /\ PointerOK)'
    BY <2>3 DEF Becomes
  <2> QED BY <1>6, <2>1, <2>2, <2>3, ProcTypes
          DEF Environment, Setpgid, Execve, Exit, Killed, Stopped, Continued
<1>7. CASE UNCHANGED vars
  BY <1>7 DEF vars
<1> QED BY <1>1, <1>2, <1>3, <1>4, <1>5, <1>6, <1>7 DEF Next

\* The variables keep their types in every behaviour of the shell.
THEOREM TypeCorrect == Spec => []TypeOK
  BY InitTypeOK, NextTypeOK, PTL DEF Spec

-----------------------------------------------------------------------------
(***************************************************************************)
(* The inductive invariant.                                                *)
(***************************************************************************)

\* The stack of handlers: distinct levels up to depth, none when it is empty.
StackOK == /\ \A s \in Sigs : level[s] <= depth /\ (level[s] = 0 <=> hpc[s] = "idle")
           /\ \A s, t \in Sigs : level[s] = level[t] => s = t \/ level[s] = 0
           /\ \A s \in Sigs : hpc[s] = "act" => hpid[s] # 0

\* eval keeps SIGCHLD blocked from fork to the end of addjob, and the handler
\* of SIGCHLD is never active while it is blocked.
BlockOK == /\ blocked => level["CHLD"] = 0
           /\ pc \in {"fork", "add", "add_state", "add_jid", "print", "unblock"} => blocked

\* Slots in use: one per process, with a job ID and a state (once addjob has
\* stored them).  A slot that is not in use has no job ID, whatever its state.
TableOK == /\ \A i, k \in Slots : jobs[i].pid = jobs[k].pid => i = k \/ jobs[i].pid = 0
           /\ \A i \in Slots : Alive /\ jobs[i].pid # 0 =>
                \/ jobs[i].jid > 0 /\ jobs[i].state # "UNDEF"
                \/ pc \in {"add_state", "add_jid"} /\ slot = i
           /\ \A i \in Slots : jobs[i].pid = 0 => jobs[i].jid = 0

\* The child eval is adding has not been reaped, is not listed before it is
\* stored, and if it has already ended, SIGCHLD waits for the end of the blocked
\* section; the slot addjob is filling has no job ID yet.
AddOK == /\ pc = "add" => ~Listed(mpid)
         /\ pc \in {"add", "add_state", "add_jid"} =>
              /\ mpid # 0
              /\ proc[mpid] # "none"
              /\ proc[mpid] \in Ready => "CHLD" \in pending
         /\ pc \in {"add_state", "add_jid"} => jobs[slot].pid = mpid /\ jobs[slot].jid = 0
         /\ pc = "add_jid" => jobs[slot].state = (IF cmd = "bg" THEN "BG" ELSE "FG")

\* do_bgfg's pointer is to the job it looked up, or to a slot cleared since.
StaleOK == pc \in {"bgfg_test", "bgfg_cont", "bgfg_set"} => jobs[slot].pid \in {0, mpid}

\* A listed process has not been reaped, unless the handler is about to
\* delete it; a process whose stop it is about to record has not been reaped.
ChildOK == /\ \A i \in Slots : Alive /\ jobs[i].pid # 0 =>
                \/ proc[jobs[i].pid] # "none"
                \/ hpc["CHLD"] = "act" /\ hpid["CHLD"] = jobs[i].pid
           /\ hpc["CHLD"] = "act" /\ hstat = "stopping" => proc[hpid["CHLD"]] # "none"

\* The job a key handler is about to signal is not in the background.
KeyOK == \A s \in {"INT", "TSTP"} : hpc[s] = "act" =>
            \A i \in Slots : jobs[i].pid = hpid[s] => jobs[i].state # "BG"

Inv == /\ StackOK /\ BlockOK /\ TableOK /\ AddOK /\ StaleOK
       /\ ChildOK /\ ForegroundIsAwaited /\ EventNotLost /\ KeyOK

\* The shell starts with an empty table and no handler active.
LEMMA InitInv == Init => Inv
<1> SUFFICES ASSUME Init PROVE Inv
  OBVIOUS
<1>1. \A i \in Slots : jobs[i] = clearjob
  BY DEF Init, TableInit, initjobs
<1>2. \A i \in Slots : jobs[i].pid = 0
  BY <1>1 DEF clearjob
<1>3. \A s \in Sigs : level[s] = 0 /\ hpc[s] = "idle"
  BY DEF Init
<1>4. "CHLD" \in Sigs /\ "INT" \in Sigs /\ "TSTP" \in Sigs
  BY DEF Sigs
<1>5. blocked = FALSE /\ pc = "prompt" /\ depth = 0
  BY DEF Init
<1>6. StackOK
  BY <1>3, <1>5 DEF StackOK
<1>7. BlockOK /\ AddOK /\ StaleOK
  BY <1>3, <1>4, <1>5 DEF BlockOK, AddOK, StaleOK
<1>8. TableOK
  BY <1>1, <1>5 DEF TableOK, clearjob
<1>9. ChildOK /\ ForegroundIsAwaited /\ EventNotLost /\ KeyOK
  BY <1>2, <1>3, <1>4 DEF ChildOK, ForegroundIsAwaited, EventNotLost, KeyOK
<1> QED BY <1>6, <1>7, <1>8, <1>9 DEF Inv

\* Steps of the main program that change nothing but its own variables.
LEMMA MainMoves ==
    ASSUME TypeOK, PointerOK, Inv, depth = 0, Quiet, UNCHANGED tableVars, Alive, Alive',
           pc \notin {"add_state", "add_jid"}
    PROVE  StackOK' /\ TableOK' /\ ChildOK' /\ EventNotLost' /\ KeyOK'
           /\ (blocked => level["CHLD"] = 0)'
  BY DEF Inv, Quiet, tableVars, handlerVars, StackOK, BlockOK, TableOK, ChildOK, EventNotLost, KeyOK

\* No handler is active while the main program runs.
LEMMA MainAlone ==
    ASSUME TypeOK, StackOK, depth = 0
    PROVE  \A s \in Sigs : level[s] = 0 /\ hpc[s] = "idle"
  BY DEF TypeOK, StackOK

\* A shell that exits or crashes leaves nothing for the invariant to say.
LEMMA DieInv == ASSUME TypeOK, Inv, NEW how \in {"exited", "crashed"}, Die(how)
                PROVE  Inv'
<1>1. \A s \in Sigs : level'[s] = 0 /\ hpc'[s] = "idle"
  BY DEF Die
<1>2. "CHLD" \in Sigs /\ "INT" \in Sigs /\ "TSTP" \in Sigs
  BY DEF Sigs
<1>3. pc' = how /\ ~Alive' /\ jobs' = jobs /\ depth' = 0
  BY DEF Die, Alive, tableVars
<1>4. StackOK' /\ BlockOK' /\ AddOK' /\ StaleOK' /\ KeyOK'
  BY <1>1, <1>2, <1>3 DEF StackOK, BlockOK, AddOK, StaleOK, KeyOK
<1>5. TableOK'
  BY <1>3 DEF Inv, TableOK
<1>6. ChildOK' /\ ForegroundIsAwaited' /\ EventNotLost'
  BY <1>1, <1>2, <1>3 DEF ChildOK, ForegroundIsAwaited, EventNotLost
<1> QED BY <1>4, <1>5, <1>6 DEF Inv

\* A step of the main program preserves the invariant.
LEMMA MainInv == ASSUME TypeOK, PointerOK, Inv, MainStep, TypeOK', PointerOK'
                 PROVE  Inv'
<1> USE DEF Main, Goto, ToPrompt
<1>a. depth = 0 /\ Alive
  BY DEF MainStep, Command, Block, ForkFails, Fork, AddPid, AddState, AddJid, PrintJob, Unblock, WaitGet, WaitTest,
         Pause, BgFgByPid, BgFgByJid, ReadPid, TestStopped, SendCont, SetState, ListJobs, ListPid,
         ListState, Alive
<1>b. \A s \in Sigs : level[s] = 0 /\ hpc[s] = "idle"
  BY <1>a, MainAlone DEF Inv
<1>c. level["CHLD"] = 0 /\ hpc["CHLD"] = "idle" /\ hpc["INT"] = "idle" /\ hpc["TSTP"] = "idle"
  BY <1>b DEF Sigs
<1>d. ASSUME Quiet, UNCHANGED tableVars, Alive', AddOK', StaleOK', ForegroundIsAwaited',
             pc \notin {"add_state", "add_jid"},
             pc' \in {"fork", "add", "add_state", "add_jid", "print", "unblock"} => blocked
      PROVE  Inv'
  BY <1>a, <1>d, MainMoves DEF Inv, BlockOK, Quiet
<1>e. ASSUME Quiet, UNCHANGED tableVars,
             pc' \in {"prompt", "block", "fork", "list_pid", "list_state", "bgfg_pid"},
             pc \notin {"add_state", "add_jid", "unblock", "wait_get", "wait_test", "wait_pause", "paused"},
             pc' = "fork" => blocked
      PROVE  Inv'
  <2>1. Alive' /\ AddOK' /\ StaleOK'
    BY <1>e DEF Alive, AddOK, StaleOK
  <2>2. ForegroundIsAwaited'
    BY <1>e, <1>a DEF Inv, ForegroundIsAwaited, tableVars
  <2> QED BY <1>d, <1>e, <2>1, <2>2
<1>1. ASSUME NEW c \in {"fg", "bg"}, Command(c) PROVE Inv'
  BY <1>1, <1>e DEF Command
<1>2. CASE Block
  <2>1. BlockOK' /\ StackOK' /\ KeyOK' /\ TableOK' /\ AddOK' /\ StaleOK'
    BY <1>2, <1>a, <1>c DEF Block, Inv, BlockOK, StackOK, KeyOK, TableOK, AddOK, StaleOK, handlerVars, tableVars
  <2>2. ChildOK' /\ EventNotLost' /\ ForegroundIsAwaited'
    BY <1>2, <1>a DEF Block, Inv, ChildOK, ForegroundIsAwaited, EventNotLost, Alive, handlerVars, tableVars
  <2> QED BY <2>1, <2>2 DEF Inv
<1>3. CASE ForkFails
  BY <1>3, <1>e DEF ForkFails
<1>4. ASSUME NEW p \in Pids, Fork(p) PROVE Inv'
  <2>1. BlockOK' /\ StackOK' /\ KeyOK' /\ TableOK' /\ StaleOK'
    BY <1>4, <1>a, <1>c DEF Fork, Inv, BlockOK, StackOK, KeyOK, TableOK, StaleOK, handlerVars, tableVars
  <2>2. ~Listed(p)
    BY <1>4, <1>a, <1>c DEF Fork, Inv, ChildOK, Listed
  <2>3. AddOK'
    BY <1>4, <2>2, <1>a DEF Fork, AddOK, Listed, tableVars, TypeOK, Ready, Zombie
  <2>4. ChildOK' /\ EventNotLost' /\ ForegroundIsAwaited'
    BY <1>4, <1>a, <1>c DEF Fork, Inv, TypeOK, ChildOK, ForegroundIsAwaited, EventNotLost, Alive,
                      handlerVars, tableVars, Ready, Zombie
  <2> QED BY <2>1, <2>3, <2>4 DEF Inv
<1>5. CASE AddPid
  <2>1. mpid \in Pids /\ ~Listed(mpid) /\ proc[mpid] # "none"
        /\ (proc[mpid] \in Ready => "CHLD" \in pending) /\ blocked
    BY <1>5 DEF AddPid, Inv, AddOK, BlockOK, TypeOK
  <2>2. BlockOK' /\ StackOK' /\ StaleOK' /\ KeyOK' /\ Alive'
    BY <1>5, <1>c, <2>1 DEF AddPid, AfterAdd, Inv, BlockOK, StackOK, StaleOK, KeyOK, Alive, Quiet, handlerVars
  <2>3. CASE AfterAdd /\ UNCHANGED tableVars
    <3>1. TableOK' /\ ChildOK' /\ EventNotLost' /\ ForegroundIsAwaited' /\ AddOK'
      BY <1>5, <1>a, <2>2, <2>3 DEF AddPid, AfterAdd, Inv, TableOK, ChildOK, EventNotLost,
             ForegroundIsAwaited, AddOK, Alive, Quiet, handlerVars, tableVars
    <3> QED BY <2>2, <3>1 DEF Inv
  <2>4. ASSUME NEW i \in Slots, jobs[i].pid = 0, pc' = "add_state", slot' = i, StorePid(i, mpid)
        PROVE  Inv'
    <3>1. \A k \in Slots : k # i => jobs'[k] = jobs[k]
      BY <2>4 DEF StorePid, TypeOK
    <3>2. jobs'[i].pid = mpid /\ jobs'[i].jid = 0
      BY <2>4 DEF StorePid, TypeOK, Job, Inv, TableOK
    <3>3. \A k \in Slots : jobs[k].pid # mpid
      BY <2>1 DEF Listed
    <3>4. TableOK'
      BY <1>5, <1>a, <2>1, <2>4, <3>1, <3>2, <3>3 DEF AddPid, Inv, TableOK
    <3>5. ChildOK' /\ EventNotLost' /\ AddOK'
      BY <1>5, <1>a, <1>c, <2>1, <2>4, <3>1, <3>2 DEF AddPid, Inv, ChildOK, EventNotLost, AddOK, Quiet, handlerVars
    <3>6. ForegroundIsAwaited'
      BY <1>5, <1>a, <2>4, <3>1, <3>2 DEF AddPid, Inv, ForegroundIsAwaited
    <3> QED BY <2>2, <3>4, <3>5, <3>6 DEF Inv
  <2> QED BY <1>5, <2>3, <2>4 DEF AddPid, FreeSlot, First
<1>20. CASE AddState
  <2> DEFINE st == IF cmd = "bg" THEN "BG" ELSE "FG"
  <2>1. mpid \in Pids /\ proc[mpid] # "none" /\ (proc[mpid] \in Ready => "CHLD" \in pending) /\ blocked
        /\ slot \in Slots /\ jobs[slot].pid = mpid /\ jobs[slot].jid = 0
    BY <1>20 DEF AddState, Inv, AddOK, BlockOK, TypeOK, PointerOK
  <2>2. BlockOK' /\ StackOK' /\ StaleOK' /\ KeyOK' /\ Alive'
    BY <1>20, <1>c, <2>1 DEF AddState, Inv, BlockOK, StackOK, StaleOK, KeyOK, Alive, Quiet, handlerVars
  <2>3. /\ \A k \in Slots : k # slot => jobs'[k] = jobs[k]
        /\ jobs'[slot].pid = mpid /\ jobs'[slot].jid = 0 /\ jobs'[slot].state = st
    BY <1>20, <2>1 DEF AddState, StoreState, TypeOK, Job
  <2>4. TableOK' /\ ChildOK' /\ EventNotLost' /\ AddOK'
    BY <1>20, <1>a, <1>c, <2>1, <2>3 DEF AddState, Inv, TableOK, ChildOK, EventNotLost, AddOK, Quiet, handlerVars
  <2>5. ForegroundIsAwaited'
    BY <1>20, <1>a, <2>1, <2>3 DEF AddState, Inv, ForegroundIsAwaited, TypeOK
  <2> QED BY <2>2, <2>4, <2>5 DEF Inv
<1>21. CASE AddJid
  <2>1. mpid \in Pids /\ proc[mpid] # "none" /\ (proc[mpid] \in Ready => "CHLD" \in pending) /\ blocked
        /\ slot \in Slots /\ jobs[slot].pid = mpid /\ jobs[slot].state = (IF cmd = "bg" THEN "BG" ELSE "FG")
    BY <1>21 DEF AddJid, Inv, AddOK, BlockOK, TypeOK, PointerOK
  <2>2. BlockOK' /\ StackOK' /\ StaleOK' /\ KeyOK' /\ AddOK' /\ Alive'
    BY <1>21, <1>c, <2>1 DEF AddJid, AfterAdd, Inv, BlockOK, StackOK, StaleOK, KeyOK, AddOK, Alive, Quiet, handlerVars
  <2>3. /\ \A k \in Slots : k # slot => jobs'[k] = jobs[k]
        /\ jobs'[slot].pid = mpid /\ jobs'[slot].jid > 0 /\ jobs'[slot].state = jobs[slot].state
    BY <1>21, <2>1 DEF AddJid, StoreJid, TypeOK, Job
  <2>4. TableOK' /\ ChildOK' /\ EventNotLost'
    BY <1>21, <1>a, <1>c, <2>1, <2>3 DEF AddJid, Inv, TableOK, ChildOK, EventNotLost, Quiet, handlerVars
  <2>5. ForegroundIsAwaited'
    BY <1>21, <1>a, <2>1, <2>3 DEF AddJid, AfterAdd, Inv, ForegroundIsAwaited, TypeOK
  <2> QED BY <2>2, <2>4, <2>5 DEF Inv
<1>6. CASE PrintJob
  <2>1. CASE Die("crashed")
    BY <2>1, DieInv
  <2>2. CASE Goto("unblock") /\ Quiet /\ UNCHANGED tableVars
    <3>1. Alive' /\ AddOK' /\ StaleOK' /\ ForegroundIsAwaited'
      BY <1>6, <2>2 DEF PrintJob, Alive, AddOK, StaleOK, Inv, ForegroundIsAwaited, tableVars
    <3>2. blocked /\ pc = "print"
      BY <1>6 DEF PrintJob, Inv, BlockOK
    <3> QED BY <1>d, <2>2, <3>1, <3>2
  <2> QED BY <1>6, <2>1, <2>2 DEF PrintJob
<1>7. CASE Unblock
  <2>1. ForegroundIsAwaited' /\ AddOK' /\ StaleOK' /\ Alive'
    BY <1>7, <1>a DEF Unblock, Inv, ForegroundIsAwaited, AddOK, StaleOK, Alive, tableVars
  <2>2. ~blocked' /\ pc' \notin {"fork", "add", "add_state", "add_jid", "print", "unblock"} /\ jobs' = jobs /\ proc' = proc
    BY <1>7 DEF Unblock, tableVars
  <2>3. BlockOK' /\ TableOK'
    BY <1>7, <1>a, <2>2 DEF Unblock, Inv, BlockOK, TableOK
  <2>4. CASE UNCHANGED <<pending, handlerVars>>
    <3>1. StackOK' /\ KeyOK' /\ ChildOK' /\ EventNotLost'
      BY <1>a, <2>2, <2>4 DEF Inv, StackOK, KeyOK, ChildOK, EventNotLost, handlerVars
    <3> QED BY <2>1, <2>3, <3>1 DEF Inv
  <2>5. CASE Enter("CHLD")
    <3>1. StackOK'
      BY <1>a, <1>b, <2>5 DEF Enter, StackOK, TypeOK, Sigs
    <3>2. KeyOK' /\ ChildOK' /\ EventNotLost'
      BY <1>a, <1>c, <2>2, <2>5 DEF Inv, Enter, KeyOK, ChildOK, EventNotLost, TypeOK, Sigs
    <3> QED BY <2>1, <2>3, <3>1, <3>2 DEF Inv
  <2> QED BY <1>7, <2>4, <2>5 DEF Unblock
<1>8. CASE WaitGet
  <2>1. Alive' /\ AddOK' /\ StaleOK' /\ pc' \notin {"fork", "add", "add_state", "add_jid", "print", "unblock"}
    BY <1>8 DEF WaitGet, Alive, AddOK, StaleOK
  <2>2. ForegroundIsAwaited'
    <3>1. \A k \in Slots : jobs[k].pid # 0 /\ jobs[k].state = "FG" => jobs[k].pid = mpid /\ cmd = "fg"
      BY <1>8, <1>a DEF WaitGet, Inv, ForegroundIsAwaited
    <3>2. \A i \in 0..MAXJOBS, k \in Slots :
             getjobpid(mpid, i) /\ jobs[k].pid # 0 /\ jobs[k].pid = mpid => i = k
      <4>1. ASSUME NEW i \in 0..MAXJOBS, NEW k \in Slots, getjobpid(mpid, i),
                   jobs[k].pid # 0, jobs[k].pid = mpid
            PROVE  i = k
        <5> DEFINE S == {j \in Slots : jobs[j].pid = mpid}
        <5>a. First(i, S) /\ S # {}
          BY <4>1 DEF getjobpid
        <5>1. i \in Slots /\ jobs[i].pid = mpid
          BY <5>a DEF First
        <5> QED BY <4>1, <5>1 DEF Inv, TableOK
      <4> QED BY <4>1
    <3> QED BY <1>8, <3>1, <3>2 DEF WaitGet, ForegroundIsAwaited, tableVars, Slots
  <2> QED BY <1>8, <1>d, <2>1, <2>2 DEF WaitGet
<1>9. CASE WaitTest
  <2>1. Alive' /\ AddOK' /\ StaleOK' /\ pc' \notin {"fork", "add", "add_state", "add_jid", "print", "unblock"}
    BY <1>9 DEF WaitTest, Alive, AddOK, StaleOK
  <2>2. ForegroundIsAwaited'
    BY <1>9, <1>a DEF WaitTest, StillForeground, Inv, ForegroundIsAwaited, Alive, tableVars
  <2> QED BY <1>9, <1>d, <2>1, <2>2 DEF WaitTest
<1>10. CASE Pause
  <2>1. Alive' /\ AddOK' /\ StaleOK' /\ ForegroundIsAwaited' /\ pc' \notin {"fork", "add", "add_state", "add_jid", "print", "unblock"}
    BY <1>10, <1>a DEF Pause, Alive, AddOK, StaleOK, Inv, ForegroundIsAwaited, tableVars
  <2> QED BY <1>10, <1>d, <2>1 DEF Pause
<1>11. ASSUME NEW c \in {"fg", "bg"}, NEW p \in Pids, BgFgByPid(c, p) PROVE Inv'
  <2>1. Alive' /\ AddOK' /\ StaleOK' /\ pc' \notin {"fork", "add", "add_state", "add_jid", "print", "unblock"}
    BY <1>11 DEF BgFgByPid, Alive, AddOK, StaleOK, getjobpid, First, tableVars, TypeOK
  <2>2. ForegroundIsAwaited'
    BY <1>11, <1>a DEF BgFgByPid, Inv, ForegroundIsAwaited, tableVars
  <2> QED BY <1>11, <1>d, <2>1, <2>2 DEF BgFgByPid
<1>12. ASSUME NEW c \in {"fg", "bg"}, NEW j \in 0..JidBound, BgFgByJid(c, j) PROVE Inv'
  BY <1>12, <1>e DEF BgFgByJid
<1>13. CASE ReadPid
  <2>1. Alive' /\ AddOK' /\ StaleOK' /\ pc' \notin {"fork", "add", "add_state", "add_jid", "print", "unblock"}
    BY <1>13 DEF ReadPid, Alive, AddOK, StaleOK, tableVars
  <2>2. ForegroundIsAwaited'
    BY <1>13, <1>a DEF ReadPid, Inv, ForegroundIsAwaited, tableVars
  <2> QED BY <1>13, <1>d, <2>1, <2>2 DEF ReadPid
<1>14. CASE TestStopped
  <2>1. Alive' /\ AddOK' /\ StaleOK' /\ ForegroundIsAwaited' /\ pc' \notin {"fork", "add", "add_state", "add_jid", "print", "unblock"}
    BY <1>14, <1>a DEF TestStopped, Alive, AddOK, StaleOK, Inv, ForegroundIsAwaited, tableVars
  <2> QED BY <1>14, <1>d, <2>1 DEF TestStopped
<1>15. CASE SendCont
  <2>1. BlockOK' /\ StackOK' /\ KeyOK' /\ TableOK' /\ AddOK' /\ StaleOK' /\ Alive'
    BY <1>15 DEF SendCont, Inv, BlockOK, StackOK, KeyOK, TableOK, AddOK, StaleOK, Alive, handlerVars, tableVars
  <2>2. ForegroundIsAwaited'
    BY <1>15, <1>a DEF SendCont, Inv, ForegroundIsAwaited, tableVars
  <2>3. /\ \A p \in Pids : /\ proc[p] # "none" => proc'[p] # "none"
                           /\ proc'[p] \in Ready => proc[p] \in Ready
        /\ pending \subseteq pending'
    BY <1>15 DEF SendCont, Continue, TypeOK, Ready, Zombie
  <2>4. ChildOK' /\ EventNotLost'
    BY <1>15, <1>a, <1>c, <2>3 DEF SendCont, Inv, ChildOK, EventNotLost, TypeOK, Job, handlerVars, tableVars
  <2> QED BY <2>1, <2>2, <2>4 DEF Inv
<1>16. CASE SetState
  <2>1. BlockOK' /\ StackOK' /\ KeyOK' /\ AddOK' /\ StaleOK' /\ Alive'
    BY <1>16, <1>c DEF SetState, Inv, BlockOK, StackOK, KeyOK, AddOK, StaleOK, Alive, Quiet, handlerVars
  <2>2. \A i \in Slots : jobs'[i].pid = jobs[i].pid /\ jobs'[i].jid = jobs[i].jid
    BY <1>16 DEF SetState, TypeOK, Job
  <2>3. \A i \in Slots : i # slot => jobs'[i].state = jobs[i].state
    BY <1>16 DEF SetState, TypeOK, Job
  <2>4. jobs'[slot].state = (IF cmd = "fg" THEN "FG" ELSE "BG")
        /\ slot \in Slots /\ jobs[slot].pid \in {0, mpid}
    BY <1>16 DEF SetState, TypeOK, PointerOK, Job, Inv, StaleOK
  <2>5. TableOK'
    BY <1>16, <1>a, <2>2, <2>3, <2>4 DEF SetState, Inv, TableOK
  <2>6. ChildOK' /\ EventNotLost'
    BY <1>16, <1>a, <1>c, <2>2 DEF SetState, Inv, ChildOK, EventNotLost, Quiet, handlerVars
  <2>7. ForegroundIsAwaited'
    BY <1>16, <1>a, <2>2, <2>3, <2>4 DEF SetState, Inv, ForegroundIsAwaited, TypeOK
  <2> QED BY <2>1, <2>5, <2>6, <2>7 DEF Inv
<1>17. CASE ListJobs
  BY <1>17, <1>e DEF ListJobs
<1>18. CASE ListPid
  BY <1>18, <1>e DEF ListPid, NextSlot
<1>19. CASE ListState
  BY <1>19, <1>e DEF ListState, NextSlot
<1> QED BY <1>1, <1>2, <1>3, <1>4, <1>5, <1>6, <1>7, <1>8, <1>9, <1>10, <1>11, <1>12, <1>13, <1>14,
           <1>15, <1>16, <1>17, <1>18, <1>19, <1>20, <1>21 DEF MainStep

\* The start of a handler preserves the invariant.
LEMMA DeliverInv == ASSUME TypeOK, Inv, NEW s \in Sigs, Deliver(s)
                    PROVE  Inv'
<1>a. /\ pc' = pc /\ mpid' = mpid /\ slot' = slot /\ cmd' = cmd /\ jobs' = jobs /\ proc' = proc
      /\ blocked' = blocked /\ hpid' = hpid /\ hstat' = hstat
      /\ level[s] = 0 /\ Alive /\ (s = "CHLD" => ~blocked)
  BY DEF Deliver, Enter, mainVars, tableVars
<1>b. /\ depth' = depth + 1 /\ pending' = pending \ {s}
      /\ \A t \in Sigs : level'[t] = (IF t = s THEN depth + 1 ELSE level[t])
      /\ \A t \in Sigs : hpc'[t] = (IF t = s THEN "start" ELSE hpc[t])
  BY DEF Deliver, Enter, TypeOK
<1>c. "CHLD" \in Sigs /\ "INT" \in Sigs /\ "TSTP" \in Sigs
  BY DEF Sigs
<1>d. hpc[s] = "idle" /\ \A t \in Sigs : level[t] \in Nat /\ level[t] <= depth
  BY <1>a DEF Inv, StackOK, TypeOK
<1>1. StackOK'
  BY <1>a, <1>b, <1>d DEF Inv, StackOK, TypeOK
<1>2. BlockOK' /\ AddOK' /\ StaleOK' /\ TableOK' /\ ForegroundIsAwaited'
  BY <1>a, <1>b, <1>c DEF Inv, BlockOK, AddOK, StaleOK, TableOK, ForegroundIsAwaited, Alive, Listed
<1>3. ChildOK' /\ KeyOK'
  BY <1>a, <1>b, <1>c, <1>d DEF Inv, ChildOK, KeyOK, Alive
<1>4. EventNotLost'
  BY <1>a, <1>b, <1>c, <1>d DEF Inv, EventNotLost, Alive, TypeOK
<1> QED BY <1>1, <1>2, <1>3, <1>4 DEF Inv

\* Processes change, and the parent is told of all it can report.
ProcsMove == /\ \A p \in Pids : proc[p] # "none" => proc'[p] # "none"
             /\ \A p \in Pids : proc'[p] \in Ready => proc[p] \in Ready \/ "CHLD" \in pending'
             /\ "CHLD" \in pending => "CHLD" \in pending'

\* A change of the processes preserves the parts of the invariant about them.
LEMMA ProcsInv == ASSUME TypeOK, Inv, ProcsMove, jobs' = jobs, mpid' = mpid, slot' = slot, cmd' = cmd,
                         pc' = pc \/ (pc = "paused" /\ pc' = "wait_test")
                  PROVE  /\ AddOK'
                         /\ \A i \in Slots : Alive' /\ jobs'[i].pid # 0 /\ proc'[jobs'[i].pid] \in Ready
                              => \/ "CHLD" \in pending'
                                 \/ level["CHLD"] > 0 /\ proc[jobs[i].pid] \in Ready
                         /\ \A i \in Slots : Alive' /\ jobs'[i].pid # 0 =>
                                \/ proc'[jobs'[i].pid] # "none"
                                \/ hpc["CHLD"] = "act" /\ hpid["CHLD"] = jobs[i].pid
                         /\ hpc["CHLD"] = "act" /\ hstat = "stopping" /\ hpid["CHLD"] # 0
                              => proc'[hpid["CHLD"]] # "none"
<1>1. \A i \in Slots : jobs[i].pid \in Pids \cup {0}
  BY DEF TypeOK, Job
<1>2. AddOK'
  BY DEF Inv, AddOK, ProcsMove, TypeOK, Listed
<1>3. Alive' => Alive
  BY DEF Alive
<1>4. "CHLD" \in Sigs
  BY DEF Sigs
<1>5. hpid["CHLD"] \in Pids \cup {0}
  BY <1>4 DEF TypeOK
<1> QED BY <1>1, <1>2, <1>3, <1>5 DEF Inv, EventNotLost, ChildOK, ProcsMove

\* The return of a handler preserves the invariant, if the handler of SIGCHLD
\* leaves nothing behind.
LEMMA ReturnInv == ASSUME TypeOK, Inv, NEW s \in Sigs, Alive, depth > 0, level[s] = depth, Return(s),
                          jobs' = jobs, blocked' = blocked, ProcsMove,
                          s = "CHLD" => /\ hpc["CHLD"] = "start"
                                        /\ \A i \in Slots : jobs[i].pid = 0 \/ proc[jobs[i].pid] \notin Ready
                   PROVE  Inv'
<1>a. /\ mpid' = mpid /\ slot' = slot /\ cmd' = cmd /\ hstat' = hstat
      /\ pc' = pc \/ (pc = "paused" /\ pc' = "wait_test")
  BY DEF Return
<1>b. /\ depth' = depth - 1
      /\ \A t \in Sigs : level'[t] = (IF t = s THEN 0 ELSE level[t])
      /\ \A t \in Sigs : hpc'[t] = (IF t = s THEN "idle" ELSE hpc[t])
      /\ \A t \in Sigs : hpid'[t] = (IF t = s THEN 0 ELSE hpid[t])
  BY DEF Return, TypeOK
<1>c. "CHLD" \in Sigs /\ "INT" \in Sigs /\ "TSTP" \in Sigs
  BY DEF Sigs
<1>1. StackOK'
  BY <1>b DEF Inv, StackOK, TypeOK
<1>2. BlockOK' /\ StaleOK' /\ TableOK' /\ ForegroundIsAwaited'
  BY <1>a, <1>b, <1>c DEF Inv, BlockOK, StaleOK, TableOK, ForegroundIsAwaited, Alive
<1>3. KeyOK'
  BY <1>b, <1>c DEF Inv, KeyOK
<1>4. AddOK' /\ ChildOK'
  BY <1>a, <1>b, <1>c, ProcsInv DEF Inv, StackOK, ChildOK
<1>5. EventNotLost'
  BY <1>a, <1>b, <1>c, ProcsInv DEF EventNotLost
<1> QED BY <1>1, <1>2, <1>3, <1>4, <1>5 DEF Inv

\* A step of a process preserves the invariant.
LEMMA BecomesInv == ASSUME TypeOK, Inv, NEW p \in Pids, NEW st \in ProcStates \ {"none"},
                           NEW n \in SUBSET {"CHLD"}, st \in Ready => n = {"CHLD"}, Becomes(p, st, n)
                    PROVE  Inv'
<1>a. /\ pc' = pc /\ mpid' = mpid /\ slot' = slot /\ cmd' = cmd /\ jobs' = jobs
      /\ blocked' = blocked /\ hpid' = hpid /\ hstat' = hstat /\ hpc' = hpc /\ level' = level
      /\ depth' = depth
  BY DEF Becomes, mainVars, tableVars, handlerVars
<1>b. ProcsMove
  BY DEF Becomes, ProcsMove, TypeOK
<1>1. StackOK' /\ BlockOK' /\ StaleOK' /\ TableOK' /\ ForegroundIsAwaited' /\ KeyOK'
  BY <1>a DEF Inv, StackOK, BlockOK, StaleOK, TableOK, ForegroundIsAwaited, KeyOK, Alive
<1>c. "CHLD" \in Sigs
  BY DEF Sigs
<1>2. AddOK' /\ ChildOK' /\ EventNotLost'
  BY <1>a, <1>b, <1>c, ProcsInv DEF Inv, StackOK, ChildOK, EventNotLost
<1> QED BY <1>1, <1>2 DEF Inv

\* What deletejob(p) does to the slots: it clears those that hold p.
LEMMA DeleteClears == ASSUME TypeOK, TableOK, NEW p \in Pids, deletejob(p)
                      PROVE  \A k \in Slots : IF jobs[k].pid = p THEN jobs'[k] = clearjob
                                                                 ELSE jobs'[k] = jobs[k]
<1> DEFINE S == {k \in Slots : jobs[k].pid = p}
<1>1. PICK i \in 0..MAXJOBS : getjobpid(p, i) /\ (\/ i = 0 /\ jobs' = jobs
                                                  \/ i # 0 /\ jobs' = [jobs EXCEPT ![i] = clearjob])
  BY DEF deletejob, tableVars
<1>2. First(i, S)
  BY <1>1 DEF getjobpid
<1>3. CASE i = 0
  <2>1. S = {}
    BY <1>2, <1>3 DEF First, Slots
  <2> QED BY <1>1, <1>3, <2>1
<1>4. CASE i # 0
  <2>1. i \in S
    BY <1>2, <1>4 DEF First
  <2>2. \A k \in S : k = i
    BY <2>1 DEF TableOK
  <2> QED BY <1>1, <1>4, <2>1, <2>2 DEF TypeOK
<1> QED BY <1>3, <1>4

\* Recording the status of a child preserves the invariant.
LEMMA ApplyInv == ASSUME TypeOK, PointerOK, Inv, ChldApply PROVE Inv'
<1> DEFINE p == hpid["CHLD"]
<1>c. "CHLD" \in Sigs /\ "INT" \in Sigs /\ "TSTP" \in Sigs
  BY DEF Sigs
<1>a. /\ pc' = pc /\ mpid' = mpid /\ slot' = slot /\ cmd' = cmd /\ proc' = proc
      /\ blocked' = blocked /\ pending' = pending /\ level' = level /\ depth' = depth
      /\ depth > 0 /\ level["CHLD"] = depth /\ hpc["CHLD"] = "act" /\ Alive
  BY DEF ChldApply, Handler, mainVars
<1>b. /\ \A t \in Sigs : hpc'[t] = (IF t = "CHLD" THEN "start" ELSE hpc[t])
      /\ \A t \in Sigs : hpid'[t] = (IF t = "CHLD" THEN 0 ELSE hpid[t])
  BY <1>c DEF ChldApply, TypeOK
<1>d. p \in Pids /\ ~blocked
  BY <1>a, <1>c DEF Inv, StackOK, BlockOK, TypeOK
<1>e. \A k \in Slots : /\ jobs'[k].pid \in {0, jobs[k].pid}
                       /\ jobs'[k].pid = 0 => jobs'[k].jid = 0
                       /\ jobs'[k].pid # 0 => /\ jobs'[k].jid = jobs[k].jid
                                              /\ jobs'[k].state \in {jobs[k].state, "ST"}
                                              /\ jobs[k].pid = p => hstat = "stopping"
  <2>1. CASE deletejob(p)
    BY <2>1, <1>d, DeleteClears DEF Inv, TableOK, clearjob
  <2>2. ASSUME NEW i \in 0..MAXJOBS, hstat = "stopping", i # 0, getjobpid(p, i),
               jobs' = [jobs EXCEPT ![i].state = "ST"]
        PROVE  <1>e!:
    BY <2>2 DEF TypeOK, Job, States, Inv, TableOK
  <2> QED BY <2>1, <2>2 DEF ChldApply, Apply
<1>1. StackOK' /\ BlockOK' /\ AddOK'
  BY <1>a, <1>b, <1>c, <1>d DEF Inv, StackOK, BlockOK, AddOK
<1>2. TableOK'
  BY <1>a, <1>d, <1>e DEF Inv, BlockOK, TableOK
<1>3. StaleOK' /\ ForegroundIsAwaited'
  BY <1>a, <1>e DEF Inv, PointerOK, StaleOK, ForegroundIsAwaited, Alive
<1>4. ChildOK'
  BY <1>a, <1>b, <1>c, <1>e DEF Inv, ChildOK
<1>5. EventNotLost'
  BY <1>a DEF EventNotLost
<1>6. KeyOK'
  <2> SUFFICES ASSUME NEW s \in {"INT", "TSTP"}, hpc'[s] = "act", NEW i \in Slots,
                      jobs'[i].pid = hpid'[s]
               PROVE  jobs'[i].state # "BG"
    BY DEF KeyOK
  <2>1. hpc[s] = "act" /\ hpid'[s] = hpid[s] /\ hpid[s] # 0
    BY <1>b, <1>c DEF Inv, StackOK
  <2> QED BY <1>e, <2>1 DEF Inv, KeyOK
<1> QED BY <1>1, <1>2, <1>3, <1>4, <1>5, <1>6 DEF Inv

\* A step of a handler preserves the invariant.
LEMMA HandlerInv == ASSUME TypeOK, PointerOK, Inv, HandlerStep PROVE Inv'
<1>c. "CHLD" \in Sigs /\ "INT" \in Sigs /\ "TSTP" \in Sigs
  BY DEF Sigs
<1>1. CASE ChldDone
  <2>1. \A i \in Slots : jobs[i].pid = 0 \/ proc[jobs[i].pid] \notin Ready
    <3>1. CASE maxjid(jobs, 0)
      <4>1. Alive /\ pc \notin {"add_state", "add_jid"}
        BY <1>1, <1>c DEF ChldDone, Handler, Inv, BlockOK, TypeOK
      <4> QED BY <3>1, <4>1 DEF maxjid, Inv, TableOK, TypeOK, Job
    <3>2. CASE \A p \in Pids : proc[p] \notin Ready
      BY <3>2 DEF TypeOK, Job
    <3> QED BY <1>1, <3>1, <3>2 DEF ChldDone
  <2>2. ProcsMove
    BY <1>1 DEF ChldDone, ProcsMove
  <2> QED BY <1>1, <1>c, <2>1, <2>2, ReturnInv DEF ChldDone, Handler, tableVars
<1>2. ASSUME NEW p \in Pids, ChldWait(p) PROVE Inv'
  <2>a. /\ pc' = pc /\ mpid' = mpid /\ slot' = slot /\ cmd' = cmd /\ jobs' = jobs
        /\ blocked' = blocked /\ pending' = pending /\ level' = level /\ depth' = depth
        /\ depth > 0 /\ level["CHLD"] = depth /\ hpc["CHLD"] = "start" /\ Alive
        /\ hstat' = proc[p]
    BY <1>2 DEF ChldWait, Handler, mainVars, tableVars
  <2>b. /\ \A t \in Sigs : hpc'[t] = (IF t = "CHLD" THEN "act" ELSE hpc[t])
        /\ \A t \in Sigs : hpid'[t] = (IF t = "CHLD" THEN p ELSE hpid[t])
        /\ \A q \in Pids : proc'[q] = (IF q # p THEN proc[q]
                                       ELSE IF proc[p] = "stopping" THEN "stopped" ELSE "none")
    BY <1>2, <1>c DEF ChldWait, TypeOK
  <2>d. ~blocked
    BY <2>a DEF Inv, BlockOK, TypeOK
  <2>e. \A i \in Slots : jobs[i].pid \in Pids \cup {0}
    BY DEF TypeOK, Job
  <2>1. StackOK' /\ BlockOK' /\ AddOK' /\ StaleOK' /\ TableOK' /\ ForegroundIsAwaited'
    BY <2>a, <2>b, <2>d, <1>c DEF Inv, StackOK, BlockOK, AddOK, StaleOK, TableOK, ForegroundIsAwaited, Alive
  <2>2. ChildOK'
    BY <2>a, <2>b, <2>e, <1>c DEF Inv, ChildOK
  <2>3. EventNotLost' /\ KeyOK'
    BY <2>a, <2>b, <1>c DEF Inv, EventNotLost, KeyOK
  <2> QED BY <2>1, <2>2, <2>3 DEF Inv
<1>3. CASE ChldApply
  BY <1>3, ApplyInv
<1>4. CASE ChldNull
  BY <1>4, DieInv DEF ChldNull
<1>5. ASSUME NEW s \in {"INT", "TSTP"}, FindFg(s) PROVE Inv'
  <2>a. /\ jobs' = jobs /\ blocked' = blocked /\ pending' = pending /\ proc' = proc
        /\ depth > 0 /\ level[s] = depth /\ hpc[s] = "start" /\ Alive /\ s \in Sigs /\ s # "CHLD"
    BY <1>5, <1>c DEF FindFg, Handler, tableVars
  <2>1. CASE Return(s)
    <3>1. ProcsMove
      BY <2>a DEF ProcsMove
    <3> QED BY <2>a, <2>1, <3>1, ReturnInv
  <2>2. ASSUME NEW p \in Pids, fgpid(p), hpc' = [hpc EXCEPT ![s] = "act"],
               hpid' = [hpid EXCEPT ![s] = p], UNCHANGED <<mainVars, level, depth, hstat>>
        PROVE  Inv'
    <3>a. /\ \A t \in Sigs : hpc'[t] = (IF t = s THEN "act" ELSE hpc[t])
          /\ \A t \in Sigs : hpid'[t] = (IF t = s THEN p ELSE hpid[t])
          /\ level' = level /\ depth' = depth /\ hstat' = hstat
          /\ pc' = pc /\ mpid' = mpid /\ slot' = slot /\ cmd' = cmd
      BY <2>2 DEF TypeOK, mainVars
    <3>b. \A i \in Slots : jobs[i].pid = p => jobs[i].state = "FG"
      BY <2>2 DEF fgpid, First, Inv, TableOK
    <3>1. StackOK' /\ BlockOK' /\ AddOK' /\ StaleOK' /\ TableOK' /\ ForegroundIsAwaited'
      BY <2>a, <3>a, <1>c DEF Inv, StackOK, BlockOK, AddOK, StaleOK, TableOK, ForegroundIsAwaited, Alive, Listed
    <3>2. ChildOK' /\ EventNotLost'
      BY <2>a, <3>a, <1>c DEF Inv, ChildOK, EventNotLost, Alive
    <3>3. KeyOK'
      BY <2>a, <3>a, <3>b, <1>c DEF Inv, KeyOK
    <3> QED BY <3>1, <3>2, <3>3 DEF Inv
  <2> QED BY <1>5, <2>1, <2>2 DEF FindFg
<1>6. ASSUME NEW s \in {"INT", "TSTP"}, Forward(s) PROVE Inv'
  <2>1. ProcsMove
    BY <1>6 DEF Forward, ProcsMove, TypeOK
  <2>2. jobs' = jobs /\ blocked' = blocked /\ Return(s) /\ s \in Sigs /\ s # "CHLD"
        /\ depth > 0 /\ level[s] = depth /\ Alive
    BY <1>6, <1>c DEF Forward, Handler, tableVars
  <2> QED BY <2>1, <2>2, ReturnInv
<1> QED BY <1>1, <1>2, <1>3, <1>4, <1>5, <1>6 DEF HandlerStep, ChldStep, KeyStep

\* The environment preserves the invariant.
LEMMA EnvironmentInv == ASSUME TypeOK, Inv, Environment PROVE Inv'
<1>1. ASSUME NEW s \in Keys, Key(s) PROVE Inv'
  <2>a. /\ pc' = pc /\ mpid' = mpid /\ slot' = slot /\ cmd' = cmd /\ jobs' = jobs /\ proc' = proc
        /\ blocked' = blocked /\ hpid' = hpid /\ hstat' = hstat /\ hpc' = hpc /\ level' = level
        /\ depth' = depth /\ pending \subseteq pending'
    BY <1>1 DEF Key, mainVars, tableVars, handlerVars
  <2>1. StackOK' /\ BlockOK' /\ StaleOK' /\ TableOK' /\ ForegroundIsAwaited' /\ KeyOK'
    BY <2>a DEF Inv, StackOK, BlockOK, StaleOK, TableOK, ForegroundIsAwaited, KeyOK, Alive
  <2>2. AddOK' /\ ChildOK' /\ EventNotLost'
    BY <2>a DEF Inv, AddOK, ChildOK, EventNotLost, Alive, Listed
  <2> QED BY <2>1, <2>2 DEF Inv
<1>2. CASE Sigquit
  BY <1>2, DieInv DEF Sigquit
<1>3. "none" \notin Ready /\ "grouped" \notin Ready /\ "run" \notin Ready
  BY DEF Ready, Zombie
<1>4. ASSUME NEW p \in Pids, Setpgid(p) \/ Execve(p) PROVE Inv'
  BY <1>3, <1>4, BecomesInv, ProcTypes DEF Setpgid, Execve
<1>5. ASSUME NEW p \in Pids, Exit(p) \/ Killed(p) \/ Stopped(p) \/ Continued(p) PROVE Inv'
  BY <1>3, <1>5, BecomesInv, ProcTypes DEF Exit, Killed, Stopped, Continued
<1> QED BY <1>1, <1>2, <1>4, <1>5 DEF Environment

\* The invariant is inductive.
LEMMA NextInv == TypeOK /\ PointerOK /\ Inv /\ [Next]_vars => Inv'
<1> SUFFICES ASSUME TypeOK, PointerOK, Inv, [Next]_vars PROVE Inv'
  OBVIOUS
<1>1. CASE Quit
  BY <1>1, DieInv DEF Quit
<1>2. CASE BlankLine
  BY <1>2, DieInv DEF BlankLine
<1>3. CASE MainStep
  BY <1>3, MainInv, NextTypeOK
<1>4. ASSUME NEW s \in Sigs, Deliver(s) PROVE Inv'
  BY <1>4, DeliverInv
<1>5. CASE HandlerStep
  BY <1>5, HandlerInv
<1>6. CASE Environment
  BY <1>6, EnvironmentInv
<1>7. CASE UNCHANGED vars
  BY <1>7 DEF vars, Inv, StackOK, BlockOK, TableOK, AddOK, StaleOK, ChildOK, ForegroundIsAwaited, EventNotLost, KeyOK, Alive, Listed
<1> QED BY <1>1, <1>2, <1>3, <1>4, <1>5, <1>6, <1>7 DEF Next

\* The inductive invariant holds throughout: what the theorems about the job
\* table, the foreground job and the signal handlers of tsh.c rest on.
THEOREM Invariance == Spec => [](TypeOK /\ PointerOK /\ Inv)
<1>1. Init => TypeOK /\ PointerOK /\ Inv
  BY InitTypeOK, InitInv
<1>2. TypeOK /\ PointerOK /\ Inv /\ [Next]_vars => (TypeOK /\ PointerOK /\ Inv)'
  BY NextTypeOK, NextInv
<1> QED BY <1>1, <1>2, PTL DEF Spec

\* The job table lists unreaped children of the shell, each of them once.
THEOREM ChildrenListed == Spec => []JobsAreChildren
<1>1. Inv => JobsAreChildren
  BY DEF Inv, ChildOK, TableOK, JobsAreChildren
<1> QED BY <1>1, Invariance, PTL

\* At most one job is in the foreground: the one the shell waits for.
THEOREM ForegroundAwaited == Spec => []ForegroundIsAwaited
<1>1. Inv => ForegroundIsAwaited
  BY DEF Inv, ForegroundIsAwaited
<1> QED BY <1>1, Invariance, PTL

\* No termination and no stop of a listed job is forgotten.
THEOREM EventsKept == Spec => []EventNotLost
<1>1. Inv => EventNotLost
  BY DEF Inv
<1> QED BY <1>1, Invariance, PTL

\* ctrl-c and ctrl-z are never sent on to a background job.
THEOREM BackgroundSafe == Spec => NoSignalToBackground
<1>1. Inv /\ [Next]_vars => [\A s \in {"INT", "TSTP"} : Forward(s) =>
         \A i \in Slots : jobs[i].pid = hpid[s] => jobs[i].state # "BG"]_vars
  BY DEF Inv, KeyOK, Forward, Handler
<1> QED BY <1>1, Invariance, PTL DEF Spec, NoSignalToBackground

-----------------------------------------------------------------------------
(***************************************************************************)
(* Every child is tracked, when the table has room for all of them.        *)
(***************************************************************************)

\* There are no more processes than slots.
FewChildren == IsFiniteSet(Pids) /\ Cardinality(Pids) <= MAXJOBS

\* A process whose end the handler is about to record has been reaped.
ReapedOK == Alive /\ hpc["CHLD"] = "act" /\ hstat \in Zombie => proc[hpid["CHLD"]] = "none"

\* While one process is not in the table, a slot of it is free: a full table
\* would list as many processes as there are, all of them different.
LEMMA RoomLeft == ASSUME FewChildren, TypeOK, TableOK, NEW p \in Pids, ~Listed(p)
                  PROVE  \E i \in Slots : jobs[i].pid = 0
<1> SUFFICES ASSUME \A i \in Slots : jobs[i].pid # 0 PROVE FALSE
  OBVIOUS
<1> DEFINE f == [i \in Slots |-> jobs[i].pid]
<1>1. \A i \in Slots : jobs[i].pid \in Pids \ {p}
  BY DEF TypeOK, Job, Listed
<1>2. f \in [Slots -> Pids \ {p}]
  BY <1>1
<1>3. Cardinality(Slots) = MAXJOBS /\ IsFiniteSet(Slots)
  <2>1. 1 \in Int /\ MAXJOBS \in Int /\ MAXJOBS >= 1
    OBVIOUS
  <2> QED BY <2>1, FS_Interval DEF Slots
<1>4. IsFiniteSet(Pids \ {p}) /\ Cardinality(Pids \ {p}) = Cardinality(Pids) - 1
  BY FS_RemoveElement DEF FewChildren
<1>5. Cardinality(Pids) \in Nat
  BY FS_CardinalityType DEF FewChildren
<1>6. Cardinality(Pids \ {p}) < Cardinality(Slots)
  BY <1>3, <1>4, <1>5 DEF FewChildren
<1>7. \E i, k \in Slots : i # k /\ f[i] = f[k]
  <2> HIDE DEF f
  <2> QED BY <1>2, <1>3, <1>4, <1>6, FS_PigeonHole
<1> QED BY <1>7 DEF TableOK

\* Steps that leave the pids of the table alone and create no process keep
\* every child tracked; so do those after which the shell has ended.
LEMMA TrackKept ==
    ASSUME TypeOK, EveryChildTracked, Alive' => Alive /\ pc # "add" /\ pc' # "add",
           \A i \in Slots : jobs'[i].pid = jobs[i].pid,
           \A p \in Pids : proc'[p] # "none" => proc[p] # "none"
    PROVE  EveryChildTracked'
  BY DEF EveryChildTracked, Listed

\* A handler or a process may move while eval is about to add its child.
LEMMA TrackAside ==
    ASSUME TypeOK, EveryChildTracked, pc' = pc \/ pc = "paused", mpid' = mpid,
           \A i \in Slots : jobs'[i].pid = jobs[i].pid,
           \A p \in Pids : proc'[p] # "none" => proc[p] # "none"
    PROVE  EveryChildTracked'
  BY DEF EveryChildTracked, Listed, Alive

\* A step of the main program keeps every child tracked.
LEMMA MainTrack ==
    ASSUME FewChildren, TypeOK, PointerOK, Inv, EveryChildTracked, MainStep
    PROVE  EveryChildTracked' /\ ReapedOK'
<1> USE DEF Main, Goto, ToPrompt
<1>a. depth = 0 /\ Alive
  BY DEF MainStep, Command, Block, ForkFails, Fork, AddPid, AddState, AddJid, PrintJob, Unblock, WaitGet, WaitTest,
         Pause, BgFgByPid, BgFgByJid, ReadPid, TestStopped, SendCont, SetState, ListJobs, ListPid,
         ListState, Alive
<1>b. \A s \in Sigs : level[s] = 0 /\ hpc[s] = "idle"
  BY <1>a, MainAlone DEF Inv
<1>c. "CHLD" \in Sigs /\ hpc["CHLD"] = "idle"
  BY <1>b DEF Sigs
<1>1. CASE AddPid
  <2>1. mpid \in Pids /\ ~Listed(mpid)
    BY <1>1 DEF AddPid, Inv, AddOK, TypeOK
  <2>2. PICK i \in Slots : /\ jobs[i].pid = 0
                           /\ jobs'[i].pid = mpid
                           /\ \A k \in Slots : k # i => jobs'[k] = jobs[k]
    <3>1. {k \in Slots : jobs[k].pid = 0} # {}
      BY <2>1, RoomLeft DEF Inv
    <3>2. PICK i \in 0..MAXJOBS : FreeSlot(i) /\ (i = 0 \/ StorePid(i, mpid))
      BY <1>1 DEF AddPid
    <3>3. i \in Slots /\ jobs[i].pid = 0 /\ i # 0
      BY <3>1, <3>2 DEF FreeSlot, First, Slots
    <3> QED BY <3>2, <3>3 DEF StorePid, TypeOK, Job
  <2>3. proc' = proc /\ hpc' = hpc
    BY <1>1 DEF AddPid, Quiet, handlerVars
  <2>4. mpid' = mpid
    BY <1>1 DEF AddPid
  <2>5. \A p \in Pids : (\E k \in Slots : jobs[k].pid = p) \/ p = mpid => \E k \in Slots : jobs'[k].pid = p
    <3> SUFFICES ASSUME NEW p \in Pids, NEW k \in Slots, jobs[k].pid = p \/ p = mpid
                 PROVE  \E j \in Slots : jobs'[j].pid = p
      BY <2>2
    <3>1. CASE p = mpid
      BY <2>2, <3>1
    <3>2. CASE jobs[k].pid = p
      <4>1. k # i
        BY <2>2, <3>2
      <4> QED BY <2>2, <3>2, <4>1
    <3> QED BY <3>1, <3>2
  <2>7. EveryChildTracked'
    BY <1>a, <2>3, <2>4, <2>5 DEF EveryChildTracked, Listed
  <2> QED BY <1>c, <2>3, <2>7 DEF ReapedOK
<1>2. ASSUME NEW p \in Pids, Fork(p) PROVE EveryChildTracked' /\ ReapedOK'
  BY <1>2, <1>a, <1>c DEF Fork, EveryChildTracked, Listed, ReapedOK, handlerVars, tableVars, TypeOK
<1>3. CASE PrintJob
  BY <1>3, <1>a, <1>c, TrackKept DEF PrintJob, Die, ReapedOK, Quiet, tableVars, handlerVars, Alive
<1>4. CASE Unblock
  <2>1. EveryChildTracked'
    BY <1>4, <1>a, TrackKept DEF Unblock, tableVars, Alive
  <2>2. hpc'["CHLD"] # "act"
    BY <1>4, <1>c DEF Unblock, Enter, handlerVars, TypeOK
  <2> QED BY <2>1, <2>2 DEF ReapedOK
<1>5. CASE SendCont
  <2>1. \A p \in Pids : proc'[p] # "none" => proc[p] # "none"
    BY <1>5 DEF SendCont, Continue, TypeOK
  <2> QED BY <1>5, <1>a, <1>c, <2>1, TrackKept DEF SendCont, ReapedOK, tableVars, handlerVars, Alive
<1>6. CASE SetState
  <2>1. \A i \in Slots : jobs'[i].pid = jobs[i].pid
    BY <1>6 DEF SetState, TypeOK, Job
  <2> QED BY <1>6, <1>a, <1>c, <2>1, TrackKept DEF SetState, ReapedOK, Quiet, handlerVars, Alive
<1>12. CASE AddState
  <2>1. \A i \in Slots : jobs'[i].pid = jobs[i].pid
    BY <1>12 DEF AddState, StoreState, PointerOK, TypeOK, Job
  <2> QED BY <1>12, <1>a, <1>c, <2>1, TrackKept DEF AddState, ReapedOK, Quiet, handlerVars, Alive
<1>13. CASE AddJid
  <2>1. \A i \in Slots : jobs'[i].pid = jobs[i].pid
    BY <1>13 DEF AddJid, StoreJid, PointerOK, TypeOK, Job
  <2> QED BY <1>13, <1>a, <1>c, <2>1, TrackKept DEF AddJid, AfterAdd, ReapedOK, Quiet, handlerVars, Alive
<1>7. ASSUME Quiet, UNCHANGED tableVars, pc # "add", pc' # "add" PROVE EveryChildTracked' /\ ReapedOK'
  BY <1>7, <1>a, <1>c, TrackKept DEF ReapedOK, Quiet, tableVars, handlerVars
<1>8. CASE \/ \E c \in {"fg", "bg"} : Command(c)
           \/ ForkFails \/ WaitGet \/ WaitTest \/ Pause
  BY <1>7, <1>8 DEF Command, ForkFails, WaitGet, WaitTest, Pause
<1>9. CASE Block
  BY <1>9, <1>a, <1>c, TrackKept DEF Block, ReapedOK, tableVars, handlerVars, Alive
<1>10. CASE \/ \E c \in {"fg", "bg"} : \E p \in Pids : BgFgByPid(c, p)
            \/ \E c \in {"fg", "bg"} : \E j \in 0..JidBound : BgFgByJid(c, j)
            \/ ReadPid \/ TestStopped
  BY <1>7, <1>10 DEF BgFgByPid, BgFgByJid, ReadPid, TestStopped
<1>11. CASE ListJobs \/ ListPid \/ ListState
  BY <1>7, <1>11 DEF ListJobs, ListPid, ListState, NextSlot
<1> QED BY <1>1, <1>2, <1>3, <1>4, <1>5, <1>6, <1>8, <1>9, <1>10, <1>11, <1>12, <1>13 DEF MainStep

\* A step of a handler keeps every child tracked: only the end of a process
\* that waitpid has reported takes its job out of the table.
LEMMA HandlerTrack ==
    ASSUME TypeOK, Inv, EveryChildTracked, ReapedOK, HandlerStep
    PROVE  EveryChildTracked' /\ ReapedOK'
<1>a. "CHLD" \in Sigs /\ "INT" \in Sigs /\ "TSTP" \in Sigs
  BY DEF Sigs
<1>1. CASE ChldDone
  BY <1>1, <1>a, TrackAside DEF ChldDone, Return, ReapedOK, tableVars, TypeOK
<1>2. ASSUME NEW p \in Pids, ChldWait(p) PROVE EveryChildTracked' /\ ReapedOK'
  <2>1. EveryChildTracked'
    BY <1>2, TrackAside DEF ChldWait, tableVars, mainVars, TypeOK, Ready, Zombie
  <2>2. ReapedOK'
    BY <1>2, <1>a DEF ChldWait, ReapedOK, TypeOK, Zombie
  <2> QED BY <2>1, <2>2
<1>3. CASE ChldApply
  <2>1. hpc'["CHLD"] = "start" /\ pc' = pc /\ mpid' = mpid /\ proc' = proc /\ Alive
    BY <1>3, <1>a DEF ChldApply, Handler, mainVars, TypeOK
  <2>2. CASE hstat = "stopping"
    <3>1. \A i \in Slots : jobs'[i].pid = jobs[i].pid
      BY <1>3, <2>2 DEF ChldApply, Apply, TypeOK, Job
    <3> QED BY <2>1, <3>1, TrackAside DEF ReapedOK
  <2>3. CASE hstat # "stopping"
    <3>1. proc[hpid["CHLD"]] = "none"
      BY <1>3, <2>1, <2>3 DEF ReapedOK, ChldApply, Handler, TypeOK, Ready
    <3>2. deletejob(hpid["CHLD"])
      BY <1>3, <2>3 DEF ChldApply, Apply
    <3>3. \A i \in Slots : jobs[i].pid # hpid["CHLD"] => jobs'[i] = jobs[i]
      BY <3>2 DEF deletejob, getjobpid, First, tableVars, TypeOK
    <3>4. \A p \in Pids : p # hpid["CHLD"] /\ Listed(p) => Listed(p)'
      BY <3>3 DEF Listed
    <3> QED BY <2>1, <3>1, <3>4 DEF EveryChildTracked, ReapedOK, Alive
  <2> QED BY <2>2, <2>3
<1>4. CASE ChldNull
  BY <1>4 DEF ChldNull, Die, EveryChildTracked, ReapedOK, Alive
<1>5. ASSUME NEW s \in {"INT", "TSTP"}, FindFg(s) PROVE EveryChildTracked' /\ ReapedOK'
  BY <1>5, <1>a, TrackAside DEF FindFg, Handler, Return, ReapedOK, tableVars, mainVars, TypeOK, Alive
<1>6. ASSUME NEW s \in {"INT", "TSTP"}, Forward(s) PROVE EveryChildTracked' /\ ReapedOK'
  <2>1. \A p \in Pids : proc'[p] # "none" <=> proc[p] # "none"
    BY <1>6 DEF Forward, TypeOK
  <2>2. EveryChildTracked'
    BY <1>6, <2>1, TrackAside DEF Forward, Return, tableVars
  <2>3. hpc'["CHLD"] = hpc["CHLD"] /\ hpid'["CHLD"] = hpid["CHLD"] /\ hstat' = hstat /\ Alive
    BY <1>6, <1>a DEF Forward, Handler, Return, TypeOK
  <2>4. hpc["CHLD"] = "act" => hpid["CHLD"] \in Pids
    BY <1>a DEF Inv, StackOK, TypeOK
  <2> QED BY <2>1, <2>2, <2>3, <2>4 DEF ReapedOK
<1> QED BY <1>1, <1>2, <1>3, <1>4, <1>5, <1>6 DEF HandlerStep, ChldStep, KeyStep

\* A step of a process, or of the user, keeps every child tracked.
LEMMA EnvironmentTrack ==
    ASSUME TypeOK, Inv, EveryChildTracked, ReapedOK, Environment
    PROVE  EveryChildTracked' /\ ReapedOK'
<1>a. "CHLD" \in Sigs
  BY DEF Sigs
<1>b. hpc["CHLD"] = "act" => hpid["CHLD"] \in Pids
  BY <1>a DEF Inv, StackOK, TypeOK
<1>1. ASSUME NEW s \in Keys, Key(s) PROVE EveryChildTracked' /\ ReapedOK'
  BY <1>1, TrackAside DEF Key, ReapedOK, tableVars, mainVars, handlerVars
<1>2. CASE Sigquit
  BY <1>2 DEF Sigquit, Die, EveryChildTracked, ReapedOK, Alive
<1>3. ASSUME NEW p \in Pids, NEW st, NEW n, proc[p] # "none", Becomes(p, st, n)
      PROVE  EveryChildTracked' /\ ReapedOK'
  <2>1. \A q \in Pids : /\ proc'[q] # "none" => proc[q] # "none"
                        /\ proc[q] = "none" => proc'[q] = "none"
    BY <1>3 DEF Becomes, TypeOK
  <2> QED BY <1>3, <1>b, <2>1, TrackAside DEF Becomes, ReapedOK, tableVars, mainVars, handlerVars
<1>4. ASSUME NEW p \in Pids, Setpgid(p) \/ Execve(p) \/ Exit(p) \/ Killed(p) \/ Stopped(p) \/ Continued(p)
      PROVE  EveryChildTracked' /\ ReapedOK'
  BY <1>4, <1>3 DEF Setpgid, Execve, Exit, Killed, Stopped, Continued
<1> QED BY <1>1, <1>2, <1>4 DEF Environment

\* Every child but the one eval is about to add is in the table, as long as
\* there are no more processes than slots: eval adds each before it can be
\* reaped, and only what waitpid has reported is deleted.
THEOREM ChildrenTracked == ASSUME FewChildren PROVE Spec => []EveryChildTracked
<1>1. Init => EveryChildTracked /\ ReapedOK
  BY DEF Init, EveryChildTracked, ReapedOK, Sigs
<1>2. /\ TypeOK /\ PointerOK /\ Inv /\ EveryChildTracked /\ ReapedOK /\ [Next]_vars
      => (EveryChildTracked /\ ReapedOK)'
  <2> SUFFICES ASSUME TypeOK, PointerOK, Inv, EveryChildTracked, ReapedOK, [Next]_vars
               PROVE  EveryChildTracked' /\ ReapedOK'
    OBVIOUS
  <2>1. CASE Quit \/ BlankLine
    BY <2>1 DEF Quit, BlankLine, Die, EveryChildTracked, ReapedOK, Alive
  <2>2. CASE MainStep
    BY <2>2, MainTrack
  <2>3. ASSUME NEW s \in Sigs, Deliver(s) PROVE EveryChildTracked' /\ ReapedOK'
    BY <2>3, TrackAside DEF Deliver, Enter, ReapedOK, tableVars, mainVars, TypeOK, Sigs, Alive
  <2>4. CASE HandlerStep
    BY <2>4, HandlerTrack
  <2>5. CASE Environment
    BY <2>5, EnvironmentTrack
  <2>6. CASE UNCHANGED vars
    BY <2>6 DEF vars, EveryChildTracked, ReapedOK, Listed, Alive
  <2> QED BY <2>1, <2>2, <2>3, <2>4, <2>5, <2>6 DEF Next
<1> QED BY <1>1, <1>2, Invariance, PTL DEF Spec
-----------------------------------------------------------------------------
(***************************************************************************)
(* Refinement: the shell implements the abstract job control.              *)
(***************************************************************************)

\* Each process has one slot in table t.
OneSlot(t) == \A i, k \in Slots : t[i].pid = t[k].pid => i = k \/ t[i].pid = 0

\* A job that is listed in one slot, with its job ID, has the state of that slot.
LEMMA StateOfSlot == ASSUME NEW t, OneSlot(t), NEW i \in Slots, NEW p \in Pids,
                            t[i].pid = p, t[i].jid # 0
                     PROVE  JobState(t, p) = t[i].state
<1>1. Complete(t, p) = {i}
  BY DEF OneSlot, Complete
<1> QED BY <1>1 DEF JobState

\* A job that no slot lists with a job ID is absent.
LEMMA StateAbsent == ASSUME NEW t, NEW p \in Pids, \A i \in Slots : t[i].pid = p => t[i].jid = 0
                     PROVE  JobState(t, p) = "absent"
<1>1. Complete(t, p) = {}
  BY DEF Complete
<1> QED BY <1>1 DEF JobState

\* The abstract state of p does not change when its slot keeps what it has.
LEMMA StateKept == ASSUME NEW t, NEW u, OneSlot(t), OneSlot(u), NEW p \in Pids,
                          \A i \in Slots : /\ t[i].pid = p /\ t[i].jid # 0 <=> u[i].pid = p /\ u[i].jid # 0
                                           /\ t[i].pid = p /\ t[i].jid # 0 => t[i].state = u[i].state
                   PROVE  JobState(u, p) = JobState(t, p)
<1>1. CASE \A i \in Slots : t[i].pid = p => t[i].jid = 0
  BY <1>1, StateAbsent
<1>2. ASSUME NEW i \in Slots, t[i].pid = p, t[i].jid # 0 PROVE JobState(u, p) = JobState(t, p)
  BY <1>2, StateOfSlot
<1> QED BY <1>1, <1>2

\* A step that changes the abstract state of process p alone.
LEMMA OneChange == ASSUME NEW p \in Pids, NEW v,
                          JobState(jobs', p) = v,
                          \A q \in Pids : q # p => JobState(jobs', q) = JobState(jobs, q)
                   PROVE  [q \in Pids |-> JobState(jobs', q)]
                            = [[q \in Pids |-> JobState(jobs, q)] EXCEPT ![p] = v]
  OBVIOUS

\* Without a foreground job in the table there is none in the abstract state.
LEMMA NoForeground == ASSUME TypeOK, OneSlot(jobs), NEW p,
                             \A i \in Slots : jobs[i].pid # 0 /\ jobs[i].state = "FG" => jobs[i].pid = p
                      PROVE  JC!NoOtherFG(p)
<1> SUFFICES ASSUME NEW q \in Pids, q # p PROVE JobState(jobs, q) # "FG"
  BY DEF JC!NoOtherFG
<1>1. CASE \A i \in Slots : jobs[i].pid = q => jobs[i].jid = 0
  BY <1>1, StateAbsent
<1>2. ASSUME NEW i \in Slots, jobs[i].pid = q, jobs[i].jid # 0 PROVE JobState(jobs, q) # "FG"
  BY <1>2, StateOfSlot
<1> QED BY <1>1, <1>2

\* The empty job table is the abstract initial state.
LEMMA InitRefines == Init => JC!Init
<1> SUFFICES ASSUME Init, NEW p \in Pids PROVE JobState(jobs, p) = "absent"
  BY DEF JC!Init
<1>1. \A i \in Slots : jobs[i].pid = 0
  BY DEF Init, TableInit, initjobs, clearjob
<1> QED BY <1>1, StateAbsent

\* addjob: the stores of the pid and of the state do not show in the abstract
\* state, which knows the job when it has its job ID.
LEMMA FillRefines == ASSUME TypeOK, PointerOK, Inv, Inv', AddPid \/ AddState
                     PROVE  \A q \in Pids : JobState(jobs', q) = JobState(jobs, q)
<1>1. OneSlot(jobs) /\ OneSlot(jobs')
  BY DEF Inv, TableOK, OneSlot
<1>2. CASE jobs' = jobs
  BY <1>2
<1>3. ASSUME NEW i \in Slots, jobs[i].jid = 0, jobs'[i].jid = 0, \A k \in Slots : k # i => jobs'[k] = jobs[k]
      PROVE  \A q \in Pids : JobState(jobs', q) = JobState(jobs, q)
  <2> SUFFICES ASSUME NEW q \in Pids PROVE JobState(jobs', q) = JobState(jobs, q)
    OBVIOUS
  <2>1. \A k \in Slots : /\ jobs[k].pid = q /\ jobs[k].jid # 0 <=> jobs'[k].pid = q /\ jobs'[k].jid # 0
                         /\ jobs[k].pid = q /\ jobs[k].jid # 0 => jobs[k].state = jobs'[k].state
    BY <1>3
  <2> QED BY <1>1, <2>1, StateKept
<1>4. CASE AddPid
  <2>1. PICK i \in 0..MAXJOBS : FreeSlot(i) /\ (jobs' = jobs \/ (i # 0 /\ StorePid(i, mpid)))
    BY <1>4 DEF AddPid, tableVars
  <2>2. i # 0 => i \in Slots /\ jobs[i].jid = 0
    BY <2>1 DEF FreeSlot, First, Inv, TableOK
  <2>3. i # 0 /\ StorePid(i, mpid) => jobs'[i].jid = 0 /\ \A k \in Slots : k # i => jobs'[k] = jobs[k]
    BY <2>2 DEF StorePid, TypeOK, Job
  <2> QED BY <1>2, <1>3, <2>1, <2>2, <2>3 DEF tableVars
<1>5. CASE AddState
  <2>1. slot \in Slots /\ jobs[slot].jid = 0
    BY <1>5 DEF AddState, Main, PointerOK, Inv, AddOK
  <2>2. jobs'[slot].jid = 0 /\ \A k \in Slots : k # slot => jobs'[k] = jobs[k]
    BY <1>5, <2>1 DEF AddState, StoreState, TypeOK, Job
  <2> QED BY <1>3, <2>1, <2>2
<1> QED BY <1>4, <1>5

\* addjob: the store of the job ID launches the job.
LEMMA AddRefines == ASSUME TypeOK, PointerOK, Inv, Inv', AddJid
                    PROVE  JC!Next
<1> DEFINE st == IF cmd = "bg" THEN "BG" ELSE "FG"
<1>1. OneSlot(jobs) /\ OneSlot(jobs')
  BY DEF Inv, TableOK, OneSlot
<1>2. slot \in Slots /\ mpid \in Pids /\ jobs[slot].pid = mpid /\ jobs[slot].jid = 0 /\ jobs[slot].state = st
  BY DEF AddJid, Main, PointerOK, Inv, AddOK, TypeOK
<1>3. /\ jobs'[slot].pid = mpid /\ jobs'[slot].jid # 0 /\ jobs'[slot].state = st
      /\ \A k \in Slots : k # slot => jobs'[k] = jobs[k]
  BY <1>2 DEF AddJid, StoreJid, TypeOK, Job
<1>4. JobState(jobs, mpid) = "absent"
  <2>1. \A k \in Slots : jobs[k].pid = mpid => jobs[k].jid = 0
    BY <1>1, <1>2 DEF OneSlot
  <2> QED BY <1>2, <2>1, StateAbsent
<1>5. JobState(jobs', mpid) = st
  <2>1. JobState(jobs', mpid) = jobs'[slot].state
    BY <1>1, <1>2, <1>3, StateOfSlot
  <2> QED BY <1>3, <2>1
<1>6. ASSUME NEW q \in Pids, q # mpid PROVE JobState(jobs', q) = JobState(jobs, q)
  <2>1. \A k \in Slots : /\ jobs[k].pid = q /\ jobs[k].jid # 0 <=> jobs'[k].pid = q /\ jobs'[k].jid # 0
                         /\ jobs[k].pid = q /\ jobs[k].jid # 0 => jobs[k].state = jobs'[k].state
    BY <1>2, <1>3, <1>6
  <2> QED BY <1>1, <2>1, StateKept
<1>7. JC!NoOtherFG(mpid)
  BY <1>1, NoForeground DEF Inv, ForegroundIsAwaited, AddJid, Main, Alive
<1>8. JC!Launch(mpid, st)
  BY <1>2, <1>4, <1>5, <1>6, <1>7, OneChange DEF JC!Launch
<1> QED BY <1>2, <1>8 DEF JC!Next, JC!Documented

\* do_bgfg: the assignment resumes the job it looked up, or marks a slot that
\* holds no job any more.
LEMMA SetRefines == ASSUME TypeOK, PointerOK, Inv, Inv', SetState
                    PROVE  JC!Next \/ \A q \in Pids : JobState(jobs', q) = JobState(jobs, q)
<1> DEFINE st == IF cmd = "fg" THEN "FG" ELSE "BG"
<1>1. OneSlot(jobs) /\ OneSlot(jobs')
  BY DEF Inv, TableOK, OneSlot
<1>2. slot \in Slots /\ jobs[slot].pid \in {0, mpid}
  BY DEF SetState, Main, PointerOK, Inv, StaleOK
<1>3. /\ \A k \in Slots : jobs'[k].pid = jobs[k].pid /\ jobs'[k].jid = jobs[k].jid
      /\ \A k \in Slots : k # slot => jobs'[k].state = jobs[k].state
      /\ jobs'[slot].state = st
  BY <1>2 DEF SetState, TypeOK, Job
<1>4. ASSUME NEW q \in Pids, q # jobs[slot].pid PROVE JobState(jobs', q) = JobState(jobs, q)
  <2>1. \A k \in Slots : /\ jobs[k].pid = q /\ jobs[k].jid # 0 <=> jobs'[k].pid = q /\ jobs'[k].jid # 0
                         /\ jobs[k].pid = q /\ jobs[k].jid # 0 => jobs[k].state = jobs'[k].state
    BY <1>3, <1>4
  <2> QED BY <1>1, <2>1, StateKept
<1>5. CASE jobs[slot].pid = 0
  BY <1>4, <1>5
<1>6. CASE jobs[slot].pid # 0
  <2>1. mpid \in Pids /\ jobs[slot].pid = mpid /\ jobs[slot].jid # 0
    BY <1>2, <1>6 DEF TypeOK, Inv, TableOK, SetState, Main, Alive
  <2>2. JobState(jobs', mpid) = st /\ JobState(jobs, mpid) = jobs[slot].state
    BY <1>1, <1>2, <1>3, <2>1, StateOfSlot
  <2>3. \A k \in Slots : jobs[k].pid # 0 => jobs[k].state # "FG"
    BY DEF SetState, Main, Inv, ForegroundIsAwaited, Alive
  <2>4. jobs[slot].state \in {"BG", "ST"}
    BY <1>2, <1>6, <2>3 DEF SetState, Main, Alive, Inv, TableOK, TypeOK, Job, States
  <2>5. JC!NoOtherFG(mpid)
    BY <1>1, <2>3, NoForeground
  <2>6. CASE JobState(jobs, mpid) = st
    BY <1>4, <2>1, <2>2, <2>6
  <2>7. CASE cmd = "fg"
    <3>1. JC!ResumeForeground(mpid)
      BY <1>4, <2>1, <2>2, <2>4, <2>5, <2>7, OneChange DEF JC!ResumeForeground
    <3> QED BY <2>1, <3>1 DEF JC!Next, JC!Documented
  <2>8. CASE cmd # "fg" /\ JobState(jobs, mpid) # st
    <3>1. JC!ResumeBackground(mpid)
      BY <1>4, <2>1, <2>2, <2>4, <2>5, <2>8, OneChange DEF JC!ResumeBackground
    <3> QED BY <2>1, <3>1 DEF JC!Next, JC!Documented
  <2> QED BY <2>6, <2>7, <2>8
<1> QED BY <1>5, <1>6

\* sigchld_handler: recording a status finishes or stops the job.
LEMMA ApplyRefines == ASSUME TypeOK, Inv, Inv', ChldApply
                      PROVE  JC!Next \/ \A q \in Pids : JobState(jobs', q) = JobState(jobs, q)
<1> DEFINE p == hpid["CHLD"]
<1>1. OneSlot(jobs) /\ OneSlot(jobs')
  BY DEF Inv, TableOK, OneSlot
<1>2. p \in Pids
  BY DEF ChldApply, Handler, Inv, StackOK, TypeOK, Sigs
<1>3. \A i \in Slots : jobs[i].pid # 0 => jobs[i].jid # 0 /\ jobs[i].state \in {"FG", "BG", "ST"}
  <2>1. Alive /\ pc \notin {"add_state", "add_jid"}
    BY DEF ChldApply, Handler, Sigs, Inv, BlockOK, TypeOK
  <2> QED BY <2>1 DEF Inv, TableOK, TypeOK, Job, States
<1>4. CASE deletejob(p)
  <2>1. \A k \in Slots : IF jobs[k].pid = p THEN jobs'[k] = clearjob ELSE jobs'[k] = jobs[k]
    BY <1>2, <1>4, DeleteClears DEF Inv
  <2>2. JobState(jobs', p) = "absent"
    BY <1>2, <2>1, StateAbsent DEF clearjob
  <2>3. ASSUME NEW q \in Pids, q # p PROVE JobState(jobs', q) = JobState(jobs, q)
    <3>1. \A k \in Slots : /\ jobs[k].pid = q /\ jobs[k].jid # 0 <=> jobs'[k].pid = q /\ jobs'[k].jid # 0
                           /\ jobs[k].pid = q /\ jobs[k].jid # 0 => jobs[k].state = jobs'[k].state
      BY <2>1, <2>3 DEF clearjob
    <3> QED BY <1>1, <3>1, StateKept
  <2>4. CASE JobState(jobs, p) = "absent"
    BY <2>2, <2>3, <2>4
  <2>5. CASE JobState(jobs, p) # "absent"
    <3>1. JC!Finish(p)
      BY <1>2, <2>2, <2>3, <2>5, OneChange DEF JC!Finish
    <3> QED BY <1>2, <3>1 DEF JC!Next, JC!Documented
  <2> QED BY <2>4, <2>5
<1>5. ASSUME NEW i \in Slots, jobs[i].pid = p, jobs' = [jobs EXCEPT ![i].state = "ST"]
      PROVE  JC!Next \/ \A q \in Pids : JobState(jobs', q) = JobState(jobs, q)
  <2>1. /\ \A k \in Slots : jobs'[k].pid = jobs[k].pid
        /\ \A k \in Slots : k # i => jobs'[k].state = jobs[k].state
        /\ jobs'[i].state = "ST"
        /\ \A k \in Slots : jobs'[k].jid = jobs[k].jid
    BY <1>5 DEF TypeOK, Job
  <2>2. JobState(jobs', p) = jobs'[i].state /\ JobState(jobs, p) = jobs[i].state
    <3>1. /\ jobs[i].pid = p /\ jobs[i].jid # 0
          /\ jobs'[i].pid = p /\ jobs'[i].jid # 0
      BY <1>2, <1>3, <1>5, <2>1
    <3>2. JobState(jobs', p) = jobs'[i].state
      BY <1>1, <1>2, <3>1, StateOfSlot
    <3>3. JobState(jobs, p) = jobs[i].state
      BY <1>1, <1>2, <3>1, StateOfSlot
    <3> QED BY <3>2, <3>3
  <2>3. ASSUME NEW q \in Pids, q # p PROVE JobState(jobs', q) = JobState(jobs, q)
    <3>1. \A k \in Slots : /\ jobs[k].pid = q /\ jobs[k].jid # 0 <=> jobs'[k].pid = q /\ jobs'[k].jid # 0
                           /\ jobs[k].pid = q /\ jobs[k].jid # 0 => jobs[k].state = jobs'[k].state
      BY <1>5, <2>1, <2>3
    <3> QED BY <1>1, <3>1, StateKept
  <2>4. CASE jobs[i].state = "FG"
    <3>1. JC!Stop(p)
      BY <1>2, <2>1, <2>2, <2>3, <2>4, OneChange DEF JC!Stop
    <3> QED BY <1>2, <3>1 DEF JC!Next, JC!Documented
  <2>5. CASE jobs[i].state = "BG"
    <3>1. JC!StopBackground(p)
      BY <1>2, <2>1, <2>2, <2>3, <2>5, OneChange DEF JC!StopBackground
    <3> QED BY <1>2, <3>1 DEF JC!Next
  <2>6. CASE jobs[i].state = "ST"
    BY <2>1, <2>2, <2>3, <2>6
  <2> QED BY <1>2, <1>3, <1>5, <2>4, <2>5, <2>6
<1>6. PICK i \in 0..MAXJOBS : getjobpid(p, i) /\ Apply(p, i)
  BY DEF ChldApply
<1>7. i # 0 => i \in Slots /\ jobs[i].pid = p
  BY <1>2, <1>6 DEF getjobpid, First
<1> QED BY <1>4, <1>5, <1>6, <1>7 DEF Apply

\* A step of the shell is a step of the abstract job control, or leaves it as it is.
LEMMA NextRefines == ASSUME TypeOK, PointerOK, Inv, Inv', [Next]_vars
                     PROVE  JC!Next \/ UNCHANGED [p \in Pids |-> JobState(jobs, p)]
<1>1. CASE AddPid \/ AddState \/ AddJid
  BY <1>1, FillRefines, AddRefines
<1>2. CASE SetState
  BY <1>2, SetRefines
<1>3. CASE ChldApply
  BY <1>3, ApplyRefines
<1>4. CASE jobs' = jobs
  BY <1>4
<1>5. ASSUME Quit \/ BlankLine \/ Sigquit \/ PrintJob \/ ChldNull PROVE jobs' = jobs
  BY <1>5 DEF Quit, BlankLine, Sigquit, PrintJob, ChldNull, Die, tableVars
<1>6. ASSUME MainStep, ~AddPid, ~AddState, ~AddJid, ~SetState, ~PrintJob PROVE jobs' = jobs
  BY <1>6 DEF MainStep, Command, Block, ForkFails, Fork, Unblock, WaitGet, WaitTest, Pause, BgFgByPid,
              BgFgByJid, ReadPid, TestStopped, SendCont, ListJobs, ListPid, ListState, tableVars
<1>7. ASSUME NEW s \in Sigs, Deliver(s) PROVE jobs' = jobs
  BY <1>7 DEF Deliver, tableVars
<1>8. ASSUME HandlerStep, ~ChldApply, ~ChldNull PROVE jobs' = jobs
  BY <1>8 DEF HandlerStep, ChldStep, KeyStep, ChldDone, ChldWait, FindFg, Forward, tableVars
<1>9. ASSUME Environment, ~Sigquit PROVE jobs' = jobs
  BY <1>9 DEF Environment, Key, Setpgid, Execve, Exit, Killed, Stopped, Continued, Becomes, tableVars
<1> QED BY <1>1, <1>2, <1>3, <1>4, <1>5, <1>6, <1>7, <1>8, <1>9 DEF Next, vars

\* The shell implements the abstract job control, whatever races it runs into.
THEOREM Refinement == Spec => ImplementsJobControl
<1>1. TypeOK /\ PointerOK /\ Inv /\ (TypeOK /\ PointerOK /\ Inv)' /\ [Next]_vars
        => [JC!Next]_([p \in Pids |-> JobState(jobs, p)])
  BY NextRefines
<1> QED BY <1>1, InitRefines, Invariance, PTL DEF Spec, ImplementsJobControl, JC!Spec
=============================================================================
