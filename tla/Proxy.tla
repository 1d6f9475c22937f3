------------------------------- MODULE Proxy -------------------------------
(***************************************************************************)
(* The web proxy (proxylab-handout/proxy.c): the main thread, which        *)
(* accepts connections and creates a thread for each, and those threads,   *)
(* which share the descriptor table of the process, the static results of  *)
(* gethostbyname and localtime, the log file and two mutexes.              *)
(*                                                                         *)
(* One step of a thread is a system or library call, or an access to       *)
(* shared data.  What travels over a connection is in module Relay; here   *)
(* the transfer is one step with its possible outcomes.                    *)
(***************************************************************************)
EXTENDS Integers, Sequences, FiniteSets

CONSTANTS
    Conns,          \* the connections clients make
    MaxFds          \* descriptors the process may open for them

ASSUME MaxFdsAssumption == MaxFds \in Nat
ASSUME ConnsAssumption == "none" \notin Conns

VARIABLES
    mpc, newfd, mconn,  \* the main thread: where it is, what accept returned
    pc,         \* pc[c]: where the thread of connection c is
    sockfd,     \* sockfd[c]: data->sockfd, the descriptor of the client
    serverfd,   \* serverfd[c]: the descriptor of the end server
    table,      \* table[f]: what descriptor f is open for
    hostent,    \* the static result of gethostbyname: whose host it describes
    server,     \* server[c]: whose host the thread of c has in its address
    syscall, logfile,   \* the mutexes: who holds them
    tm,         \* the static result of localtime: who has asked for the time
    stamp,      \* stamp[c]: whose time the thread of c has in its entry
    out,        \* standard output, line by line: whose entries it has
    log, buffer \* proxy.log, and what stdio has not written to it yet

mainVars == <<mpc, newfd, mconn>>
fdVars == <<sockfd, serverfd, table>>
dnsVars == <<hostent, server, syscall>>
logVars == <<logfile, tm, stamp, out, log, buffer>>
vars == <<mainVars, pc, fdVars, dnsVars, logVars>>

NONE == "none"
Fds == 1..MaxFds
Closed == <<NONE, NONE>>

Pcs == {"none", "accepted", "refused", "detach", "request", "lock_dns", "resolve", "copy",
        "unlock_dns", "unlock_failed", "socket", "connect", "relay", "lock_log", "localtime",
        "strftime", "printf", "fprintf", "unlock_log", "close_server", "close_client", "done"}

Init == /\ mpc = "start" /\ newfd = -1 /\ mconn = NONE
        /\ pc = [c \in Conns |-> "none"]
        /\ sockfd = [c \in Conns |-> -1] /\ serverfd = [c \in Conns |-> -1]
        /\ table = [f \in Fds |-> Closed]
        /\ hostent = NONE /\ server = [c \in Conns |-> NONE] /\ syscall = NONE
        /\ logfile = NONE /\ tm = NONE /\ stamp = [c \in Conns |-> NONE]
        /\ out = <<>> /\ log = <<>> /\ buffer = <<>>

Running == mpc # "killed"

\* The whole process ends by a signal.  Its descriptors are closed; what stdio
\* has in its buffer is lost.
Killed == /\ mpc' = "killed" /\ newfd' = -1 /\ mconn' = NONE
          /\ pc' = [d \in Conns |-> IF pc[d] = "none" THEN "none" ELSE "done"]
          /\ sockfd' = [d \in Conns |-> -1] /\ serverfd' = [d \in Conns |-> -1]
          /\ table' = [f \in Fds |-> Closed]
          /\ syscall' = NONE /\ logfile' = NONE /\ buffer' = <<>>
          /\ UNCHANGED <<hostent, server, tm, stamp, out, log>>

\* The kernel gives out the lowest descriptor that is free.
Lowest(f) == table[f] = Closed /\ \A g \in Fds : table[g] = Closed => f <= g

\* close(f): what was open under that number is closed, whoever opened it.
Close(f) == table' = [table EXCEPT ![f] = Closed]

-----------------------------------------------------------------------------
(* The main thread.                                                        *)

\* The mutexes, the listening socket and the log file; main gives up when one
\* of them cannot be had (open_proxyfd closes a socket it cannot use).
Start == /\ mpc = "start"
         /\ mpc' \in {"accept", "exited"}
         /\ UNCHANGED <<newfd, mconn, pc, fdVars, dnsVars, logVars>>

\* accept returns a new descriptor.  (When it fails, main tries again.)
Accept(c, f) == /\ mpc = "accept" /\ pc[c] = "none" /\ Lowest(f)
                /\ mpc' = "create" /\ newfd' = f /\ mconn' = c
                /\ pc' = [pc EXCEPT ![c] = "accepted"]
                /\ table' = [table EXCEPT ![f] = <<c, "client">>]
                /\ UNCHANGED <<sockfd, serverfd, dnsVars, logVars>>

CreateThread == /\ mpc = "create"
                /\ pc' = [pc EXCEPT ![mconn] = "detach"]
                /\ sockfd' = [sockfd EXCEPT ![mconn] = newfd]
                /\ mpc' = "accept" /\ newfd' = -1 /\ mconn' = NONE
                /\ UNCHANGED <<serverfd, table, dnsVars, logVars>>

\* malloc finds no memory for the data bundle, and main writes to it.
OutOfMemory == mpc = "create" /\ Killed

\* pthread_create fails: the data bundle is freed, newfd stays open.
CreateFails == /\ mpc = "create"
               /\ pc' = [pc EXCEPT ![mconn] = "refused"]
               /\ mpc' = "accept" /\ newfd' = -1 /\ mconn' = NONE
               /\ UNCHANGED <<fdVars, dnsVars, logVars>>

-----------------------------------------------------------------------------
(* The thread of connection c: process() and what it calls.                *)

\* The thread moves on.
Step(c, from, to) == /\ Running /\ pc[c] = from
                     /\ pc' = [pc EXCEPT ![c] = to]
                     /\ UNCHANGED mainVars

Local(c, from, to) == Step(c, from, to) /\ UNCHANGED <<fdVars, dnsVars, logVars>>

\* pthread_detach fails and the thread only closes its connection.
Detach(c) == Local(c, "detach", "request") \/ Local(c, "detach", "close_client")

\* The request line is read and parsed, or there is none or it is no request.
Request(c) == Local(c, "request", "lock_dns") \/ Local(c, "request", "close_client")

MutantNoLock(c) == Local(c, "lock_dns", "resolve")

LockDns(c) == /\ Step(c, "lock_dns", "resolve")
              /\ syscall = NONE /\ syscall' = c
              /\ UNCHANGED <<hostent, server, fdVars, logVars>>

\* pthread_mutex_lock reports an error.
LockFails(c) == Local(c, "lock_dns", "close_client")

\* gethostbyname overwrites its static result, or finds no such host.
Resolve(c) == \/ /\ Step(c, "resolve", "copy")
                 /\ hostent' = c
                 /\ UNCHANGED <<server, syscall, fdVars, logVars>>
              \/ Local(c, "resolve", "unlock_failed")

CopyAddress(c) == /\ Step(c, "copy", "unlock_dns")
                  /\ server' = [server EXCEPT ![c] = hostent]
                  /\ UNCHANGED <<hostent, syscall, fdVars, logVars>>

UnlockDns(c) == /\ Step(c, "unlock_dns", "socket")
                /\ syscall' = NONE
                /\ UNCHANGED <<hostent, server, fdVars, logVars>>

MutantReturnLocked(c) == Local(c, "unlock_failed", "close_client")

\* open_serverfd gives the mutex back before it returns -1, too.
UnlockFailed(c) == /\ Step(c, "unlock_failed", "close_client")
                   /\ syscall' = NONE
                   /\ UNCHANGED <<hostent, server, fdVars, logVars>>

Socket(c, f) == /\ Step(c, "socket", "connect") /\ Lowest(f)
                /\ table' = [table EXCEPT ![f] = <<c, "server">>]
                /\ serverfd' = [serverfd EXCEPT ![c] = f]
                /\ UNCHANGED <<sockfd, dnsVars, logVars>>

\* socket() fails, for want of a descriptor or for another reason.
SocketFails(c) == Local(c, "socket", "close_client")

Connect(c) == Local(c, "connect", "relay")

MutantCloseTwice(c) == /\ Step(c, "connect", "close_server")
                       /\ Close(serverfd[c])
                       /\ UNCHANGED <<sockfd, serverfd, dnsVars, logVars>>

\* connect() fails: the descriptor is closed and -1 returned.
ConnectFails(c) == /\ Step(c, "connect", "close_client")
                   /\ Close(serverfd[c])
                   /\ serverfd' = [serverfd EXCEPT ![c] = -1]
                   /\ UNCHANGED <<sockfd, dnsVars, logVars>>

\* Request and response are relayed; something reached the client, or nothing.
Transfer(c) == Local(c, "relay", "lock_log") \/ Local(c, "relay", "close_server")

\* A malformed request or response line makes strchr return NULL, or a peer
\* has closed the connection written to (SIGPIPE): the whole process ends.
Fatal(c) == Running /\ pc[c] \in {"request", "relay"} /\ Killed

MutantLogUnlocked(c) == Local(c, "lock_log", "localtime")

LockLog(c) == /\ Step(c, "lock_log", "localtime")
              /\ logfile = NONE /\ logfile' = c
              /\ UNCHANGED <<tm, stamp, out, log, buffer, fdVars, dnsVars>>

\* format_log_entry: localtime overwrites its static result ...
Localtime(c) == /\ Step(c, "localtime", "strftime")
                /\ tm' = c
                /\ UNCHANGED <<logfile, stamp, out, log, buffer, fdVars, dnsVars>>

\* ... of which the time in the entry is made.
Strftime(c) == /\ Step(c, "strftime", "printf")
               /\ stamp' = [stamp EXCEPT ![c] = tm]
               /\ UNCHANGED <<logfile, tm, out, log, buffer, fdVars, dnsVars>>

\* The entry on standard output ...
Printf(c) == /\ Step(c, "printf", "fprintf")
             /\ out' = Append(out, c)
             /\ UNCHANGED <<logfile, tm, stamp, log, buffer, fdVars, dnsVars>>

\* ... and for the log file: into the buffer of the stream, which is never
\* flushed but written out, up to any entry, as it becomes full.
Fprintf(c) == /\ Step(c, "fprintf", "unlock_log")
              /\ LET all == Append(buffer, c)
                 IN \E k \in 0..Len(all) : /\ log' = log \o SubSeq(all, 1, k)
                                           /\ buffer' = SubSeq(all, k + 1, Len(all))
              /\ UNCHANGED <<logfile, tm, stamp, out, fdVars, dnsVars>>

UnlockLog(c) == /\ Step(c, "unlock_log", "close_server")
                /\ logfile' = NONE
                /\ UNCHANGED <<tm, stamp, out, log, buffer, fdVars, dnsVars>>

MutantKeepServer(c) == Local(c, "close_server", "close_client")

CloseServer(c) == /\ Step(c, "close_server", "close_client")
                  /\ Close(serverfd[c])
                  /\ serverfd' = [serverfd EXCEPT ![c] = -1]
                  /\ UNCHANGED <<sockfd, dnsVars, logVars>>

CloseClient(c) == /\ Step(c, "close_client", "done")
                  /\ Close(sockfd[c])
                  /\ sockfd' = [sockfd EXCEPT ![c] = -1]
                  /\ UNCHANGED <<serverfd, dnsVars, logVars>>

Thread(c) == \/ Detach(c) \/ Request(c)
             \/ LockDns(c) \/ Resolve(c) \/ CopyAddress(c) \/ UnlockDns(c) \/ UnlockFailed(c)
             \/ (\E f \in Fds : Socket(c, f)) \/ SocketFails(c) \/ Connect(c) \/ ConnectFails(c)
             \/ Transfer(c)
             \/ LockLog(c) \/ Localtime(c) \/ Strftime(c) \/ Printf(c) \/ Fprintf(c) \/ UnlockLog(c)
             \/ CloseServer(c) \/ CloseClient(c)

MainThread == \/ Start \/ (\E c \in Conns : \E f \in Fds : Accept(c, f))
              \/ CreateThread \/ CreateFails \/ OutOfMemory

Next == MainThread \/ \E c \in Conns : Thread(c) \/ LockFails(c) \/ Fatal(c)

Spec == Init /\ [][Next]_vars

\* Threads are scheduled again and again, and calls return (the resolver and
\* connect answer or time out); a peer need not send anything, so that reading
\* the request and the transfer may take for ever.
Fairness == \A c \in Conns : WF_vars(Thread(c) /\ pc[c] \notin {"request", "relay"})

FairSpec == Spec /\ Fairness
-----------------------------------------------------------------------------
(* Properties.                                                             *)

\* The variables keep their types.
TypeOK == /\ mpc \in {"start", "accept", "create", "exited", "killed"}
          /\ newfd \in Fds \cup {-1} /\ mconn \in Conns \cup {NONE}
          /\ pc \in [Conns -> Pcs]
          /\ sockfd \in [Conns -> Fds \cup {-1}]
          /\ serverfd \in [Conns -> Fds \cup {-1}]
          /\ table \in [Fds -> {Closed} \cup (Conns \X {"client", "server"})]
          /\ hostent \in Conns \cup {NONE}
          /\ server \in [Conns -> Conns \cup {NONE}]
          /\ syscall \in Conns \cup {NONE} /\ logfile \in Conns \cup {NONE}
          /\ tm \in Conns \cup {NONE} /\ stamp \in [Conns -> Conns \cup {NONE}]
          /\ out \in Seq(Conns) /\ log \in Seq(Conns) /\ buffer \in Seq(Conns)

Started(c) == pc[c] \notin {"none", "accepted", "refused", "done"}

\* A thread uses the descriptors it was given and no others: whatever it reads,
\* writes or closes is still open for its own connection, although numbers are
\* given out again as soon as another thread has closed them.
OwnDescriptors ==
    \A c \in Conns :
        /\ Started(c) => sockfd[c] # -1 /\ table[sockfd[c]] = <<c, "client">>
        /\ pc[c] \in {"connect", "relay", "lock_log", "localtime", "strftime", "printf",
                      "fprintf", "unlock_log", "close_server"} => serverfd[c] # -1 /\ table[serverfd[c]] = <<c, "server">>

\* A thread that is done leaves no descriptor open, on whatever way it ended
\* (only a connection for which no thread could be created does).
NoDescriptorLeft ==
    \A f \in Fds : table[f] # Closed => pc[table[f][1]] # "done"
                                     /\ (table[f][2] = "server" => pc[table[f][1]] # "close_client")

\* gethostbyname returns a static result: a thread connects to the host of its
\* own request although other threads resolve theirs.
RightServer == \A c \in Conns : pc[c] \in {"unlock_dns", "socket", "connect", "relay"} => server[c] = c

\* localtime returns a static result, too: an entry has the time of its own
\* request although other threads write theirs.
RightTime == \A c \in Conns : pc[c] \in {"printf", "fprintf"} => stamp[c] = c

\* Standard output and the log have the same entries in the same order, the one
\* being written excepted.  The end of the log may be in the buffer of its stream
\* only, so that proxy.log itself has a first part of what was printed; after a
\* fatal signal that is all there is.
LogsAgree ==
    /\ Running => LET written == log \o buffer
                  IN written = out \/ \E c \in Conns : out = Append(written, c)
    /\ Len(log) <= Len(out) /\ \A i \in 1..Len(log) : log[i] = out[i]

\* A thread that waits for one of the mutexes gets it: every way out of a
\* critical section gives it back.
Waiting(c) == pc[c] \in {"lock_dns", "lock_log"}

LocksGranted == \A c \in Conns : Waiting(c) ~> ~Waiting(c)
=============================================================================
