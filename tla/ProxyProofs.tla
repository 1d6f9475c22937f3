---------------------------- MODULE ProxyProofs ----------------------------
(***************************************************************************)
(* Proofs about the threads of the web proxy, for any number of            *)
(* connections and any limit of descriptors.                               *)
(***************************************************************************)
EXTENDS Proxy, SequenceTheorems, TLAPS

USE MaxFdsAssumption, ConnsAssumption

\* The sequences of log entries grow by entries of connections.
LEMMA EntriesTyped == ASSUME NEW s \in Seq(Conns), NEW c \in Conns
                      PROVE  Append(s, c) \in Seq(Conns)
  OBVIOUS

\* What a stream writes out of its buffer and what it keeps are typed, and with
\* what is in the file already they make up what it was given.
LEMMA WrittenOut ==
    ASSUME NEW file \in Seq(Conns), NEW all \in Seq(Conns), NEW k \in 0..Len(all)
    PROVE  /\ file \o SubSeq(all, 1, k) \in Seq(Conns)
           /\ SubSeq(all, k + 1, Len(all)) \in Seq(Conns)
           /\ (file \o SubSeq(all, 1, k)) \o SubSeq(all, k + 1, Len(all)) = file \o all
<1> DEFINE first == SubSeq(all, 1, k)  rest == SubSeq(all, k + 1, Len(all))
<1>1. /\ first \in Seq(Conns) /\ Len(first) = k /\ \A i \in 1..k : first[i] = all[i]
      /\ rest \in Seq(Conns) /\ Len(rest) = Len(all) - k
      /\ \A i \in 1..Len(all) - k : rest[i] = all[k + i]
  OBVIOUS
<1> HIDE DEF first, rest
<1>2. first \o rest = all
  <2>1. /\ first \o rest \in Seq(Conns) /\ Len(first \o rest) = Len(first) + Len(rest)
        /\ \A i \in 1..Len(first) + Len(rest) :
              (first \o rest)[i] = IF i <= Len(first) THEN first[i] ELSE rest[i - Len(first)]
    BY <1>1, ConcatProperties
  <2>3. Len(first \o rest) = Len(all)
    BY <1>1, <2>1
  <2>2. ASSUME NEW i \in 1..Len(all) PROVE (first \o rest)[i] = all[i]
    <3>1. i \in 1..Len(first) + Len(rest)
      BY <1>1
    <3>2. CASE i <= k
      BY <1>1, <2>1, <3>1, <3>2
    <3>3. CASE ~(i <= k)
      <4>1. i - k \in 1..Len(all) - k /\ k + (i - k) = i
        BY <3>3
      <4>2. (first \o rest)[i] = rest[i - k]
        BY <1>1, <2>1, <3>1, <3>3
      <4> QED BY <1>1, <4>1, <4>2
    <3> QED BY <3>2, <3>3
  <2> QED BY <2>1, <2>2, <2>3, SeqEqual
<1>3. first \in Seq(Conns) /\ rest \in Seq(Conns)
  BY <1>1
<1>4. file \o first \in Seq(Conns)
  BY <1>3, ConcatProperties
<1>5. (file \o first) \o rest = file \o (first \o rest)
  BY ONLY <1>3, file \in Seq(Conns), ConcatAssociative
<1> QED BY <1>2, <1>3, <1>4, <1>5 DEF first, rest

\* Where the main thread has a connection, it has its descriptor.
CreateOK == mpc = "create" => mconn \in Conns /\ newfd \in Fds

\* The proxy starts with variables of their types.
LEMMA InitTypeOK == Init => TypeOK /\ CreateOK
  BY DEF Init, TypeOK, CreateOK, Pcs, Closed, NONE

\* The end of the process preserves the types.
LEMMA KilledTypeOK == TypeOK /\ CreateOK /\ Killed => TypeOK' /\ CreateOK'
<1> SUFFICES ASSUME TypeOK, Killed PROVE TypeOK' /\ CreateOK'
  OBVIOUS
<1>1. buffer' \in Seq(Conns)
  BY DEF Killed
<1>2. pc' \in [Conns -> Pcs]
  BY DEF Killed, Pcs
<1>3. sockfd' \in [Conns -> Fds \cup {-1}] /\ serverfd' \in [Conns -> Fds \cup {-1}]
      /\ table' \in [Fds -> {Closed} \cup (Conns \X {"client", "server"})]
  BY DEF Killed
<1>4. CreateOK'
  BY DEF Killed, CreateOK
<1> QED BY <1>1, <1>2, <1>3, <1>4 DEF Killed, TypeOK, NONE

\* Each step of a thread of the proxy preserves the types.
LEMMA NextTypeOK == TypeOK /\ CreateOK /\ [Next]_vars => TypeOK' /\ CreateOK'
<1> SUFFICES ASSUME TypeOK, CreateOK, [Next]_vars PROVE (TypeOK /\ CreateOK)'
  OBVIOUS
<1> USE DEF TypeOK, CreateOK, mainVars, fdVars, dnsVars, logVars, Step, NONE
<1>1. CASE Start
  BY <1>1 DEF Start
<1>2. ASSUME NEW c \in Conns, NEW f \in Fds, Accept(c, f) PROVE (TypeOK /\ CreateOK)'
  BY <1>2 DEF Accept, Pcs
<1>3. CASE CreateThread
  BY <1>3 DEF CreateThread, Pcs
<1>4. CASE CreateFails
  BY <1>4 DEF CreateFails, Pcs
<1>5. CASE Killed
  BY <1>5, KilledTypeOK
<1>6. ASSUME NEW c \in Conns, Thread(c) \/ LockFails(c) \/ Fatal(c) PROVE (TypeOK /\ CreateOK)'
  <2>1. CASE \E from, to \in Pcs : Local(c, from, to)
    BY <2>1 DEF Local
  <2>2. CASE LockDns(c)
    BY <2>2 DEF LockDns, Pcs
  <2>3. CASE Resolve(c) /\ ~ \E from, to \in Pcs : Local(c, from, to)
    BY <2>3 DEF Resolve, Pcs
  <2>4. CASE CopyAddress(c)
    BY <2>4 DEF CopyAddress, Pcs
  <2>5. CASE UnlockDns(c) \/ UnlockFailed(c)
    BY <2>5 DEF UnlockDns, UnlockFailed, Pcs
  <2>6. ASSUME NEW f \in Fds, Socket(c, f) PROVE (TypeOK /\ CreateOK)'
    BY <2>6 DEF Socket, Pcs
  <2>7. CASE ConnectFails(c) \/ CloseServer(c)
    <3>1. /\ table' = [table EXCEPT ![serverfd[c]] = Closed] /\ serverfd' = [serverfd EXCEPT ![c] = -1]
          /\ pc' = [pc EXCEPT ![c] = "close_client"] /\ UNCHANGED <<mainVars, sockfd, dnsVars, logVars>>
      BY <2>7 DEF ConnectFails, CloseServer, Close
    <3>2. pc' \in [Conns -> Pcs]
      BY <3>1 DEF Pcs
    <3> QED BY <3>1, <3>2
  <2>8. CASE Fatal(c)
    BY <1>5, <2>8 DEF Fatal
  <2>9. CASE LockLog(c) \/ Localtime(c) \/ Strftime(c) \/ UnlockLog(c)
    <3>1. PICK to \in {"localtime", "strftime", "printf", "close_server"} : pc' = [pc EXCEPT ![c] = to]
      BY <2>9 DEF LockLog, Localtime, Strftime, UnlockLog
    <3>2. pc' \in [Conns -> Pcs]
      BY <3>1 DEF Pcs
    <3>3. logfile' \in Conns \cup {NONE} /\ tm' \in Conns \cup {NONE}
          /\ stamp' \in [Conns -> Conns \cup {NONE}] /\ UNCHANGED <<mainVars, fdVars, dnsVars, out, log, buffer>>
      BY <2>9 DEF LockLog, Localtime, Strftime, UnlockLog
    <3> QED BY <3>2, <3>3
  <2>10. CASE Printf(c)
    BY <2>10, EntriesTyped DEF Printf, Pcs
  <2>11. CASE Fprintf(c)
    <3>1. Append(buffer, c) \in Seq(Conns)
      BY EntriesTyped
    <3>2. log' \in Seq(Conns) /\ buffer' \in Seq(Conns)
      BY <2>11, <3>1, WrittenOut DEF Fprintf
    <3> QED BY <2>11, <3>2 DEF Fprintf, Pcs
  <2>12. CASE CloseClient(c)
    BY <2>12 DEF CloseClient, Close, Pcs
  <2>13. Detach(c) \/ Request(c) \/ SocketFails(c) \/ Connect(c) \/ Transfer(c) \/ LockFails(c)
            => \E from, to \in Pcs : Local(c, from, to)
    BY DEF Detach, Request, SocketFails, Connect, Transfer, LockFails, Pcs
  <2> QED BY <1>6, <2>1, <2>2, <2>3, <2>4, <2>5, <2>6, <2>7, <2>8, <2>9, <2>10, <2>11, <2>12, <2>13
          DEF Thread
<1>7. CASE UNCHANGED vars
  BY <1>7 DEF vars
<1> QED BY <1>1, <1>2, <1>3, <1>4, <1>5, <1>6, <1>7 DEF Next, MainThread, OutOfMemory

\* The variables of the proxy keep their types.
THEOREM TypeCorrect == Spec => []TypeOK
  BY InitTypeOK, NextTypeOK, PTL DEF Spec
-----------------------------------------------------------------------------
(***************************************************************************)
(* The inductive invariant.                                                *)
(***************************************************************************)
ServerPcs == {"connect", "relay", "lock_log", "localtime", "strftime", "printf", "fprintf",
              "unlock_log", "close_server"}
DnsPcs == {"resolve", "copy", "unlock_dns", "unlock_failed"}
AddressPcs == {"unlock_dns", "socket", "connect", "relay"}
LogPcs == {"localtime", "strftime", "printf", "fprintf", "unlock_log"}

\* A descriptor that is open is known to the one that has to close it, and to
\* nobody else: the main thread until there is a thread, then that thread
\* (when there is no thread, nobody).
OwnersKnown ==
    \A f \in Fds : \A c \in Conns :
        /\ table[f] = <<c, "client">> => \/ pc[c] = "accepted" /\ mconn = c /\ newfd = f
                                         \/ pc[c] = "refused"
                                         \/ Started(c) /\ sockfd[c] = f
        /\ table[f] = <<c, "server">> => pc[c] \in ServerPcs /\ serverfd[c] = f

\* The main thread's descriptor is open for the connection it has accepted.
MainOwns == /\ mpc = "create" => pc[mconn] = "accepted" /\ table[newfd] = <<mconn, "client">>
            /\ \A c \in Conns : pc[c] = "accepted" => mpc = "create" /\ mconn = c

DescriptorsOK == OwnDescriptors /\ OwnersKnown /\ MainOwns

\* The static result of gethostbyname is used under the mutex only.
DnsOK == /\ \A c \in Conns : pc[c] \in DnsPcs => syscall = c
         /\ \A c \in Conns : pc[c] = "copy" => hostent = c
         /\ RightServer

\* The static result of localtime is used under the mutex only.
TimeOK == /\ \A c \in Conns : pc[c] = "strftime" => tm = c
          /\ RightTime

\* The two logs differ while a thread that holds the mutex is between them; the
\* end of the log is lost when the process is killed.
LogOK == /\ \A c \in Conns : pc[c] \in LogPcs => logfile = c
         /\ Running => \/ log \o buffer = out /\ \A c \in Conns : pc[c] # "fprintf"
                       \/ \E c \in Conns : out = Append(log \o buffer, c) /\ pc[c] = "fprintf"
         /\ Len(log) <= Len(out) /\ \A i \in 1..Len(log) : log[i] = out[i]
         /\ TimeOK

Inv == DescriptorsOK /\ DnsOK /\ LogOK

\* Nothing is open, held or logged when the proxy starts.
LEMMA InitInv == Init => Inv
<1> SUFFICES ASSUME Init PROVE Inv
  OBVIOUS
<1>1. \A c \in Conns : pc[c] = "none"
  BY DEF Init
<1>2. \A f \in Fds : table[f] = Closed
  BY DEF Init
<1>3. DescriptorsOK
  BY <1>1, <1>2 DEF Init, DescriptorsOK, OwnDescriptors, OwnersKnown, MainOwns, Started, Closed, NONE
<1>4. DnsOK /\ LogOK
  BY <1>1 DEF Init, DnsOK, LogOK, TimeOK, RightServer, RightTime, DnsPcs, LogPcs
<1> QED BY <1>3, <1>4 DEF Inv

\* A step of thread c within one part of process() keeps the descriptors.
LEMMA SameDescriptors ==
    ASSUME TypeOK, CreateOK, DescriptorsOK, NEW c \in Conns, NEW from, NEW to, Step(c, from, to),
           UNCHANGED fdVars, Started(c), Started(c)', to \in ServerPcs <=> from \in ServerPcs
    PROVE  DescriptorsOK'
  BY DEF TypeOK, CreateOK, DescriptorsOK, OwnDescriptors, OwnersKnown, MainOwns, Step, mainVars, fdVars,
         Started, ServerPcs

\* The end of the process leaves nothing open or held, and the log as it is.
LEMMA KilledInv == ASSUME TypeOK, CreateOK, Inv, Killed PROVE Inv'
<1>1. DescriptorsOK'
  <2>1. (\A c \in Conns : pc'[c] \in {"none", "done"}) /\ (\A f \in Fds : table'[f] = <<NONE, NONE>>)
        /\ mpc' = "killed"
    BY DEF Killed, Closed
  <2>2. OwnDescriptors' /\ MainOwns'
    BY <2>1 DEF OwnDescriptors, MainOwns, Started
  <2>3. OwnersKnown'
    BY <2>1 DEF OwnersKnown, NONE
  <2> QED BY <2>2, <2>3 DEF DescriptorsOK
<1>2. DnsOK'
  BY DEF TypeOK, Killed, DnsOK, RightServer, DnsPcs
<1>3. LogOK'
  BY DEF TypeOK, Inv, Killed, Running, LogOK, TimeOK, RightTime, LogPcs
<1> QED BY <1>1, <1>2, <1>3 DEF Inv

\* Steps of the main thread.
LEMMA MainInv == ASSUME TypeOK, CreateOK, Inv, MainThread PROVE Inv'
<1> USE DEF TypeOK, CreateOK, Inv, mainVars, fdVars, dnsVars, logVars, NONE
<1>1. CASE Start
  <2>1. DescriptorsOK'
    BY <1>1 DEF Start, DescriptorsOK, OwnDescriptors, OwnersKnown, MainOwns, Started
  <2>2. DnsOK' /\ LogOK'
    BY <1>1 DEF Start, DnsOK, RightServer, LogOK, TimeOK, RightTime, Running
  <2> QED BY <2>1, <2>2
<1>2. ASSUME NEW c \in Conns, NEW f \in Fds, Accept(c, f) PROVE Inv'
  <2>1. DescriptorsOK'
    <3>1. OwnDescriptors'
      BY <1>2 DEF Accept, Lowest, DescriptorsOK, OwnDescriptors, Started, Closed
    <3>2. OwnersKnown'
      <4> SUFFICES ASSUME NEW g \in Fds, NEW d \in Conns
                   PROVE  /\ table'[g] = <<d, "client">> => \/ pc'[d] = "accepted" /\ mconn' = d /\ newfd' = g
                                                            \/ pc'[d] = "refused"
                                                            \/ Started(d)' /\ sockfd'[d] = g
                          /\ table'[g] = <<d, "server">> => pc'[d] \in ServerPcs /\ serverfd'[d] = g
        BY DEF OwnersKnown
      <4>1. CASE g = f
        BY <1>2, <4>1 DEF Accept
      <4>2. CASE g # f
        <5>1. table'[g] = table[g]
          BY <1>2, <4>2 DEF Accept
        <5>2. pc[d] # "accepted"
          BY <1>2 DEF Accept, DescriptorsOK, MainOwns
        <5> QED BY <1>2, <5>1, <5>2 DEF Accept, DescriptorsOK, OwnersKnown, Started, ServerPcs
      <4> QED BY <4>1, <4>2
    <3>3. MainOwns'
      BY <1>2 DEF Accept, DescriptorsOK, MainOwns
    <3> QED BY <3>1, <3>2, <3>3 DEF DescriptorsOK
  <2>2. DnsOK' /\ LogOK'
    BY <1>2 DEF Accept, DnsOK, RightServer, LogOK, TimeOK, RightTime, Running, DnsPcs, LogPcs
  <2> QED BY <2>1, <2>2
<1>3. CASE CreateThread
  <2>1. DescriptorsOK'
    <3>1. OwnDescriptors'
      BY <1>3 DEF CreateThread, DescriptorsOK, OwnDescriptors, MainOwns, Started, Fds
    <3>2. OwnersKnown'
      BY <1>3 DEF CreateThread, DescriptorsOK, OwnersKnown, MainOwns, Started, ServerPcs
    <3>3. MainOwns'
      BY <1>3 DEF CreateThread, DescriptorsOK, MainOwns
    <3> QED BY <3>1, <3>2, <3>3 DEF DescriptorsOK
  <2>2. DnsOK' /\ LogOK'
    BY <1>3 DEF CreateThread, DescriptorsOK, MainOwns, DnsOK, RightServer, LogOK, TimeOK, RightTime,
                 Running, DnsPcs, LogPcs
  <2> QED BY <2>1, <2>2
<1>4. CASE CreateFails
  <2>1. DescriptorsOK'
    BY <1>4 DEF CreateFails, DescriptorsOK, OwnDescriptors, OwnersKnown, MainOwns, Started, ServerPcs
  <2>2. DnsOK' /\ LogOK'
    BY <1>4 DEF CreateFails, DescriptorsOK, MainOwns, DnsOK, RightServer, LogOK, TimeOK, RightTime,
                 Running, DnsPcs, LogPcs
  <2> QED BY <2>1, <2>2
<1>5. CASE OutOfMemory
  BY <1>5, KilledInv DEF OutOfMemory
<1> QED BY <1>1, <1>2, <1>3, <1>4, <1>5 DEF MainThread

\* Steps that leave one kind of shared data alone keep what is said of it.
LEMMA SameDns ==
    ASSUME TypeOK, DnsOK, NEW c \in Conns, NEW from, NEW to, Step(c, from, to), UNCHANGED dnsVars,
           to # "copy", to \in DnsPcs => from \in DnsPcs, to \in AddressPcs => from \in AddressPcs
    PROVE  DnsOK'
  BY DEF TypeOK, DnsOK, RightServer, Step, dnsVars, DnsPcs, AddressPcs

\* A step that neither enters nor leaves the writing of the log keeps LogOK.
LEMMA SameLog ==
    ASSUME TypeOK, LogOK, NEW c \in Conns, NEW from, NEW to, Step(c, from, to), UNCHANGED logVars,
           to \notin LogPcs, from \notin LogPcs
    PROVE  LogOK'
  BY DEF TypeOK, LogOK, TimeOK, RightTime, Step, Running, mainVars, logVars, LogPcs

\* Steps that enter, write and leave the log.
LEMMA WriteInv ==
    ASSUME TypeOK, LogOK, NEW c \in Conns,
           LockLog(c) \/ Localtime(c) \/ Strftime(c) \/ Printf(c) \/ Fprintf(c) \/ UnlockLog(c)
    PROVE  LogOK'
<1> USE DEF TypeOK, mainVars, NONE
<1>1. CASE LockLog(c) \/ UnlockLog(c) \/ Localtime(c) \/ Strftime(c)
  <2>1. PICK k \in {<<"lock_log", "localtime">>, <<"localtime", "strftime">>, <<"strftime", "printf">>,
                    <<"unlock_log", "close_server">>} :
          Step(c, k[1], k[2]) /\ UNCHANGED <<out, log, buffer>>
    BY <1>1 DEF LockLog, UnlockLog, Localtime, Strftime
  <2>2. \A d \in Conns : pc'[d] \in LogPcs => logfile' = d
    BY <1>1 DEF LockLog, UnlockLog, Localtime, Strftime, Step, LogOK, LogPcs
  <2>3. TimeOK'
    BY <1>1 DEF LockLog, UnlockLog, Localtime, Strftime, Step, LogOK, LogPcs, TimeOK, RightTime
  <2>4. \A d \in Conns : pc'[d] = "fprintf" <=> pc[d] = "fprintf"
    BY <2>1 DEF Step
  <2> QED BY <2>1, <2>2, <2>3, <2>4 DEF Step, LogOK, Running
<1>2. CASE Printf(c)
  <2>1. Step(c, "printf", "fprintf") /\ out' = Append(out, c) /\ UNCHANGED <<logfile, tm, stamp, log, buffer>>
    BY <1>2 DEF Printf
  <2>2. \A d \in Conns : pc[d] # "fprintf"
    BY <2>1 DEF Step, LogOK, LogPcs
  <2>3. log \o buffer = out /\ mpc' = mpc
    BY <2>1, <2>2 DEF Step, LogOK
  <2>4. out' = Append(log' \o buffer', c) /\ pc'[c] = "fprintf"
    BY <2>1, <2>3 DEF Step
  <2>5. Len(log') <= Len(out') /\ \A i \in 1..Len(log') : log'[i] = out'[i]
    BY <2>1 DEF LogOK
  <2>6. (\A d \in Conns : pc'[d] \in LogPcs => logfile' = d) /\ TimeOK'
    BY <2>1 DEF Step, LogOK, LogPcs, TimeOK, RightTime
  <2> QED BY <2>4, <2>5, <2>6 DEF LogOK
<1>3. CASE Fprintf(c)
  <2> DEFINE all == Append(buffer, c)
  <2>1. Step(c, "fprintf", "unlock_log") /\ UNCHANGED <<logfile, tm, stamp, out>>
    BY <1>3 DEF Fprintf
  <2>2. all \in Seq(Conns)
    BY EntriesTyped
  <2>3. PICK k \in 0..Len(all) : log' = log \o SubSeq(all, 1, k) /\ buffer' = SubSeq(all, k + 1, Len(all))
    BY <1>3 DEF Fprintf
  <2>4. \A d \in Conns : pc[d] = "fprintf" => d = c
    BY <2>1 DEF Step, LogOK, LogPcs
  <2>5. out = Append(log \o buffer, c)
    BY <2>1, <2>4 DEF Step, LogOK
  <2>6. log' \in Seq(Conns) /\ buffer' \in Seq(Conns) /\ log' \o buffer' = log \o all
    <3> HIDE DEF all
    <3> QED BY <2>2, <2>3, WrittenOut
  <2>7. log \o all = Append(log \o buffer, c)
    OBVIOUS
  <2> HIDE DEF all
  <2>8. log' \o buffer' = out'
    BY <2>1, <2>5, <2>6, <2>7
  <2>9. \A d \in Conns : pc'[d] # "fprintf"
    BY <2>1, <2>4 DEF Step
  <2>10. Len(log') <= Len(out') /\ \A i \in 1..Len(log') : log'[i] = out'[i]
    BY <2>6, <2>8
  <2>11. (\A d \in Conns : pc'[d] \in LogPcs => logfile' = d) /\ TimeOK'
    BY <2>1 DEF Step, LogOK, LogPcs, TimeOK, RightTime
  <2> QED BY <2>8, <2>9, <2>10, <2>11 DEF LogOK
<1> QED BY <1>1, <1>2, <1>3

\* Steps of the thread of a connection.
LEMMA ThreadInv == ASSUME TypeOK, CreateOK, Inv, NEW c \in Conns, Thread(c) \/ LockFails(c) \/ Fatal(c)
                   PROVE  Inv'
<1> USE DEF TypeOK, CreateOK, Inv, NONE
<1> USE DEF mainVars, fdVars, dnsVars, logVars
<1>1. ASSUME NEW from, NEW to, Local(c, from, to), Started(c), Started(c)',
             to \in ServerPcs <=> from \in ServerPcs, to \notin LogPcs, from \notin LogPcs,
             to # "copy", to \in DnsPcs => from \in DnsPcs, to \in AddressPcs => from \in AddressPcs
      PROVE  Inv'
  BY <1>1, SameDescriptors, SameDns, SameLog DEF Local
<1>2. CASE Detach(c) \/ Request(c) \/ SocketFails(c) \/ Connect(c) \/ Transfer(c) \/ LockFails(c)
  <2> DEFINE Pairs == {<<"detach", "request">>, <<"detach", "close_client">>, <<"request", "lock_dns">>,
                       <<"request", "close_client">>, <<"socket", "close_client">>, <<"connect", "relay">>,
                       <<"relay", "lock_log">>, <<"relay", "close_server">>, <<"lock_dns", "close_client">>}
  <2>1. PICK k \in Pairs : Local(c, k[1], k[2])
    BY <1>2 DEF Detach, Request, SocketFails, Connect, Transfer, LockFails
  <2>2. Started(c) /\ Started(c)'
    BY <2>1 DEF Local, Step, Started
  <2>3. /\ k[2] \in ServerPcs <=> k[1] \in ServerPcs
        /\ k[2] \notin LogPcs /\ k[1] \notin LogPcs /\ k[2] # "copy"
        /\ k[2] \in DnsPcs => k[1] \in DnsPcs
        /\ k[2] \in AddressPcs => k[1] \in AddressPcs
    BY DEF ServerPcs, LogPcs, DnsPcs, AddressPcs
  <2> QED BY <1>1, <2>1, <2>2, <2>3
<1>3. CASE LockDns(c)
  <2>1. Step(c, "lock_dns", "resolve") /\ Started(c) /\ Started(c)'
    BY <1>3 DEF LockDns, Step, Started
  <2>2. DescriptorsOK' /\ LogOK'
    BY <1>3, <2>1, SameDescriptors, SameLog DEF LockDns, ServerPcs, LogPcs
  <2>3. DnsOK'
    BY <1>3 DEF LockDns, Step, DnsOK, RightServer, DnsPcs
  <2> QED BY <2>2, <2>3
<1>4. CASE Resolve(c)
  <2>1. CASE Local(c, "resolve", "unlock_failed")
    BY <2>1, <1>1 DEF Local, Step, Started, ServerPcs, LogPcs, DnsPcs, AddressPcs
  <2>2. CASE ~Local(c, "resolve", "unlock_failed")
    <3>1. Step(c, "resolve", "copy") /\ Started(c) /\ Started(c)' /\ UNCHANGED <<fdVars, logVars>>
      BY <1>4, <2>2 DEF Resolve, Step, Started
    <3>2. DescriptorsOK' /\ LogOK'
      BY <3>1, SameDescriptors, SameLog DEF ServerPcs, LogPcs
    <3>3. DnsOK'
      BY <1>4, <2>2 DEF Resolve, Step, DnsOK, RightServer, DnsPcs
    <3> QED BY <3>2, <3>3
  <2> QED BY <2>1, <2>2
<1>5. CASE CopyAddress(c) \/ UnlockDns(c) \/ UnlockFailed(c)
  <2>1. PICK k \in {<<"copy", "unlock_dns">>, <<"unlock_dns", "socket">>, <<"unlock_failed", "close_client">>} :
            Step(c, k[1], k[2]) /\ UNCHANGED <<fdVars, logVars>>
    BY <1>5 DEF CopyAddress, UnlockDns, UnlockFailed
  <2>2. Started(c) /\ Started(c)'
    BY <2>1 DEF Step, Started
  <2>3. DescriptorsOK' /\ LogOK'
    <3>1. k[1] \notin LogPcs \cup ServerPcs /\ k[2] \notin LogPcs \cup ServerPcs
      BY DEF ServerPcs, LogPcs
    <3>2. DescriptorsOK'
      BY <2>1, <2>2, <3>1, SameDescriptors
    <3>3. LogOK'
      BY <2>1, <3>1, SameLog
    <3> QED BY <3>2, <3>3
  <2>4. CASE CopyAddress(c)
    BY <2>3, <2>4 DEF CopyAddress, Step, DnsOK, RightServer, DnsPcs
  <2>5. CASE UnlockDns(c) \/ UnlockFailed(c)
    <3>1. \A d \in Conns \ {c} : pc[d] \notin DnsPcs /\ pc'[d] = pc[d]
      BY <2>5 DEF UnlockDns, UnlockFailed, Step, DnsOK, DnsPcs
    <3>2. pc[c] \in {"unlock_dns", "unlock_failed"} /\ pc'[c] \in {"socket", "close_client"}
          /\ (pc'[c] = "socket" => pc[c] = "unlock_dns") /\ server' = server
      BY <2>5 DEF UnlockDns, UnlockFailed, Step
    <3>3. DnsOK'
      BY <3>1, <3>2 DEF DnsOK, RightServer, DnsPcs
    <3> QED BY <2>3, <3>3
  <2> QED BY <1>5, <2>4, <2>5
<1>6. ASSUME NEW f \in Fds, Socket(c, f) PROVE Inv'
  <2>1. DnsOK' /\ LogOK'
    <3>1. Step(c, "socket", "connect") /\ UNCHANGED <<dnsVars, logVars>>
      BY <1>6 DEF Socket
    <3> QED BY <3>1, SameDns, SameLog DEF DnsPcs, AddressPcs, LogPcs
  <2>2. OwnDescriptors'
    BY <1>6 DEF Socket, Step, Lowest, DescriptorsOK, OwnDescriptors, Started, Closed, Fds
  <2>3. OwnersKnown'
    <3> SUFFICES ASSUME NEW g \in Fds, NEW d \in Conns
                 PROVE  /\ table'[g] = <<d, "client">> => \/ pc'[d] = "accepted" /\ mconn' = d /\ newfd' = g
                                                          \/ pc'[d] = "refused"
                                                          \/ Started(d)' /\ sockfd'[d] = g
                        /\ table'[g] = <<d, "server">> => pc'[d] \in ServerPcs /\ serverfd'[d] = g
      BY DEF OwnersKnown
    <3>1. CASE g = f
      BY <1>6, <3>1 DEF Socket, Step, ServerPcs
    <3>2. CASE g # f
      BY <1>6, <3>2 DEF Socket, Step, DescriptorsOK, OwnersKnown, Started, ServerPcs
    <3> QED BY <3>1, <3>2
  <2>4. MainOwns'
    BY <1>6 DEF Socket, Step, Lowest, DescriptorsOK, MainOwns, Closed
  <2> QED BY <2>1, <2>2, <2>3, <2>4 DEF DescriptorsOK
<1>7. CASE ConnectFails(c) \/ CloseServer(c)
  <2>1. DnsOK' /\ LogOK'
    <3>1. PICK from \in {"connect", "close_server"} :
            Step(c, from, "close_client") /\ UNCHANGED <<dnsVars, logVars>>
      BY <1>7 DEF ConnectFails, CloseServer
    <3> QED BY <3>1, SameDns, SameLog DEF DnsPcs, AddressPcs, LogPcs
  <2>2. OwnDescriptors'
    <3>1. \A d \in Conns \ {c} : pc'[d] = pc[d] /\ sockfd'[d] = sockfd[d] /\ serverfd'[d] = serverfd[d]
      BY <1>7 DEF ConnectFails, CloseServer, Step
    <3>2. pc[c] \in {"connect", "close_server"} /\ pc'[c] = "close_client" /\ sockfd'[c] = sockfd[c]
      BY <1>7 DEF ConnectFails, CloseServer, Step
    <3>3. \A f \in Fds \ {serverfd[c]} : table'[f] = table[f]
      BY <1>7 DEF ConnectFails, CloseServer, Close
    <3>4. serverfd[c] # -1 /\ table[serverfd[c]] = <<c, "server">>
      BY <3>2 DEF DescriptorsOK, OwnDescriptors
    <3>5. ASSUME NEW d \in Conns, Started(d) PROVE table'[sockfd[d]] = table[sockfd[d]]
      BY <3>3, <3>4, <3>5 DEF DescriptorsOK, OwnDescriptors
    <3>6. ASSUME NEW d \in Conns \ {c}, pc[d] \in ServerPcs PROVE table'[serverfd[d]] = table[serverfd[d]]
      BY <3>3, <3>4, <3>6 DEF DescriptorsOK, OwnDescriptors, ServerPcs
    <3> QED BY <3>1, <3>2, <3>5, <3>6 DEF DescriptorsOK, OwnDescriptors, Started, ServerPcs
  <2>3. OwnersKnown'
    <3> SUFFICES ASSUME NEW g \in Fds, NEW d \in Conns
                 PROVE  /\ table'[g] = <<d, "client">> => \/ pc'[d] = "accepted" /\ mconn' = d /\ newfd' = g
                                                          \/ pc'[d] = "refused"
                                                          \/ Started(d)' /\ sockfd'[d] = g
                        /\ table'[g] = <<d, "server">> => pc'[d] \in ServerPcs /\ serverfd'[d] = g
      BY DEF OwnersKnown
    <3>1. CASE g = serverfd[c]
      BY <1>7, <3>1 DEF ConnectFails, CloseServer, Close, Closed
    <3>2. CASE g # serverfd[c]
      <4>1. table'[g] = table[g]
        BY <1>7, <3>2 DEF ConnectFails, CloseServer, Close
      <4> QED BY <1>7, <3>2, <4>1
              DEF ConnectFails, CloseServer, Step, DescriptorsOK, OwnersKnown, Started, ServerPcs
    <3> QED BY <3>1, <3>2
  <2>4. MainOwns'
    BY <1>7 DEF ConnectFails, CloseServer, Close, Step, DescriptorsOK, OwnDescriptors, MainOwns, Closed
  <2> QED BY <2>1, <2>2, <2>3, <2>4 DEF DescriptorsOK
<1>8. CASE CloseClient(c)
  <2>1. DnsOK' /\ LogOK'
    <3>1. Step(c, "close_client", "done") /\ UNCHANGED <<dnsVars, logVars>>
      BY <1>8 DEF CloseClient
    <3> QED BY <3>1, SameDns, SameLog DEF DnsPcs, AddressPcs, LogPcs
  <2>2. OwnDescriptors'
    BY <1>8 DEF CloseClient, Close, Step, DescriptorsOK, OwnDescriptors, Started, Closed
  <2>3. OwnersKnown'
    <3> SUFFICES ASSUME NEW g \in Fds, NEW d \in Conns
                 PROVE  /\ table'[g] = <<d, "client">> => \/ pc'[d] = "accepted" /\ mconn' = d /\ newfd' = g
                                                          \/ pc'[d] = "refused"
                                                          \/ Started(d)' /\ sockfd'[d] = g
                        /\ table'[g] = <<d, "server">> => pc'[d] \in ServerPcs /\ serverfd'[d] = g
      BY DEF OwnersKnown
    <3>1. CASE g = sockfd[c]
      BY <1>8, <3>1 DEF CloseClient, Close, Closed
    <3>2. CASE g # sockfd[c]
      <4>1. table'[g] = table[g]
        BY <1>8, <3>2 DEF CloseClient, Close
      <4> QED BY <1>8, <3>2, <4>1
              DEF CloseClient, Step, DescriptorsOK, OwnersKnown, Started, ServerPcs
    <3> QED BY <3>1, <3>2
  <2>4. MainOwns'
    <3>1. pc' = [pc EXCEPT ![c] = "done"] /\ mpc' = mpc /\ newfd' = newfd /\ mconn' = mconn
          /\ table' = [table EXCEPT ![sockfd[c]] = Closed]
      BY <1>8 DEF CloseClient, Close, Step
    <3>2. pc[c] = "close_client" /\ table[sockfd[c]] = <<c, "client">>
      BY <1>8 DEF CloseClient, Step, DescriptorsOK, OwnDescriptors, Started
    <3>3. ASSUME mpc = "create" PROVE mconn # c /\ newfd # sockfd[c]
      BY <3>2, <3>3 DEF DescriptorsOK, MainOwns
    <3> QED BY <3>1, <3>2, <3>3 DEF DescriptorsOK, MainOwns
  <2> QED BY <2>1, <2>2, <2>3, <2>4 DEF DescriptorsOK
<1>9. CASE LockLog(c) \/ Localtime(c) \/ Strftime(c) \/ Printf(c) \/ Fprintf(c) \/ UnlockLog(c)
  <2>1. DescriptorsOK' /\ DnsOK'
    <3>1. PICK k \in {<<"lock_log", "localtime">>, <<"localtime", "strftime">>, <<"strftime", "printf">>,
                      <<"printf", "fprintf">>, <<"fprintf", "unlock_log">>, <<"unlock_log", "close_server">>} :
            Step(c, k[1], k[2]) /\ UNCHANGED <<fdVars, dnsVars>>
      BY <1>9 DEF LockLog, Localtime, Strftime, Printf, Fprintf, UnlockLog
    <3>2. Started(c) /\ Started(c)'
      BY <3>1 DEF Step, Started
    <3>3. {k[1], k[2]} \subseteq ServerPcs /\ k[2] \notin DnsPcs \cup AddressPcs
      BY DEF ServerPcs, DnsPcs, AddressPcs
    <3>4. DescriptorsOK'
      BY <3>1, <3>2, <3>3, SameDescriptors
    <3>5. DnsOK'
      BY <3>1, <3>3, SameDns DEF DnsPcs
    <3> QED BY <3>4, <3>5
  <2>2. LogOK'
    BY <1>9, WriteInv
  <2> QED BY <2>1, <2>2
<1>10. CASE Fatal(c)
  BY <1>10, KilledInv DEF Fatal
<1> QED BY <1>2, <1>3, <1>4, <1>5, <1>6, <1>7, <1>8, <1>9, <1>10 DEF Thread

\* Each step preserves the invariant.
LEMMA NextInv == TypeOK /\ CreateOK /\ Inv /\ [Next]_vars => Inv'
<1> SUFFICES ASSUME TypeOK, CreateOK, Inv, [Next]_vars PROVE Inv'
  OBVIOUS
<1>1. CASE MainThread
  BY <1>1, MainInv
<1>2. ASSUME NEW c \in Conns, Thread(c) \/ LockFails(c) \/ Fatal(c) PROVE Inv'
  BY <1>2, ThreadInv
<1>3. CASE UNCHANGED vars
  BY <1>3 DEF vars, mainVars, fdVars, dnsVars, logVars, Inv, DescriptorsOK, OwnDescriptors, OwnersKnown,
              MainOwns, Started, DnsOK, RightServer, LogOK, TimeOK, RightTime, Running
<1> QED BY <1>1, <1>2, <1>3 DEF Next

\* The invariant holds in every behaviour of the proxy.
THEOREM Invariance == Spec => [](TypeOK /\ CreateOK /\ Inv)
  BY InitTypeOK, NextTypeOK, InitInv, NextInv, PTL DEF Spec

-----------------------------------------------------------------------------
(* The properties of the runs.                                             *)

\* A thread reads, writes and closes its own descriptors only.
THEOREM DescriptorsOwned == Spec => []OwnDescriptors
<1>1. Inv => OwnDescriptors
  BY DEF Inv, DescriptorsOK
<1> QED BY Invariance, <1>1, PTL

\* process() closes what it has opened, whichever way it ends.
THEOREM DescriptorsClosed == Spec => []NoDescriptorLeft
<1>1. TypeOK /\ Inv => NoDescriptorLeft
  <2> SUFFICES ASSUME TypeOK, Inv, NEW f \in Fds, table[f] # Closed
               PROVE  /\ pc[table[f][1]] # "done"
                      /\ table[f][2] = "server" => pc[table[f][1]] # "close_client"
    BY DEF NoDescriptorLeft
  <2>1. PICK c \in Conns, what \in {"client", "server"} : table[f] = <<c, what>>
    BY DEF TypeOK
  <2> QED BY <2>1 DEF Inv, DescriptorsOK, OwnersKnown, Started, ServerPcs
<1> QED BY Invariance, <1>1, PTL

\* A thread connects to the host it has asked for.
THEOREM ServersRight == Spec => []RightServer
<1>1. Inv => RightServer
  BY DEF Inv, DnsOK
<1> QED BY Invariance, <1>1, PTL

\* An entry has the time of its own request.
THEOREM TimesRight == Spec => []RightTime
<1>1. Inv => RightTime
  BY DEF Inv, LogOK, TimeOK
<1> QED BY Invariance, <1>1, PTL

\* What is printed and what is logged are the same entries in the same order, up
\* to the one being written and to what a fatal signal finds in the buffer.
THEOREM LogsInOrder == Spec => []LogsAgree
<1>1. Inv => LogsAgree
  BY DEF Inv, LogOK, LogsAgree
<1> QED BY Invariance, <1>1, PTL
=============================================================================
