------------------------------- MODULE Relay -------------------------------
(***************************************************************************)
(* One connection of the web proxy (proxylab-handout/proxy.c): process()   *)
(* relays a request from the client to the end server and the response     *)
(* back, while either side may stop sending, close, or break at any time.  *)
(*                                                                         *)
(* A message is a sequence of tokens: its first line, its header lines (of *)
(* which only Content-Length matters), the empty line, and the bytes of    *)
(* its content.  readline takes one line.  Of a line that is cut off by    *)
(* the end of file nothing is passed on, but relay_header looks at what    *)
(* there is of it (see HeaderEnd).  Lines fit into the buffer.  Module     *)
(* Proxy has what can fail between the request line and the connection.    *)
(***************************************************************************)
EXTENDS SequencesExt

CONSTANTS
    MAXLINE,        \* bytes the buffer holds (8192 in csapp.h)
    Lengths,        \* the values of Content-Length
    MaxBody         \* bound of the model: bytes of content without a length

ASSUME MaxlineAssumption == MAXLINE \in Nat \ {0}
ASSUME LengthsAssumption == Lengths \subseteq Nat
ASSUME MaxBodyAssumption == MaxBody \in Nat

VARIABLES
    req, resp,      \* the messages the client and the server send
    sent,           \* sent[s]: how many tokens side s has sent
    end,            \* end[s]: "open", "eof" or "reset"
    broken,         \* the sides that cannot be written to any more
    read,           \* read[s]: how many tokens of side s the proxy has read
    got,            \* got[s]: the tokens written to side s
    pc,             \* where process() is
    content,        \* its variable content, the announced length or 0
    buf, i,         \* relay_content: the bytes in the buffer, the bytes read
    sum, logged     \* the bytes counted, and the size in the log entry

envVars == <<sent, end, broken>>
vars == <<req, resp, envVars, read, got, pc, content, buf, i, sum, logged>>

Sides == {"client", "server"}
Peer(s) == IF s = "client" THEN "server" ELSE "client"

Unknown == -1           \* no Content-Length in the header

Bytes(n) == [j \in 1..n |-> "byte"]

Tokens(m) == <<"line">> \o (IF m.length = Unknown THEN <<>> ELSE <<"length">>)
                \o <<"blank">> \o Bytes(m.body)

Message(s) == IF s = "client" THEN Tokens(req) ELSE Tokens(resp)

\* "get" stands for the methods other than POST and HEAD; PUT has content, too.
Requests ==
    {[method |-> m, length |-> Unknown, body |-> 0] : m \in {"get", "head", "post"}}
        \cup {[method |-> m, length |-> n, body |-> n] : m \in {"get", "post"}, n \in Lengths}

\* "bare" responses (1xx, 204 and 304) and those to HEAD have no content,
\* whatever length they announce.
Responses(method) ==
    {[kind |-> k, length |-> n, body |-> 0] :
            k \in IF method = "head" THEN {"ok", "bare"} ELSE {"bare"},
            n \in Lengths \cup {Unknown}}
        \cup (IF method = "head" THEN {}
              ELSE {[kind |-> "ok", length |-> n, body |-> n] : n \in Lengths}
                    \cup {[kind |-> "ok", length |-> Unknown, body |-> n] : n \in 0..MaxBody})

Init == /\ req \in Requests
        /\ resp \in Responses(req.method)
        /\ sent = [s \in Sides |-> 0] /\ end = [s \in Sides |-> "open"] /\ broken = {}
        /\ read = [s \in Sides |-> 0] /\ got = [s \in Sides |-> <<>>]
        /\ pc = <<"client", "first">> /\ content = 0
        /\ buf = <<>> /\ i = 0 /\ sum = 0 /\ logged = 0

-----------------------------------------------------------------------------
(* The peers.                                                              *)

Send(s) == /\ end[s] = "open" /\ sent[s] < Len(Message(s))
           /\ sent' = [sent EXCEPT ![s] = @ + 1]
           /\ UNCHANGED <<req, resp, end, broken, read, got, pc, content, buf, i, sum, logged>>

\* Side s closes its end, or the connection is reset in both directions.
Finish(s, how) == /\ end[s] = "open"
                  /\ end' = [end EXCEPT ![s] = how]
                  /\ broken' = IF how = "reset" THEN broken \cup {s} ELSE broken
                  /\ UNCHANGED <<req, resp, sent, read, got, pc, content, buf, i, sum, logged>>

Break(s) == /\ s \notin broken
            /\ broken' = broken \cup {s}
            /\ UNCHANGED <<req, resp, sent, end, read, got, pc, content, buf, i, sum, logged>>

-----------------------------------------------------------------------------
(* The proxy.                                                              *)

\* pc is <<s, "first">>, <<s, "header">> or <<s, "content">> while the message of
\* side s is relayed.
Finished == <<"proxy", "done">>
Killed == <<"proxy", "killed">>
AfterMessage(s) == IF s = "client" THEN <<"server", "first">> ELSE <<"proxy", "log">>

\* What read and readline find: a token, or the end of what s has sent.
Available(s) == read[s] < sent[s]
Token(s) == Message(s)[read[s] + 1]
AtEnd(s, how) == ~Available(s) /\ end[s] = how

Consume(s) == read' = [read EXCEPT ![s] = @ + 1]

\* writebuf: the whole buffer is written, or the connection is broken and -1 is
\* returned (the part of it that still got through is left out).
writebuf(s, data) == got' = IF s \in broken THEN got ELSE [got EXCEPT ![s] = @ \o data]

\* The first line of a request or response is read and passed on; the result
\* of writebuf is ignored.
FirstLine(s) ==
    /\ pc = <<s, "first">> /\ Available(s)
    /\ Consume(s)
    /\ writebuf(Peer(s), <<Token(s)>>)
    /\ pc' = <<s, "header">> /\ content' = 0
    /\ sum' = IF s = "server" THEN 1 ELSE 0
    /\ UNCHANGED <<req, resp, envVars, buf, i, logged>>

\* There is no first line: nothing is relayed, or nothing back.
NoFirstLine(s) ==
    /\ pc = <<s, "first">> /\ (AtEnd(s, "eof") \/ AtEnd(s, "reset"))
    /\ pc' = IF s = "client" THEN Finished ELSE AfterMessage(s)
    /\ UNCHANGED <<req, resp, envVars, read, got, content, buf, i, sum, logged>>

\* Whether process() relays content after the header of side s.
HasContent(s, length) ==
    IF s = "client" THEN req.method = "post" /\ length # 0
    ELSE req.method # "head" /\ resp.kind # "bare"

AfterHeader(s, length) == IF HasContent(s, length) THEN <<s, "content">> ELSE AfterMessage(s)

Length(s) == IF s = "client" THEN req.length ELSE resp.length

\* relay_header: one line of the header.  It ends with the empty line, or when
\* the line cannot be written.
HeaderLine(s) ==
    /\ pc = <<s, "header">> /\ Available(s)
    /\ Consume(s)
    /\ content' = IF Token(s) = "length" THEN Length(s) ELSE content
    /\ writebuf(Peer(s), <<Token(s)>>)
    /\ pc' = IF Token(s) = "blank" \/ Peer(s) \in broken THEN AfterHeader(s, content') ELSE pc
    /\ UNCHANGED <<req, resp, envVars, buf, i, sum, logged>>

\* Side s may have closed its connection within a Content-Length line.
CutOff(s) == AtEnd(s, "eof") /\ sent[s] < Len(Message(s)) /\ Token(s) = "length"

\* The header ends with an error or with the end of file; process() does not
\* look at the difference.  At the end of file relay_header looks for a length
\* all the same, in what is left in its buffer: of a line that was cut off and of
\* the lines before, it makes the announced length, some other number, or none.
HeaderEnd(s) ==
    /\ pc = <<s, "header">> /\ (AtEnd(s, "eof") \/ AtEnd(s, "reset"))
    /\ content' \in IF CutOff(s) THEN {content, 0} \cup Lengths ELSE {content}
    /\ pc' = AfterHeader(s, content')
    /\ UNCHANGED <<req, resp, envVars, read, got, buf, i, sum, logged>>

\* When there is no blank behind the cut-off name either, strchr returns NULL and
\* the process ends.
NoBlank(s) == /\ pc = <<s, "header">> /\ CutOff(s)
              /\ pc' = Killed
              /\ UNCHANGED <<req, resp, envVars, read, got, content, buf, i, sum, logged>>

MutantOneMore == content # 0 /\ i = content + 1

\* The loop of relay_content is over: content bytes have been read.
LengthReached == content # 0 /\ i = content

\* relay_content returns n; process() adds it up for a response.
Leave(s, n) == /\ pc' = AfterMessage(s)
               /\ sum' = IF s = "server" THEN sum + n ELSE sum
               /\ buf' = <<>> /\ i' = 0

MutantNoReset(s) ==
    /\ pc = <<s, "content">> /\ ~LengthReached /\ Len(buf) = MAXLINE
    /\ writebuf(Peer(s), buf)
    /\ IF Peer(s) \in broken THEN Leave(s, 0) ELSE UNCHANGED <<pc, i, sum, buf>>
    /\ UNCHANGED <<req, resp, envVars, read, content, logged>>

\* The buffer is full: it is written and begun anew.
Flush(s) ==
    /\ pc = <<s, "content">> /\ ~LengthReached /\ Len(buf) = MAXLINE
    /\ writebuf(Peer(s), buf)
    /\ IF Peer(s) \in broken THEN Leave(s, 0)
       ELSE buf' = <<>> /\ UNCHANGED <<pc, i, sum>>
    /\ UNCHANGED <<req, resp, envVars, read, content, logged>>

MutantReadWhenFull(s) ==
    /\ pc = <<s, "content">> /\ ~LengthReached /\ Len(buf) <= MAXLINE /\ Available(s)
    /\ Consume(s)
    /\ buf' = Append(buf, Token(s)) /\ i' = i + 1
    /\ UNCHANGED <<req, resp, envVars, got, pc, content, sum, logged>>

ContentByte(s) ==
    /\ pc = <<s, "content">> /\ ~LengthReached /\ Len(buf) < MAXLINE /\ Available(s)
    /\ Consume(s)
    /\ buf' = Append(buf, Token(s)) /\ i' = i + 1
    /\ UNCHANGED <<req, resp, envVars, got, pc, content, sum, logged>>

MutantNoLastWrite(s) ==
    /\ pc = <<s, "content">>
    /\ LengthReached \/ (Len(buf) < MAXLINE /\ AtEnd(s, "eof"))
    /\ Leave(s, i)
    /\ UNCHANGED <<req, resp, envVars, read, got, content, logged>>

\* The announced length, or the end of file: what is left in the buffer is
\* written, whether that works or not.
ContentEnd(s) ==
    /\ pc = <<s, "content">>
    /\ LengthReached \/ (Len(buf) < MAXLINE /\ AtEnd(s, "eof"))
    /\ writebuf(Peer(s), buf)
    /\ Leave(s, i)
    /\ UNCHANGED <<req, resp, envVars, read, content, logged>>

\* A read error: what is in the buffer is dropped.
ContentError(s) ==
    /\ pc = <<s, "content">> /\ ~LengthReached /\ Len(buf) < MAXLINE /\ AtEnd(s, "reset")
    /\ Leave(s, 0)
    /\ UNCHANGED <<req, resp, envVars, read, got, content, logged>>

MutantKeepAlive ==
       /\ pc = <<"proxy", "log">>
       /\ logged' = sum
       /\ pc' = <<"client", "first">>
       /\ UNCHANGED <<req, resp, envVars, read, got, content, buf, i, sum>>

\* The log entry, when anything was received, and the end of the connections.
Log == /\ pc = <<"proxy", "log">>
       /\ logged' = sum
       /\ pc' = Finished
       /\ UNCHANGED <<req, resp, envVars, read, got, content, buf, i, sum>>

\* SIGPIPE is not ignored: a write to a broken connection, if it does not
\* fail with another error, ends the process.
Sigpipe(s) == /\ Peer(s) \in broken
              /\ \/ pc \in {<<s, "first">>, <<s, "header">>} /\ Available(s)
                 \/ pc = <<s, "content">> /\ buf # <<>>
                        /\ (Len(buf) = MAXLINE \/ LengthReached \/ AtEnd(s, "eof"))
              /\ pc' = Killed
              /\ UNCHANGED <<req, resp, envVars, read, got, content, buf, i, sum, logged>>

Side(s) == FirstLine(s) \/ NoFirstLine(s) \/ HeaderLine(s) \/ HeaderEnd(s) \/ NoBlank(s) \/ Flush(s)
               \/ ContentByte(s) \/ ContentEnd(s) \/ ContentError(s) \/ Sigpipe(s)

process == (\E s \in Sides : Side(s)) \/ Log

Environment == \E s \in Sides : \/ Send(s)
                                \/ \E how \in {"eof", "reset"} : Finish(s, how)
                                \/ Break(s)

Next == process \/ Environment

\* The proxy's thread goes on when it can; the peers need not.
Spec == Init /\ [][Next]_vars /\ WF_vars(process)
-----------------------------------------------------------------------------
(* Properties.                                                             *)

\* Nothing is lost, doubled or put out of order on the way: what a side gets
\* is the beginning of what the other one sent, through all refillings of the
\* buffer and whatever fails.
InOrder == \A s \in Sides : IsPrefix(got[s], SubSeq(Message(Peer(s)), 1, sent[Peer(s)]))

\* relay_content never reads beyond the end of the buffer.
BufferInBounds == Len(buf) <= MAXLINE

AllSent(s) == sent[s] = Len(Message(s))
Healthy == broken = {}

\* When both sides have sent all of their messages and no connection has
\* failed, the whole response has been relayed by the time the connections are
\* closed, and the whole request, the content of which is relayed "only if it's
\* POST request and Content-length provided": the rules about methods, response
\* codes, lengths and the end of file end each message where it ends.
Complete ==
    pc = Finished /\ Healthy /\ AllSent("client") /\ AllSent("server") =>
        /\ got["server"] = Tokens(IF req.method = "post" THEN req ELSE [req EXCEPT !.body = 0])
        /\ got["client"] = Tokens(resp)

\* The message of side s can be seen to be over: its length is announced, it
\* has no content, or its side has closed.
SelfDelimiting(s) == Length(s) # Unknown \/ ~HasContent(s, 0) \/ end[s] # "open"

\* relay_content: "Given content length or EOF are considered end of content".
\* When neither side has more to send, because its message is complete or it has
\* closed its connection, within a line or between two, and the response can be
\* seen to be over, the transfer ends, unless a connection breaks.
TransferEnds ==
    ((\A s \in Sides : AllSent(s) \/ end[s] # "open") /\ SelfDelimiting("server"))
        ~> (pc \in {Finished, Killed} \/ broken # {})

Promised == INSTANCE Pipe WITH
    Alphabet <- {"line", "length", "blank", "byte"},
    in <- [s \in Sides |-> SubSeq(Message(s), 1, sent[s])],
    out <- [s \in Sides |-> got[Peer(s)]],
    turn <- pc[1]

\* One connection keeps what a proxy promises: request first, then response,
\* through one buffer that both use, never a token out of turn, and nothing
\* taken back or passed on after the connection is logged.
ImplementsPipe == Promised!Spec
=============================================================================
