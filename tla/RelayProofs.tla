---------------------------- MODULE RelayProofs ----------------------------
(***************************************************************************)
(* Proofs about one connection of the web proxy, for every size of the     *)
(* buffer, every set of content lengths and contents of any size.          *)
(***************************************************************************)
EXTENDS Relay, SequenceTheorems, TLAPS

USE MaxlineAssumption, LengthsAssumption, MaxBodyAssumption

Alphabet == {"line", "length", "blank", "byte"}

\* The number of tokens of the header of side s, the empty line included.
HeaderLen(s) == IF Length(s) = Unknown THEN 2 ELSE 3
Body(s) == IF s = "client" THEN req.body ELSE resp.body

\* What the peers may send.
MessagesOK == /\ req \in [method: {"get", "head", "post"}, length: Nat \cup {Unknown}, body: Nat]
              /\ resp \in [kind: {"ok", "bare"}, length: Nat \cup {Unknown}, body: Nat]
              /\ req.length \in {Unknown, 0} => req.body = 0
              /\ req.length # Unknown => req.body = req.length
              /\ req.method = "head" \/ resp.kind = "bare" => resp.body = 0
              /\ ~(req.method = "head" \/ resp.kind = "bare") /\ resp.length # Unknown
                    => resp.body = resp.length

\* The body and the length of the message a side sends.
LEMMA SidesMessages == MessagesOK => \A s \in Sides : Body(s) \in Nat /\ Length(s) \in Nat \cup {Unknown}
  BY DEF MessagesOK, Body, Length

\* A body is a sequence of bytes.
LEMMA BytesSeq == ASSUME NEW n \in Nat
                  PROVE  /\ Bytes(n) \in Seq(Alphabet) /\ Len(Bytes(n)) = n
                         /\ \A k \in 1..n : Bytes(n)[k] = "byte"
  BY DEF Bytes, Alphabet

\* The tokens of a message: its first line, its header, its content.
LEMMA TokensOf ==
    ASSUME NEW m, m.length \in Nat \cup {Unknown}, m.body \in Nat
    PROVE  LET h == IF m.length = Unknown THEN 2 ELSE 3
           IN /\ Tokens(m) \in Seq(Alphabet) /\ Len(Tokens(m)) = h + m.body
              /\ Tokens(m)[1] = "line" /\ Tokens(m)[h] = "blank"
              /\ m.length # Unknown => Tokens(m)[2] = "length"
              /\ \A k \in h + 1 .. h + m.body : Tokens(m)[k] = "byte"
<1> DEFINE b == Bytes(m.body)
           l == IF m.length = Unknown THEN <<>> ELSE <<"length">>
<1>1. b \in Seq(Alphabet) /\ Len(b) = m.body /\ \A k \in 1..m.body : b[k] = "byte"
  BY BytesSeq
<1>2. l \in Seq(Alphabet) /\ <<"line">> \in Seq(Alphabet) /\ <<"blank">> \in Seq(Alphabet)
  <2>1. \A a \in Alphabet : <<a>> \in Seq(Alphabet)
    OBVIOUS
  <2>2. <<>> \in Seq(Alphabet) /\ "length" \in Alphabet /\ "line" \in Alphabet /\ "blank" \in Alphabet
    BY DEF Alphabet
  <2> QED BY <2>1, <2>2
<1>3. Tokens(m) = <<"line">> \o l \o <<"blank">> \o b
  BY DEF Tokens
<1> HIDE DEF b
<1> QED BY <1>1, <1>2, <1>3 DEF Unknown

\* There are two sides, each the other's peer.
LEMMA Peers == \A s \in Sides : Peer(s) \in Sides /\ Peer(Peer(s)) = s /\ Peer(s) # s
                                /\ \A r \in Sides : r = s \/ r = Peer(s)
  BY DEF Sides, Peer

\* The messages of the two sides.
LEMMA Messages ==
    ASSUME MessagesOK, NEW s \in Sides
    PROVE  /\ Message(s) \in Seq(Alphabet) /\ Len(Message(s)) = HeaderLen(s) + Body(s)
           /\ Message(s)[1] = "line" /\ Message(s)[HeaderLen(s)] = "blank"
           /\ Length(s) # Unknown => Message(s)[2] = "length"
           /\ \A k \in HeaderLen(s) + 1 .. Len(Message(s)) : Message(s)[k] = "byte"
           /\ \A k \in 1..Len(Message(s)) : Message(s)[k] \in Alphabet
<1>1. CASE s = "client"
  <2>1. req.length \in Nat \cup {Unknown} /\ req.body \in Nat
    BY DEF MessagesOK
  <2> QED BY <1>1, <2>1, TokensOf DEF Message, HeaderLen, Body, Length
<1>2. CASE s = "server"
  <2>1. resp.length \in Nat \cup {Unknown} /\ resp.body \in Nat
    BY DEF MessagesOK
  <2> QED BY <1>2, <2>1, TokensOf DEF Message, HeaderLen, Body, Length
<1> QED BY <1>1, <1>2 DEF Sides

-----------------------------------------------------------------------------
(***************************************************************************)
(* The inductive invariant.                                                *)
(***************************************************************************)
Types == /\ MessagesOK
         /\ sent \in [Sides -> Nat] /\ read \in [Sides -> Nat]
         /\ end \in [Sides -> {"open", "eof", "reset"}] /\ broken \subseteq Sides
         /\ got \in [Sides -> Seq(Alphabet)] /\ buf \in Seq(Alphabet)
         /\ pc \in (Sides \X {"first", "header", "content"}) \cup {<<"proxy", "log">>, Finished, Killed}
         /\ content \in Nat /\ i \in Nat /\ sum \in Nat /\ logged \in Nat

\* What has been passed on of the message of side s is its beginning, no more
\* than was read, and that no more than was sent.
GotOK(s) == /\ Len(got[Peer(s)]) <= read[s] /\ read[s] <= sent[s] /\ sent[s] <= Len(Message(s))
            /\ \A k \in 1..Len(got[Peer(s)]) : got[Peer(s)][k] = Message(s)[k]

\* While the message of side s is relayed, the buffer has what was read of it
\* last: all that was not passed on, unless the peer is broken.
BufOK(s) == pc[1] = s =>
                /\ Len(got[Peer(s)]) + Len(buf) <= read[s]
                /\ Peer(s) \notin broken => Len(got[Peer(s)]) + Len(buf) = read[s]
                /\ \A k \in 1..Len(buf) : buf[k] = Message(s)[read[s] - Len(buf) + k]

\* The buffer is used for content only, and begun anew for each message.
IdleOK == /\ pc[2] \in {"first", "header", "log", "done"} => buf = <<>> /\ i = 0
          /\ pc[1] = "client" => read["server"] = 0
          /\ \A s \in Sides : pc = <<s, "first">> => read[s] = 0
          /\ Len(buf) <= MAXLINE

OrderOK == IdleOK /\ \A s \in Sides : GotOK(s) /\ BufOK(s)

\* At the start the types hold and nothing has been sent or read.
LEMMA InitTypes == Init => Types /\ OrderOK
<1> SUFFICES ASSUME Init PROVE Types /\ OrderOK
  OBVIOUS
<1>1. MessagesOK
  BY DEF Init, MessagesOK, Requests, Responses, Unknown
<1>2. got \in [Sides -> Seq(Alphabet)] /\ buf \in Seq(Alphabet) /\ buf = <<>> /\ \A s \in Sides : got[s] = <<>>
  BY DEF Init
<1>3. pc = <<"client", "first">> /\ "client" \in Sides
  BY DEF Init, Sides
<1>4. Types
  BY <1>1, <1>2, <1>3 DEF Init, Types
<1>5. \A s \in Sides : Len(Message(s)) \in Nat
  BY <1>1, Messages
<1>6. \A s \in Sides : GotOK(s) /\ BufOK(s)
  BY <1>2, <1>5, Peers DEF Init, GotOK, BufOK
<1>7. IdleOK
  BY <1>2, <1>3 DEF Init, IdleOK, Sides
<1> QED BY <1>4, <1>6, <1>7 DEF OrderOK

\* The messages stay what they are.
LEMMA SameMessage == ASSUME UNCHANGED <<req, resp>>
                     PROVE  /\ MessagesOK => MessagesOK'
                            /\ \A s : Message(s)' = Message(s) /\ Length(s)' = Length(s)
                                      /\ HeaderLen(s)' = HeaderLen(s) /\ Body(s)' = Body(s)
  BY DEF MessagesOK, Message, Length, HeaderLen, Body

\* writebuf passes on the next tokens of the message, or nothing.
LEMMA Written ==
    ASSUME Types, NEW s \in Sides, GotOK(s), UNCHANGED <<req, resp, sent>>,
           NEW data \in Seq(Alphabet), writebuf(Peer(s), data),
           \A k \in 1..Len(data) : Peer(s) \notin broken => data[k] = Message(s)[Len(got[Peer(s)]) + k],
           read'[s] \in Nat, read[s] <= read'[s], read'[s] <= sent[s],
           Peer(s) \notin broken => Len(got[Peer(s)]) + Len(data) <= read'[s]
    PROVE  /\ got' \in [Sides -> Seq(Alphabet)] /\ GotOK(s)' /\ got'[s] = got[s]
           /\ Peer(s) \in broken => got' = got
           /\ Peer(s) \notin broken => Len(got'[Peer(s)]) = Len(got[Peer(s)]) + Len(data)
<1>1. Message(s)' = Message(s)
  BY SameMessage
<1>2. CASE Peer(s) \in broken
  BY <1>1, <1>2, Peers DEF Types, writebuf, GotOK
<1>3. CASE Peer(s) \notin broken
  <2> DEFINE g == got[Peer(s)]
  <2>1. g \in Seq(Alphabet)
    BY Peers DEF Types
  <2>2. /\ g \o data \in Seq(Alphabet) /\ Len(g \o data) = Len(g) + Len(data)
        /\ \A k \in 1..Len(g) + Len(data) : (g \o data)[k] = IF k <= Len(g) THEN g[k] ELSE data[k - Len(g)]
    BY <2>1, ConcatProperties
  <2>3. got' = [got EXCEPT ![Peer(s)] = g \o data]
    BY <1>3 DEF writebuf
  <2>4. got' \in [Sides -> Seq(Alphabet)] /\ got'[Peer(s)] = g \o data /\ got'[s] = got[s]
    BY <2>2, <2>3, Peers DEF Types
  <2>5. \A k \in 1..Len(g) + Len(data) : (g \o data)[k] = Message(s)[k]
    <3> SUFFICES ASSUME NEW k \in 1..Len(g) + Len(data) PROVE (g \o data)[k] = Message(s)[k]
      OBVIOUS
    <3>1. CASE k <= Len(g)
      BY <2>1, <2>2, <3>1 DEF GotOK
    <3>2. CASE ~(k <= Len(g))
      <4>1. k - Len(g) \in 1..Len(data) /\ Len(g) + (k - Len(g)) = k
        BY <2>1, <3>2
      <4> QED BY <1>3, <2>2, <3>2, <4>1
    <3> QED BY <3>1, <3>2
  <2> QED BY <1>1, <1>3, <2>1, <2>2, <2>4, <2>5 DEF GotOK
<1> QED BY <1>2, <1>3

\* What a step for side s leaves alone of the other side.
LEMMA OtherSide ==
    ASSUME Types, OrderOK, NEW s \in Sides, UNCHANGED <<req, resp, sent>>,
           read'[Peer(s)] = read[Peer(s)], got'[s] = got[s]
    PROVE  GotOK(Peer(s))'
  BY Peers, SameMessage DEF OrderOK, GotOK

\* The message of side s is over.
LEMMA MessageOver ==
    ASSUME Types, OrderOK, NEW s \in Sides, pc[1] = s, pc' = AfterMessage(s),
           buf' = <<>>, i' = 0, UNCHANGED <<req, resp, envVars>>, read'[Peer(s)] = read[Peer(s)],
           got'[s] = got[s]
    PROVE  /\ IdleOK' /\ \A r \in Sides : BufOK(r)'
           /\ pc' \in {<<"server", "first">>, <<"proxy", "log">>} /\ pc'[1] # s
<1> USE DEF envVars
<1>1. CASE s = "client"
  <2>1. pc' = <<"server", "first">> /\ Peer("client") = "server" /\ Peer("server") = "client"
    BY <1>1 DEF AfterMessage, Peer
  <2>2. "server" \in Sides /\ read'["server"] = 0 /\ read["server"] = 0
    BY <1>1, <2>1 DEF OrderOK, IdleOK, Sides
  <2>3. Len(got'["client"]) = 0
    <3>1. got["client"] \in Seq(Alphabet) /\ Len(got["client"]) \in Nat
      BY <1>1 DEF Types, Sides
    <3> QED BY <1>1, <2>1, <2>2, <3>1 DEF OrderOK, GotOK
  <2>4. IdleOK'
    BY <2>1, <2>2 DEF IdleOK, Sides
  <2>5. \A r \in Sides : BufOK(r)'
    BY <2>1, <2>2, <2>3 DEF BufOK
  <2> QED BY <1>1, <2>1, <2>4, <2>5
<1>2. CASE s = "server"
  <2>1. pc' = <<"proxy", "log">>
    BY <1>2 DEF AfterMessage
  <2> QED BY <1>2, <2>1 DEF IdleOK, BufOK, Sides
<1> QED BY <1>1, <1>2 DEF Sides

\* read and readline take the next token of what side s has sent.
LEMMA Consumed ==
    ASSUME Types, OrderOK, NEW s \in Sides, Available(s), Consume(s)
    PROVE  /\ read' \in [Sides -> Nat] /\ read'[s] = read[s] + 1 /\ read'[Peer(s)] = read[Peer(s)]
           /\ read[s] \in Nat /\ read[s] + 1 <= sent[s] /\ sent[s] <= Len(Message(s)) /\ sent[s] \in Nat
           /\ Token(s) = Message(s)[read[s] + 1] /\ Token(s) \in Alphabet
<1>0. read[s] \in Nat /\ sent[s] \in Nat /\ read \in [Sides -> Nat]
  BY DEF Types
<1>1. /\ read' \in [Sides -> Nat] /\ read'[s] = read[s] + 1 /\ read'[Peer(s)] = read[Peer(s)]
      /\ read[s] \in Nat /\ read[s] + 1 <= sent[s] /\ sent[s] <= Len(Message(s)) /\ sent[s] \in Nat
  <2>1. read' \in [Sides -> Nat] /\ read'[s] = read[s] + 1 /\ read'[Peer(s)] = read[Peer(s)]
    BY <1>0, Peers DEF Consume
  <2>2. read[s] + 1 <= sent[s]
    BY <1>0 DEF Available
  <2>3. sent[s] <= Len(Message(s))
    BY DEF OrderOK, GotOK
  <2> QED BY <1>0, <2>1, <2>2, <2>3
<1>2. Message(s) \in Seq(Alphabet) /\ Len(Message(s)) \in Nat
  BY Messages DEF Types
<1> QED BY <1>1, <1>2 DEF Token

\* One token of side s is read and passed on.
LEMMA LinePassed ==
    ASSUME Types, OrderOK, NEW s \in Sides, pc[1] = s, buf = <<>>, Available(s), Consume(s),
           writebuf(Peer(s), <<Token(s)>>), UNCHANGED <<req, resp, envVars, buf, i>>
    PROVE  /\ got' \in [Sides -> Seq(Alphabet)] /\ read' \in [Sides -> Nat]
           /\ \A r \in Sides : GotOK(r)'
           /\ Len(got'[Peer(s)]) <= read'[s]
           /\ Peer(s) \notin broken => Len(got'[Peer(s)]) = read'[s]
           /\ read'[s] = read[s] + 1 /\ read'[Peer(s)] = read[Peer(s)] /\ got'[s] = got[s]
           /\ Token(s) = Message(s)[read[s] + 1] /\ Token(s) \in Alphabet
<1> USE DEF envVars
<1>1. read' \in [Sides -> Nat] /\ read'[s] = read[s] + 1 /\ read'[Peer(s)] = read[Peer(s)]
      /\ read[s] \in Nat /\ read[s] + 1 <= sent[s] /\ sent[s] \in Nat
  BY Consumed
<1>3. Token(s) = Message(s)[read[s] + 1] /\ Token(s) \in Alphabet
  BY Consumed
<1>4. <<Token(s)>> \in Seq(Alphabet) /\ Len(<<Token(s)>>) = 1 /\ <<Token(s)>>[1] = Token(s)
  BY <1>3
<1>5. Len(got[Peer(s)]) \in Nat /\ Len(got[Peer(s)]) <= read[s]
      /\ (Peer(s) \notin broken => Len(got[Peer(s)]) = read[s])
  BY Peers DEF Types, OrderOK, GotOK, BufOK
<1>6. /\ got' \in [Sides -> Seq(Alphabet)] /\ GotOK(s)' /\ got'[s] = got[s]
      /\ Peer(s) \in broken => got' = got
      /\ Peer(s) \notin broken => Len(got'[Peer(s)]) = Len(got[Peer(s)]) + 1
  <2>1. GotOK(s)
    BY DEF OrderOK
  <2>2. \A k \in 1..Len(<<Token(s)>>) :
            Peer(s) \notin broken => <<Token(s)>>[k] = Message(s)[Len(got[Peer(s)]) + k]
    BY <1>3, <1>4, <1>5
  <2>3. read'[s] \in Nat /\ read[s] <= read'[s] /\ read'[s] <= sent[s]
    BY <1>1
  <2>4. Peer(s) \notin broken => Len(got[Peer(s)]) + Len(<<Token(s)>>) <= read'[s]
    BY <1>1, <1>4, <1>5
  <2> HIDE DEF envVars
  <2>5. UNCHANGED <<req, resp, sent>>
    BY DEF envVars
  <2> QED BY <1>4, <2>1, <2>2, <2>3, <2>4, <2>5, Written
<1>7. GotOK(Peer(s))'
  BY <1>1, <1>6, OtherSide
<1>8. \A r \in Sides : GotOK(r)'
  BY <1>6, <1>7, Peers
<1>9. /\ Len(got'[Peer(s)]) <= read'[s]
      /\ Peer(s) \notin broken => Len(got'[Peer(s)]) = read'[s]
  <2>1. CASE Peer(s) \in broken
    BY <1>1, <1>5, <1>6, <2>1
  <2>2. CASE Peer(s) \notin broken
    BY <1>1, <1>5, <1>6, <2>2
  <2> QED BY <2>1, <2>2
<1> QED BY <1>1, <1>3, <1>6, <1>8, <1>9

\* The message of side s goes on, with an empty buffer.
LEMMA SameTurn ==
    ASSUME Types, OrderOK, NEW s \in Sides, pc[1] = s,
           pc' \in {<<s, "header">>, <<s, "content">>}, buf' = <<>>, i' = 0,
           read'[Peer(s)] = read[Peer(s)], Len(got'[Peer(s)]) <= read'[s], Len(got'[Peer(s)]) \in Nat,
           Peer(s) \notin broken' => Len(got'[Peer(s)]) = read'[s]
    PROVE  IdleOK' /\ \A r \in Sides : BufOK(r)'
<1>1. pc'[1] = s /\ pc'[2] \in {"header", "content"}
  OBVIOUS
<1>2. s = "client" => Peer(s) = "server"
  BY DEF Peer
<1>3. IdleOK'
  BY <1>1, <1>2 DEF OrderOK, IdleOK
<1>4. \A r \in Sides : BufOK(r)'
  BY <1>1 DEF BufOK
<1> QED BY <1>3, <1>4

\* The places of process().
LEMMA Places == ASSUME NEW s \in Sides
                PROVE  /\ AfterMessage(s) \in {<<"server", "first">>, <<"proxy", "log">>}
                       /\ \A l : AfterHeader(s, l) \in {AfterMessage(s), <<s, "content">>}
                       /\ {AfterMessage(s), <<s, "header">>, <<s, "content">>, Finished, Killed, <<"proxy", "log">>}
                            \subseteq (Sides \X {"first", "header", "content"})
                                        \cup {<<"proxy", "log">>, Finished, Killed}
  BY DEF AfterMessage, AfterHeader, Sides

\* The first line and the header.
LEMMA HeaderOrder ==
    ASSUME Types, OrderOK, NEW s \in Sides, FirstLine(s) \/ NoFirstLine(s) \/ HeaderLine(s) \/ HeaderEnd(s)
    PROVE  Types' /\ OrderOK'
<1>1. Length(s) \in Nat \cup {Unknown} /\ Peer(s) \in Sides
  BY SidesMessages, Peers DEF Types
<1>2. pc \in {<<s, "first">>, <<s, "header">>} /\ pc[1] = s /\ buf = <<>> /\ i = 0
  <2>1. pc \in {<<s, "first">>, <<s, "header">>}
    BY DEF FirstLine, NoFirstLine, HeaderLine, HeaderEnd
  <2> QED BY <2>1 DEF OrderOK, IdleOK
<1>3. MessagesOK' /\ UNCHANGED <<req, resp, envVars, buf, i, logged>>
  BY SameMessage DEF FirstLine, NoFirstLine, HeaderLine, HeaderEnd, Types
<1>4. CASE FirstLine(s)
  <2>1. Available(s) /\ Consume(s) /\ writebuf(Peer(s), <<Token(s)>>) /\ pc' = <<s, "header">>
        /\ content' = 0 /\ sum' \in {0, 1}
    BY <1>4 DEF FirstLine
  <2>2. /\ got' \in [Sides -> Seq(Alphabet)] /\ read' \in [Sides -> Nat]
        /\ \A r \in Sides : GotOK(r)'
        /\ Len(got'[Peer(s)]) <= read'[s]
        /\ Peer(s) \notin broken => Len(got'[Peer(s)]) = read'[s]
        /\ read'[Peer(s)] = read[Peer(s)]
    BY <1>2, <1>3, <2>1, LinePassed
  <2>3. Len(got'[Peer(s)]) \in Nat /\ broken' = broken
    BY <1>1, <1>3, <2>2 DEF envVars
  <2>4. OrderOK'
    BY <1>2, <1>3, <2>1, <2>2, <2>3, SameTurn DEF OrderOK
  <2> QED BY <1>3, <2>1, <2>2, <2>4, Places DEF Types, envVars
<1>5. CASE HeaderLine(s)
  <2>1. Available(s) /\ Consume(s) /\ writebuf(Peer(s), <<Token(s)>>) /\ UNCHANGED sum
        /\ content' = (IF Token(s) = "length" THEN Length(s) ELSE content)
        /\ pc' \in {AfterMessage(s), <<s, "header">>, <<s, "content">>}
    BY <1>2, <1>5, Places DEF HeaderLine
  <2>2. /\ got' \in [Sides -> Seq(Alphabet)] /\ read' \in [Sides -> Nat]
        /\ \A r \in Sides : GotOK(r)'
        /\ Len(got'[Peer(s)]) <= read'[s]
        /\ Peer(s) \notin broken => Len(got'[Peer(s)]) = read'[s]
        /\ read'[Peer(s)] = read[Peer(s)] /\ got'[s] = got[s] /\ Token(s) = Message(s)[read[s] + 1]
    BY <1>2, <1>3, <2>1, LinePassed
  <2>3. Len(got'[Peer(s)]) \in Nat /\ broken' = broken
    BY <1>1, <1>3, <2>2 DEF envVars
  <2>4. OrderOK'
    <3>1. CASE pc' = AfterMessage(s)
      BY <1>2, <1>3, <2>2, <3>1, MessageOver DEF OrderOK
    <3>2. CASE pc' # AfterMessage(s)
      BY <1>2, <1>3, <2>1, <2>2, <2>3, <3>2, SameTurn DEF OrderOK
    <3> QED BY <3>1, <3>2
  <2>5. content' \in Nat
    <3>1. CASE Length(s) # Unknown
      BY <1>1, <2>1, <3>1 DEF Types
    <3>2. CASE Length(s) = Unknown
      <4>1. Token(s) # "length"
        <5>1. read[s] + 1 \in 1..Len(Message(s)) /\ HeaderLen(s) = 2
          BY <2>1, <3>2 DEF Types, OrderOK, GotOK, Available, HeaderLen
        <5>2. /\ Message(s)[1] = "line" /\ Message(s)[2] = "blank" /\ Len(Message(s)) \in Nat
              /\ \A k \in 3..Len(Message(s)) : Message(s)[k] = "byte"
          BY <5>1, Messages DEF Types
        <5>3. read[s] + 1 \in {1, 2} \cup (3..Len(Message(s)))
          BY <5>1, <5>2 DEF Types
        <5> QED BY <2>2, <5>2, <5>3
      <4> QED BY <2>1, <4>1 DEF Types
    <3> QED BY <3>1, <3>2
  <2> QED BY <1>3, <2>1, <2>2, <2>4, <2>5, Places DEF Types, envVars
<1>6. CASE NoFirstLine(s) \/ HeaderEnd(s)
  <2>1. pc' \in {Finished, AfterMessage(s), <<s, "content">>} /\ UNCHANGED <<read, got, sum>> /\ content' \in Nat
    <3>1. CASE NoFirstLine(s)
      BY <3>1, Places DEF NoFirstLine, Types
    <3>2. CASE HeaderEnd(s)
      <4>1. content' \in {content, 0} \cup Lengths /\ pc' = AfterHeader(s, content') /\ UNCHANGED <<read, got, sum>>
        BY <3>2 DEF HeaderEnd
      <4>2. content' \in Nat
        BY <4>1, LengthsAssumption DEF Types
      <4>3. pc' \in {AfterMessage(s), <<s, "content">>}
        BY <4>1, Places
      <4> QED BY <4>1, <4>2, <4>3
    <3> QED BY <1>6, <3>1, <3>2
  <2>2. Types'
    BY <1>3, <2>1, Places DEF Types, envVars
  <2>3. \A r \in Sides : GotOK(r)'
    BY <1>3, <2>1, SameMessage DEF OrderOK, GotOK, envVars
  <2>4. CASE pc' = Finished
    BY <1>2, <1>3, <2>1, <2>2, <2>3, <2>4 DEF OrderOK, IdleOK, BufOK, Finished, Sides
  <2>5. CASE pc' = AfterMessage(s)
    BY <1>2, <1>3, <2>1, <2>2, <2>3, <2>5, MessageOver DEF OrderOK
  <2>6. CASE pc' = <<s, "content">>
    <3>1. Len(got'[Peer(s)]) <= read'[s] /\ Len(got'[Peer(s)]) \in Nat
          /\ (Peer(s) \notin broken' => Len(got'[Peer(s)]) = read'[s])
      BY <1>1, <1>2, <1>3, <2>1 DEF Types, OrderOK, GotOK, BufOK, envVars
    <3> QED BY <1>2, <1>3, <2>1, <2>2, <2>3, <2>6, <3>1, SameTurn DEF OrderOK
  <2> QED BY <2>1, <2>4, <2>5, <2>6
<1> QED BY <1>4, <1>5, <1>6

\* What is in the buffer is what comes next for the peer.
LEMMA BufferNext ==
    ASSUME Types, OrderOK, NEW s \in Sides, pc[1] = s
    PROVE  /\ \A k \in 1..Len(buf) : Peer(s) \notin broken => buf[k] = Message(s)[Len(got[Peer(s)]) + k]
           /\ Len(got[Peer(s)]) \in Nat /\ Len(buf) \in Nat /\ read[s] \in Nat /\ sent[s] \in Nat
           /\ Len(got[Peer(s)]) + Len(buf) <= read[s] /\ read[s] <= sent[s]
           /\ Peer(s) \notin broken => Len(got[Peer(s)]) + Len(buf) = read[s]
<1>1. Len(got[Peer(s)]) \in Nat /\ Len(buf) \in Nat /\ read[s] \in Nat /\ sent[s] \in Nat
  BY Peers DEF Types
<1>2. /\ Len(got[Peer(s)]) + Len(buf) <= read[s] /\ read[s] <= sent[s]
      /\ Peer(s) \notin broken => Len(got[Peer(s)]) + Len(buf) = read[s]
      /\ \A k \in 1..Len(buf) : buf[k] = Message(s)[read[s] - Len(buf) + k]
  BY DEF OrderOK, GotOK, BufOK
<1>3. Peer(s) \notin broken => read[s] - Len(buf) = Len(got[Peer(s)])
  BY <1>1, <1>2
<1> QED BY <1>1, <1>2, <1>3

\* relay_content.
LEMMA ContentOrder ==
    ASSUME Types, OrderOK, NEW s \in Sides, Flush(s) \/ ContentByte(s) \/ ContentEnd(s) \/ ContentError(s)
    PROVE  Types' /\ OrderOK'
<1>1. Peer(s) \in Sides
  BY Peers
<1>2. pc = <<s, "content">> /\ pc[1] = s
  BY DEF Flush, ContentByte, ContentEnd, ContentError
<1>3. MessagesOK' /\ UNCHANGED <<req, resp, envVars, content, logged>> /\ Message(s)' = Message(s)
  BY SameMessage DEF Flush, ContentByte, ContentEnd, ContentError, Types
<1>4. ASSUME writebuf(Peer(s), buf), read' = read
      PROVE  /\ got' \in [Sides -> Seq(Alphabet)] /\ \A r \in Sides : GotOK(r)'
             /\ Len(got'[Peer(s)]) <= read'[s] /\ Len(got'[Peer(s)]) \in Nat /\ got'[s] = got[s]
             /\ Peer(s) \notin broken => Len(got'[Peer(s)]) = read'[s]
  <2>1. GotOK(s) /\ buf \in Seq(Alphabet) /\ UNCHANGED <<req, resp, sent>>
    BY <1>3 DEF OrderOK, Types, envVars
  <2>2. /\ got' \in [Sides -> Seq(Alphabet)] /\ GotOK(s)' /\ got'[s] = got[s]
        /\ Peer(s) \in broken => got' = got
        /\ Peer(s) \notin broken => Len(got'[Peer(s)]) = Len(got[Peer(s)]) + Len(buf)
    BY <1>2, <1>4, <2>1, BufferNext, Written
  <2>3. GotOK(Peer(s))'
    BY <1>4, <2>1, <2>2, OtherSide
  <2> QED BY <1>1, <1>2, <1>4, <2>2, <2>3, BufferNext, Peers
<1>5. ASSUME NEW n \in Nat, Leave(s, n), read' = read, got' \in [Sides -> Seq(Alphabet)], got'[s] = got[s],
             \A r \in Sides : GotOK(r)'
      PROVE  Types' /\ OrderOK'
  <2>1. pc' = AfterMessage(s) /\ sum' \in Nat /\ buf' = <<>> /\ i' = 0 /\ buf' \in Seq(Alphabet)
    BY <1>5 DEF Leave, Types
  <2>2. OrderOK'
    BY <1>2, <1>3, <1>5, <2>1, MessageOver DEF OrderOK
  <2> QED BY <1>3, <1>5, <2>1, <2>2, Places DEF Types, envVars
<1>6. CASE Flush(s)
  <2>1. writebuf(Peer(s), buf) /\ read' = read
    BY <1>6 DEF Flush
  <2>2. CASE Peer(s) \in broken
    BY <1>4, <1>5, <1>6, <2>1, <2>2 DEF Flush
  <2>3. CASE Peer(s) \notin broken
    <3>1. buf' = <<>> /\ UNCHANGED <<pc, i, sum>>
      BY <1>6, <2>3 DEF Flush
    <3>2. Types'
      BY <1>3, <1>4, <2>1, <3>1 DEF Types, envVars
    <3>3. IdleOK' /\ \A r \in Sides : BufOK(r)'
      BY <1>2, <1>3, <1>4, <2>1, <2>3, <3>1 DEF OrderOK, IdleOK, BufOK, envVars
    <3> QED BY <1>4, <2>1, <3>2, <3>3 DEF OrderOK
  <2> QED BY <2>2, <2>3
<1>7. CASE ContentEnd(s)
  BY <1>4, <1>5, <1>7 DEF ContentEnd, Types
<1>8. CASE ContentError(s)
  <2>1. read' = read /\ got' = got /\ Leave(s, 0)
    BY <1>8 DEF ContentError
  <2>2. \A r \in Sides : GotOK(r)'
    BY <1>3, <2>1, SameMessage DEF OrderOK, GotOK, envVars
  <2> QED BY <1>5, <2>1, <2>2 DEF Types
<1>9. CASE ContentByte(s)
  <2>1. /\ Len(buf) < MAXLINE /\ Available(s) /\ Consume(s) /\ buf' = Append(buf, Token(s)) /\ i' = i + 1
        /\ UNCHANGED <<got, pc, sum>>
    BY <1>9 DEF ContentByte
  <2>2. /\ read' \in [Sides -> Nat] /\ read'[s] = read[s] + 1 /\ read'[Peer(s)] = read[Peer(s)]
        /\ read[s] \in Nat /\ read[s] + 1 <= sent[s] /\ sent[s] <= Len(Message(s)) /\ sent[s] \in Nat
    BY <2>1, Consumed
  <2>3. Token(s) = Message(s)[read[s] + 1] /\ Token(s) \in Alphabet
    BY <2>1, Consumed
  <2>4. /\ buf' \in Seq(Alphabet) /\ Len(buf') = Len(buf) + 1 /\ buf'[Len(buf) + 1] = Token(s)
        /\ \A k \in 1..Len(buf) : buf'[k] = buf[k]
    BY <2>1, <2>3, AppendProperties DEF Types
  <2>5. Types'
    <3>1. i' \in Nat /\ pc' = pc /\ got' = got /\ sum' = sum
      BY <2>1 DEF Types
    <3> QED BY <1>3, <2>2, <2>4, <3>1 DEF Types, envVars
  <2>6. \A r \in Sides : GotOK(r)'
    <3>1. GotOK(s)'
      BY <1>1, <1>2, <1>3, <2>1, <2>2, BufferNext DEF OrderOK, GotOK, envVars
    <3>2. GotOK(Peer(s))'
      BY <1>3, <2>1, <2>2, OtherSide DEF envVars
    <3> QED BY <3>1, <3>2, Peers
  <2>7. BufOK(s)'
    <3>1. \A k \in 1..Len(buf') : buf'[k] = Message(s)[read'[s] - Len(buf') + k]
      <4> SUFFICES ASSUME NEW k \in 1..Len(buf') PROVE buf'[k] = Message(s)[read'[s] - Len(buf') + k]
        OBVIOUS
      <4>1. read'[s] - Len(buf') = read[s] - Len(buf) /\ Len(buf) \in Nat
        BY <1>2, <2>2, <2>4, BufferNext
      <4>2. CASE k = Len(buf) + 1
        <5>1. read[s] - Len(buf) + k = read[s] + 1
          BY <2>2, <4>1, <4>2
        <5> QED BY <2>3, <2>4, <4>1, <4>2, <5>1
      <4>3. CASE k # Len(buf) + 1
        <5>1. k \in 1..Len(buf)
          BY <2>4, <4>1, <4>3
        <5> QED BY <1>2, <2>4, <4>1, <5>1 DEF OrderOK, BufOK
      <4> QED BY <4>2, <4>3
    <3>2. /\ Len(got'[Peer(s)]) + Len(buf') <= read'[s]
          /\ Peer(s) \notin broken' => Len(got'[Peer(s)]) + Len(buf') = read'[s]
      <4>1. got' = got /\ broken' = broken
        BY <1>3, <2>1 DEF envVars
      <4> DEFINE g == Len(got[Peer(s)])  n == Len(buf)  r == read[s]
      <4>2. g \in Nat /\ n \in Nat /\ r \in Nat /\ g + n <= r /\ (Peer(s) \notin broken => g + n = r)
        BY <1>2, BufferNext
      <4>3. Len(buf') = n + 1 /\ read'[s] = r + 1
        BY <2>2, <2>4
      <4> HIDE DEF g, n, r
      <4>4. g + (n + 1) <= r + 1 /\ (Peer(s) \notin broken => g + (n + 1) = r + 1)
        BY <4>2
      <4>5. Len(got'[Peer(s)]) = g
        BY <4>1 DEF g
      <4> QED BY <4>1, <4>3, <4>4, <4>5
    <3> QED BY <1>3, <3>1, <3>2 DEF BufOK
  <2>8. \A r \in Sides : BufOK(r)'
    BY <1>2, <2>1, <2>7 DEF BufOK
  <2>9. IdleOK'
    <3>1. s = "client" => Peer(s) = "server"
      BY DEF Peer
    <3> QED BY <1>2, <2>1, <2>2, <2>4, <3>1 DEF Types, OrderOK, IdleOK
  <2> QED BY <2>5, <2>6, <2>8, <2>9 DEF OrderOK
<1> QED BY <1>6, <1>7, <1>8, <1>9

\* Whatever side, network and proxy do, order is kept.
LEMMA NextOrder == Types /\ OrderOK /\ [Next]_vars => Types' /\ OrderOK'
<1> SUFFICES ASSUME Types, OrderOK, [Next]_vars PROVE Types' /\ OrderOK'
  OBVIOUS
<1>1. ASSUME NEW s \in Sides, Side(s) PROVE Types' /\ OrderOK'
  <2>1. CASE Sigpipe(s) \/ NoBlank(s)
    <3>1. pc' = Killed /\ UNCHANGED <<req, resp, envVars, read, got, content, buf, i, sum, logged>>
      BY <2>1 DEF Sigpipe, NoBlank
    <3>2. Types'
      BY <3>1, SameMessage, Places DEF Types, envVars
    <3>3. OrderOK'
      BY <3>1, SameMessage DEF OrderOK, IdleOK, GotOK, BufOK, envVars, Killed, Sides
    <3> QED BY <3>2, <3>3
  <2> QED BY <1>1, <2>1, HeaderOrder, ContentOrder DEF Side
<1>2. CASE Log
  <2>1. /\ pc = <<"proxy", "log">> /\ pc' = Finished /\ logged' = sum
        /\ UNCHANGED <<req, resp, envVars, read, got, content, buf, i, sum>>
    BY <1>2 DEF Log
  <2>2. Types'
    <3>1. Finished \in (Sides \X {"first", "header", "content"}) \cup {<<"proxy", "log">>, Finished, Killed}
      OBVIOUS
    <3> QED BY <2>1, <3>1, SameMessage DEF Types, envVars
  <2>3. OrderOK'
    BY <2>1, SameMessage DEF OrderOK, IdleOK, GotOK, BufOK, envVars, Finished, Sides
  <2> QED BY <2>2, <2>3
<1>3. ASSUME NEW s \in Sides, Send(s) PROVE Types' /\ OrderOK'
  <2>1. /\ sent[s] < Len(Message(s)) /\ sent' = [sent EXCEPT ![s] = @ + 1]
        /\ UNCHANGED <<req, resp, end, broken, read, got, pc, content, buf, i, sum, logged>>
    BY <1>3 DEF Send
  <2>2. Types'
    BY <2>1, SameMessage DEF Types
  <2>3. \A r \in Sides : Len(Message(r)) \in Nat /\ Message(r)' = Message(r)
    BY <2>1, Messages, SameMessage DEF Types
  <2>4. OrderOK'
    BY <2>1, <2>3 DEF Types, OrderOK, IdleOK, GotOK, BufOK
  <2> QED BY <2>2, <2>4
<1>4. ASSUME NEW s \in Sides, (\E how \in {"eof", "reset"} : Finish(s, how)) \/ Break(s)
      PROVE  Types' /\ OrderOK'
  <2>1. /\ end' \in [Sides -> {"open", "eof", "reset"}] /\ broken \subseteq broken' /\ broken' \subseteq Sides
        /\ UNCHANGED <<req, resp, sent, read, got, pc, content, buf, i, sum, logged>>
    BY <1>4 DEF Finish, Break, Types
  <2>2. Types'
    BY <2>1, SameMessage DEF Types
  <2>3. OrderOK'
    BY <2>1, SameMessage DEF OrderOK, IdleOK, GotOK, BufOK
  <2> QED BY <2>2, <2>3
<1>5. CASE UNCHANGED vars
  BY <1>5, SameMessage DEF vars, envVars, Types, OrderOK, IdleOK, GotOK, BufOK
<1> QED BY <1>1, <1>2, <1>3, <1>4, <1>5 DEF Next, process, Environment

-----------------------------------------------------------------------------
(***************************************************************************)
(* What is known of a connection on which nothing broke.                   *)
(***************************************************************************)

\* Side s has closed before it sent all of its message, which it will not now.
Truncated(s) == end[s] # "open" /\ sent[s] < Len(Message(s))

\* The length process() has read in the header of side s, 0 when there is none.
Announced(s) == IF Length(s) = Unknown THEN 0 ELSE Length(s)

\* How much of the message of side s is to be relayed.
Expected(s) == HeaderLen(s) + IF s = "client" /\ req.method # "post" THEN 0 ELSE Body(s)

Passed(s) == pc # Killed /\ (pc[1] = "proxy" \/ (s = "client" /\ pc[1] = "server"))

\* Within the header the empty line is still to come; within the content as
\* many bytes have been read as were counted, never more than announced; and
\* a message that has been passed was passed on as far as it is to be.
PlaceOK(s) ==
    /\ pc = <<s, "header">> => /\ 1 <= read[s] /\ read[s] < HeaderLen(s)
                               /\ content = IF read[s] = 2 THEN Announced(s) ELSE 0
    /\ pc = <<s, "content">> => \/ Truncated(s)
                                \/ /\ read[s] = HeaderLen(s) + i /\ content = Announced(s)
                                   /\ HasContent(s, content)
                                   /\ content # 0 => i <= content
    /\ Passed(s) => Truncated("client") \/ Truncated(s) \/ Len(got[Peer(s)]) = Expected(s)

\* The bytes counted for the log entry.
SumOK == /\ pc \in {<<"server", "header">>, <<"server", "content">>} => sum = 1
         /\ pc = <<"proxy", "log">> => Truncated("server") \/ sum = 1 + resp.body
         /\ pc = Finished => Truncated("client") \/ Truncated("server") \/ logged = 1 + resp.body

CompleteOK == /\ \A s \in Sides : end[s] = "reset" => s \in broken
              /\ Healthy => SumOK /\ \A s \in Sides : PlaceOK(s)

\* How much is to be relayed, seen from what the header says.
LEMMA Expects ==
    ASSUME MessagesOK, NEW s \in Sides
    PROVE  /\ HeaderLen(s) \in {2, 3} /\ Body(s) \in Nat /\ Announced(s) \in Nat
           /\ Length(s) = Unknown <=> HeaderLen(s) = 2
           /\ Length(s) = Unknown => Announced(s) = 0
           /\ Length(s) # Unknown => Announced(s) = Length(s)
           /\ ~HasContent(s, Announced(s)) => Expected(s) = HeaderLen(s) /\ (s = "server" => resp.body = 0)
           /\ HasContent(s, Announced(s)) => Expected(s) = HeaderLen(s) + Body(s)
           /\ HasContent(s, Announced(s)) /\ Announced(s) # 0 => Body(s) = Announced(s)
           /\ s = "server" => Body(s) = resp.body
<1>1. HeaderLen(s) \in {2, 3} /\ Body(s) \in Nat /\ Announced(s) \in Nat
      /\ (Length(s) = Unknown <=> HeaderLen(s) = 2)
  BY SidesMessages DEF HeaderLen, Announced, Unknown
<1>2. CASE s = "client"
  <2>1. Length(s) = req.length /\ Body(s) = req.body
        /\ \A l : HasContent(s, l) <=> req.method = "post" /\ l # 0
    BY <1>2 DEF Length, Body, HasContent
  <2> QED BY <1>1, <1>2, <2>1 DEF Announced, Expected, MessagesOK, Unknown
<1>3. CASE s = "server"
  <2>1. Length(s) = resp.length /\ Body(s) = resp.body
        /\ \A l : HasContent(s, l) <=> req.method # "head" /\ resp.kind # "bare"
    BY <1>3 DEF Length, Body, HasContent
  <2> QED BY <1>1, <1>3, <2>1 DEF Announced, Expected, MessagesOK, Unknown
<1> QED BY <1>2, <1>3 DEF Sides

\* A side that has closed too early has done so for good.
LEMMA TruncatedStays == ASSUME Types, OrderOK, [Next]_vars, NEW s \in Sides, Truncated(s)
                        PROVE  Truncated(s)'
<1>1. UNCHANGED <<req, resp>>
  BY DEF Next, process, Side, FirstLine, NoFirstLine, HeaderLine, HeaderEnd, NoBlank, Flush, ContentByte, ContentEnd,
         ContentError, Sigpipe, Log, Environment, Send, Finish, Break, vars
<1>2. end'[s] = end[s] /\ sent'[s] = sent[s]
  <2>1. CASE UNCHANGED envVars
    BY <2>1 DEF envVars
  <2>2. ASSUME NEW r \in Sides, Send(r) \/ \E how \in {"eof", "reset"} : Finish(r, how)
        PROVE  end'[s] = end[s] /\ sent'[s] = sent[s]
    BY <2>2 DEF Send, Finish, Truncated, Types
  <2>3. ASSUME NEW r \in Sides, Break(r) PROVE end'[s] = end[s] /\ sent'[s] = sent[s]
    BY <2>3 DEF Break
  <2>4. (\E r \in Sides : Side(r)) \/ Log \/ UNCHANGED vars => UNCHANGED envVars
    BY DEF Side, FirstLine, NoFirstLine, HeaderLine, HeaderEnd, NoBlank, Flush, ContentByte, ContentEnd,
           ContentError, Sigpipe, Log, vars
  <2> QED BY <2>1, <2>2, <2>3, <2>4 DEF Next, process, Environment
<1> QED BY <1>1, <1>2, SameMessage DEF Truncated

\* Nothing that the proxy does makes a side close or break.
LEMMA SameEnds == ASSUME UNCHANGED <<req, resp, envVars>>
                  PROVE  \A s : /\ Truncated(s)' <=> Truncated(s)
                                /\ Announced(s)' = Announced(s) /\ Expected(s)' = Expected(s)
                                /\ \A l : HasContent(s, l)' <=> HasContent(s, l)
<1>1. \A s : Message(s)' = Message(s) /\ Length(s)' = Length(s) /\ HeaderLen(s)' = HeaderLen(s)
             /\ Body(s)' = Body(s)
  BY SameMessage
<1> QED BY <1>1 DEF Truncated, Announced, Expected, HasContent, envVars

\* The message of side s has been passed on as far as it is to be.
LEMMA MessagePassed ==
    ASSUME Types, NEW s \in Sides, pc[1] = s, \A r \in Sides : PlaceOK(r),
           pc' = AfterMessage(s), UNCHANGED <<req, resp, envVars>>, got'[s] = got[s],
           Truncated(s) \/ Len(got'[Peer(s)]) = Expected(s),
           s = "server" => Truncated(s) \/ sum' = 1 + resp.body
    PROVE  SumOK' /\ \A r \in Sides : PlaceOK(r)'
<1>1. CASE s = "client"
  <2>1. pc' = <<"server", "first">> /\ pc'[1] = "server"
    BY <1>1 DEF AfterMessage
  <2>2. SumOK'
    BY <2>1 DEF SumOK, Finished
  <2>3. PlaceOK("client")'
    BY <1>1, <2>1, SameEnds DEF PlaceOK
  <2>4. PlaceOK("server")'
    BY <2>1 DEF PlaceOK, Passed
  <2> QED BY <2>2, <2>3, <2>4 DEF Sides
<1>2. CASE s = "server"
  <2>1. pc' = <<"proxy", "log">> /\ pc'[1] = "proxy" /\ pc' # Finished /\ resp' = resp
    BY <1>2 DEF AfterMessage, Finished
  <2>2. SumOK'
    BY <1>2, <2>1, SameEnds DEF SumOK
  <2>3. PlaceOK("server")'
    BY <1>2, <2>1, SameEnds DEF PlaceOK
  <2>4. Passed("client") /\ Peer("client") = "server" /\ "client" \in Sides
    BY <1>2 DEF Passed, Killed, Peer, Sides
  <2>5. PlaceOK("client")'
    BY <1>2, <2>1, <2>4, SameEnds DEF PlaceOK
  <2> QED BY <2>2, <2>3, <2>5 DEF Sides
<1> QED BY <1>1, <1>2 DEF Sides

\* The message of side s goes on.
LEMMA MessageGoesOn ==
    ASSUME Types, NEW s \in Sides, pc[1] = s, \A r \in Sides : PlaceOK(r),
           pc' \in {<<s, "header">>, <<s, "content">>},
           UNCHANGED <<req, resp, envVars>>, got'[s] = got[s],
           pc' = <<s, "header">> => /\ 1 <= read'[s] /\ read'[s] < HeaderLen(s)
                                    /\ content' = IF read'[s] = 2 THEN Announced(s) ELSE 0,
           pc' = <<s, "content">> => \/ Truncated(s)
                                     \/ /\ read'[s] = HeaderLen(s) + i' /\ content' = Announced(s)
                                        /\ HasContent(s, content')
                                        /\ content' # 0 => i' <= content',
           s = "server" => sum' = 1
    PROVE  SumOK' /\ \A r \in Sides : PlaceOK(r)'
<1>1. pc'[1] = s /\ pc' # <<"proxy", "log">> /\ pc' # Finished /\ pc' # Killed
  BY DEF Sides, Finished, Killed
<1>2. SumOK'
  BY <1>1 DEF SumOK
<1>3. ~Passed(s)'
  BY <1>1 DEF Passed, Sides
<1>4. PlaceOK(s)'
  BY <1>3, SameEnds, SameMessage DEF PlaceOK
<1>5. PlaceOK(Peer(s))'
  <2>1. Peer(s) \in Sides /\ Peer(Peer(s)) = s /\ Peer(s) # s
    BY Peers
  <2>2. pc' # <<Peer(s), "header">> /\ pc' # <<Peer(s), "content">>
    BY <1>1, <2>1
  <2>3. Passed(Peer(s))' => Passed(Peer(s))
    BY <1>1 DEF Passed, Killed, Sides
  <2> QED BY <2>1, <2>2, <2>3, SameEnds DEF PlaceOK
<1> QED BY <1>2, <1>4, <1>5, Peers

\* The first line and the header of a message, when nothing is broken.
LEMMA HeaderComplete ==
    ASSUME Types, OrderOK, Healthy, SumOK, \A r \in Sides : PlaceOK(r), NEW s \in Sides,
           FirstLine(s) \/ NoFirstLine(s) \/ HeaderLine(s) \/ HeaderEnd(s)
    PROVE  SumOK' /\ \A r \in Sides : PlaceOK(r)'
<1> DEFINE h == HeaderLen(s)  len == Len(Message(s))
<1>1. h \in {2, 3} /\ len \in Nat /\ h <= len /\ Message(s)[h] = "blank"
      /\ (h = 3 => Message(s)[2] = "length") /\ Announced(s) \in Nat
  BY Messages, Expects DEF Types
<1>2. pc \in {<<s, "first">>, <<s, "header">>} /\ pc[1] = s /\ buf = <<>> /\ i = 0
  <2>1. pc \in {<<s, "first">>, <<s, "header">>}
    BY DEF FirstLine, NoFirstLine, HeaderLine, HeaderEnd
  <2> QED BY <2>1 DEF OrderOK, IdleOK
<1>3. UNCHANGED <<req, resp, envVars, buf, i, logged>> /\ Peer(s) \notin broken
  BY DEF FirstLine, NoFirstLine, HeaderLine, HeaderEnd, Healthy
<1>4. read[s] \in Nat /\ sent[s] \in Nat /\ read[s] <= sent[s]
  BY DEF Types, OrderOK, GotOK
<1>5. ASSUME AtEnd(s, "eof") \/ AtEnd(s, "reset"), read[s] < len PROVE Truncated(s)
  BY <1>1, <1>4, <1>5 DEF AtEnd, Available, Truncated
<1> HIDE DEF h, len
<1>6. CASE FirstLine(s)
  <2>1. pc = <<s, "first">> /\ Available(s) /\ Consume(s) /\ writebuf(Peer(s), <<Token(s)>>)
        /\ pc' = <<s, "header">> /\ content' = 0 /\ (s = "server" => sum' = 1)
    BY <1>6 DEF FirstLine
  <2>2. got'[s] = got[s] /\ read'[s] = read[s] + 1
    BY <1>2, <1>3, <2>1, LinePassed
  <2>3. read'[s] = 1
    BY <2>1, <2>2 DEF OrderOK, IdleOK
  <2>4. 1 <= read'[s] /\ read'[s] < HeaderLen(s) /\ read'[s] # 2
    BY <1>1, <2>3 DEF h
  <2>5. pc' # <<s, "content">>
    BY <2>1
  <2> QED BY <1>2, <1>3, <2>1, <2>2, <2>4, <2>5, MessageGoesOn
<1>7. CASE HeaderLine(s)
  <2>1. pc = <<s, "header">> /\ Available(s) /\ Consume(s) /\ writebuf(Peer(s), <<Token(s)>>) /\ sum' = sum
        /\ content' = (IF Token(s) = "length" THEN Length(s) ELSE content)
        /\ pc' = (IF Token(s) = "blank" THEN AfterHeader(s, content') ELSE pc)
    BY <1>3, <1>7 DEF HeaderLine
  <2>2. got'[s] = got[s] /\ read'[s] = read[s] + 1 /\ Token(s) = Message(s)[read[s] + 1]
        /\ Len(got'[Peer(s)]) = read'[s]
    BY <1>2, <1>3, <2>1, LinePassed
  <2>3. 1 <= read[s] /\ read[s] < h /\ content = IF read[s] = 2 THEN Announced(s) ELSE 0
    BY <2>1 DEF PlaceOK, h
  <2>4. s = "server" => sum' = 1
    BY <2>1 DEF SumOK
  <2>5. CASE read[s] + 1 = h
    <3>1. Token(s) = "blank" /\ content' = content /\ pc' = AfterHeader(s, content') /\ read'[s] = h
      BY <1>1, <2>1, <2>2, <2>5
    <3>2. content' = Announced(s)
      <4>1. CASE h = 2
        <5>1. Announced(s) = 0 /\ read[s] = 1
          BY <1>4, <2>5, <4>1, Expects DEF h, Types
        <5> QED BY <2>3, <3>1, <5>1
      <4>2. CASE h = 3
        BY <1>4, <2>3, <2>5, <3>1, <4>2
      <4> QED BY <1>1, <4>1, <4>2
    <3>3. CASE HasContent(s, content')
      <4>1. pc' = <<s, "content">> /\ pc' # <<s, "header">>
        BY <3>1, <3>3 DEF AfterHeader
      <4>2. read'[s] = HeaderLen(s) + i' /\ (content' # 0 => i' <= content')
        BY <1>1, <1>2, <1>3, <3>1, <3>2 DEF h
      <4> QED BY <1>2, <1>3, <2>2, <2>4, <3>2, <3>3, <4>1, <4>2, MessageGoesOn
    <3>4. CASE ~HasContent(s, content')
      <4>1. pc' = AfterMessage(s)
        BY <3>1, <3>4 DEF AfterHeader
      <4>2. Expected(s) = h /\ (s = "server" => resp.body = 0)
        BY <3>2, <3>4, Expects DEF h, Types
      <4>3. Len(got'[Peer(s)]) = Expected(s) /\ (s = "server" => sum' = 1 + resp.body)
        BY <2>2, <2>4, <3>1, <4>2
      <4> QED BY <1>2, <1>3, <2>2, <4>1, <4>3, MessagePassed
    <3> QED BY <3>3, <3>4
  <2>6. CASE read[s] + 1 # h
    <3>1. read[s] = 1 /\ h = 3 /\ read'[s] = 2
      BY <1>1, <1>4, <2>2, <2>3, <2>6
    <3>2. Token(s) = "length" /\ Length(s) # Unknown /\ Announced(s) = Length(s)
      BY <1>1, <2>2, <3>1, Expects DEF h, Types
    <3>3. pc' = <<s, "header">> /\ pc' # <<s, "content">> /\ content' = Announced(s)
      BY <2>1, <3>2
    <3>4. 1 <= read'[s] /\ read'[s] < HeaderLen(s) /\ content' = IF read'[s] = 2 THEN Announced(s) ELSE 0
      BY <3>1, <3>3 DEF h
    <3> QED BY <1>2, <1>3, <2>2, <2>4, <3>3, <3>4, MessageGoesOn
  <2> QED BY <2>5, <2>6
<1>8. CASE HeaderEnd(s)
  <2>1. pc = <<s, "header">> /\ (AtEnd(s, "eof") \/ AtEnd(s, "reset")) /\ pc' = AfterHeader(s, content')
        /\ got' = got /\ sum' = sum
    BY <1>8 DEF HeaderEnd
  <2>2. Truncated(s)
    <3>1. read[s] < h
      BY <2>1 DEF PlaceOK, h
    <3> QED BY <1>1, <1>4, <1>5, <2>1, <3>1
  <2>3. s = "server" => sum' = 1
    BY <2>1 DEF SumOK
  <2>4. CASE pc' = <<s, "content">>
    <3>1. pc' # <<s, "header">>
      BY <2>4
    <3> QED BY <1>2, <1>3, <2>1, <2>2, <2>3, <2>4, <3>1, MessageGoesOn
  <2>5. CASE pc' = AfterMessage(s)
    BY <1>2, <1>3, <2>1, <2>2, <2>5, MessagePassed
  <2> QED BY <2>1, <2>4, <2>5 DEF AfterHeader
<1>9. CASE NoFirstLine(s)
  <2>1. pc = <<s, "first">> /\ (AtEnd(s, "eof") \/ AtEnd(s, "reset"))
        /\ pc' = (IF s = "client" THEN Finished ELSE AfterMessage(s)) /\ got' = got
    BY <1>9 DEF NoFirstLine
  <2>2. Truncated(s)
    <3>1. read[s] = 0
      BY <2>1 DEF OrderOK, IdleOK
    <3> QED BY <1>1, <1>5, <2>1, <3>1
  <2>3. CASE s = "client"
    <3>1. pc' = Finished /\ Truncated("client")' /\ pc' # <<"proxy", "log">>
      BY <1>3, <2>1, <2>2, <2>3, SameEnds DEF Finished
    <3>2. SumOK'
      BY <3>1 DEF SumOK, Finished
    <3>3. \A r \in Sides : PlaceOK(r)'
      BY <3>1 DEF PlaceOK, Finished, Sides
    <3> QED BY <3>2, <3>3
  <2>4. CASE s # "client"
    BY <1>2, <1>3, <2>1, <2>2, <2>4, MessagePassed
  <2> QED BY <2>3, <2>4
<1> QED BY <1>6, <1>7, <1>8, <1>9

\* relay_content, when nothing is broken.
LEMMA ContentComplete ==
    ASSUME Types, OrderOK, Healthy, SumOK, \A r \in Sides : PlaceOK(r), NEW s \in Sides,
           \A r \in Sides : end[r] = "reset" => r \in broken,
           Flush(s) \/ ContentByte(s) \/ ContentEnd(s) \/ ContentError(s)
    PROVE  SumOK' /\ \A r \in Sides : PlaceOK(r)'
<1>1. pc = <<s, "content">> /\ pc[1] = s /\ UNCHANGED <<req, resp, envVars, content, logged>>
      /\ Peer(s) \notin broken /\ pc # <<s, "header">>
  BY DEF Flush, ContentByte, ContentEnd, ContentError, Healthy
<1>2. read[s] \in Nat /\ sent[s] \in Nat /\ read[s] <= sent[s] /\ sent[s] <= Len(Message(s))
      /\ i \in Nat /\ content \in Nat /\ HeaderLen(s) \in {2, 3} /\ Body(s) \in Nat
      /\ Len(Message(s)) = HeaderLen(s) + Body(s)
  BY Messages, Expects DEF Types, OrderOK, GotOK
<1>3. Truncated(s) \/ (/\ read[s] = HeaderLen(s) + i /\ content = Announced(s) /\ HasContent(s, content)
                       /\ content # 0 => i <= content)
  BY <1>1 DEF PlaceOK
<1>4. s = "server" => sum = 1
  BY <1>1 DEF SumOK
<1>5. CASE Flush(s)
  <2>1. writebuf(Peer(s), buf) /\ UNCHANGED <<pc, i, sum, read>>
    BY <1>1, <1>5 DEF Flush
  <2>2. got'[s] = got[s]
    BY <2>1, Peers DEF writebuf, Types
  <2> QED BY <1>1, <1>3, <1>4, <2>1, <2>2, MessageGoesOn
<1>6. CASE ContentByte(s)
  <2>1. ~LengthReached /\ Available(s) /\ Consume(s) /\ i' = i + 1 /\ UNCHANGED <<got, pc, sum>>
    BY <1>6 DEF ContentByte
  <2>2. read'[s] = read[s] + 1
    BY <2>1, Consumed
  <2>3. Truncated(s) \/ (/\ read'[s] = HeaderLen(s) + i' /\ content' = Announced(s) /\ HasContent(s, content')
                         /\ content' # 0 => i' <= content')
    BY <1>1, <1>2, <1>3, <2>1, <2>2 DEF LengthReached
  <2> QED BY <1>1, <1>4, <2>1, <2>3, MessageGoesOn
<1>7. CASE ContentEnd(s)
  <2>1. /\ LengthReached \/ AtEnd(s, "eof")
        /\ writebuf(Peer(s), buf) /\ pc' = AfterMessage(s) /\ (s = "server" => sum' = sum + i)
    BY <1>7 DEF ContentEnd, Leave
  <2>2. got'[s] = got[s] /\ Len(got'[Peer(s)]) = read[s]
    <3>1. got' = [got EXCEPT ![Peer(s)] = got[Peer(s)] \o buf] /\ got[Peer(s)] \in Seq(Alphabet)
          /\ buf \in Seq(Alphabet) /\ Peer(s) \in Sides /\ Peer(s) # s
      BY <1>1, <2>1, Peers DEF writebuf, Types
    <3>2. got'[s] = got[s] /\ got'[Peer(s)] = got[Peer(s)] \o buf
      BY <3>1 DEF Types
    <3>3. Len(got[Peer(s)] \o buf) = Len(got[Peer(s)]) + Len(buf)
      BY <3>1, ConcatProperties
    <3> QED BY <1>1, <3>2, <3>3, BufferNext
  <2>3. ASSUME ~Truncated(s) PROVE i = Body(s) /\ read[s] = Expected(s)
    <3>1. read[s] = HeaderLen(s) + i /\ content = Announced(s) /\ HasContent(s, content)
      BY <1>3, <2>3
    <3>2. Expected(s) = HeaderLen(s) + Body(s) /\ (content # 0 => Body(s) = content)
      BY <3>1, Expects DEF Types
    <3>3. CASE LengthReached
      BY <3>1, <3>2, <3>3 DEF LengthReached
    <3>4. CASE AtEnd(s, "eof")
      <4>1. read[s] = Len(Message(s))
        BY <1>2, <2>3, <3>4 DEF AtEnd, Available, Truncated
      <4> QED BY <1>2, <3>1, <3>2, <4>1
    <3> QED BY <2>1, <3>3, <3>4
  <2>4. s = "server" => Truncated(s) \/ sum' = 1 + resp.body
    BY <1>4, <2>1, <2>3, Expects DEF Types
  <2>5. Truncated(s) \/ Len(got'[Peer(s)]) = Expected(s)
    BY <2>2, <2>3
  <2> QED BY <1>1, <2>1, <2>2, <2>4, <2>5, MessagePassed
<1>8. CASE ContentError(s)
  BY <1>8 DEF ContentError, AtEnd, Healthy
<1> QED BY <1>5, <1>6, <1>7, <1>8

\* What is known of a healthy connection stays known.
LEMMA NextComplete == Types /\ OrderOK /\ CompleteOK /\ [Next]_vars => CompleteOK'
<1> SUFFICES ASSUME Types, OrderOK, CompleteOK, [Next]_vars PROVE CompleteOK'
  OBVIOUS
<1>1. ASSUME UNCHANGED <<req, resp, read, got, pc, content, i, sum, logged>>, broken \subseteq broken',
             \A r \in Sides : end'[r] = "reset" => r \in broken'
      PROVE  CompleteOK'
  <2>1. Healthy' => Healthy
    BY <1>1 DEF Healthy
  <2>2. \A r \in Sides : Truncated(r) => Truncated(r)'
    BY TruncatedStays
  <2>3. "client" \in Sides /\ "server" \in Sides
    BY DEF Sides
  <2>4. \A r : /\ Announced(r)' = Announced(r) /\ Expected(r)' = Expected(r) /\ HeaderLen(r)' = HeaderLen(r)
               /\ Passed(r)' <=> Passed(r)
               /\ \A l : HasContent(r, l)' <=> HasContent(r, l)
    <3>1. \A r : Length(r)' = Length(r) /\ HeaderLen(r)' = HeaderLen(r) /\ Body(r)' = Body(r)
      BY <1>1, SameMessage
    <3> QED BY <1>1, <3>1 DEF Announced, Expected, Passed, HasContent
  <2>5. SumOK => SumOK'
    BY <1>1, <2>2, <2>3 DEF SumOK
  <2>6. ASSUME NEW r \in Sides, PlaceOK(r) PROVE PlaceOK(r)'
    BY <1>1, <2>2, <2>3, <2>4, <2>6 DEF PlaceOK
  <2> QED BY <1>1, <2>1, <2>5, <2>6 DEF CompleteOK
<1>2. CASE UNCHANGED vars
  BY <1>1, <1>2 DEF vars, envVars, CompleteOK
<1>3. ASSUME NEW s \in Sides, Send(s) \/ (\E how \in {"eof", "reset"} : Finish(s, how)) \/ Break(s)
      PROVE  CompleteOK'
  <2>1. UNCHANGED <<req, resp, read, got, pc, content, i, sum, logged>> /\ broken \subseteq broken'
    BY <1>3 DEF Send, Finish, Break
  <2>2. \A r \in Sides : end'[r] = "reset" => r \in broken'
    BY <1>3 DEF Send, Finish, Break, CompleteOK, Types
  <2> QED BY <1>1, <2>1, <2>2
<1>4. CASE Log
  <2>1. /\ pc = <<"proxy", "log">> /\ pc' = Finished /\ logged' = sum
        /\ UNCHANGED <<req, resp, envVars, read, got, content, buf, i, sum>>
    BY <1>4 DEF Log
  <2>2. SumOK => SumOK'
    BY <2>1, SameEnds DEF SumOK, Finished
  <2>3. \A r \in Sides : Passed(r)
    BY <2>1 DEF Passed, Killed
  <2>4. ASSUME NEW r \in Sides, PlaceOK(r) PROVE PlaceOK(r)'
    <3>1. pc' # <<r, "header">> /\ pc' # <<r, "content">>
      BY <2>1 DEF Finished
    <3> QED BY <2>1, <2>3, <2>4, <3>1, SameEnds DEF PlaceOK
  <2> QED BY <2>1, <2>2, <2>4 DEF CompleteOK, Healthy, envVars
<1>5. ASSUME NEW s \in Sides, Side(s) PROVE CompleteOK'
  <2>1. UNCHANGED envVars
    BY <1>5 DEF Side, FirstLine, NoFirstLine, HeaderLine, HeaderEnd, NoBlank, Flush, ContentByte, ContentEnd,
                ContentError, Sigpipe
  <2>2. \A r \in Sides : end'[r] = "reset" => r \in broken'
    BY <2>1 DEF CompleteOK, envVars
  <2>3. ASSUME Healthy PROVE SumOK' /\ \A r \in Sides : PlaceOK(r)'
    <3>1. ~Sigpipe(s)
      BY <2>3 DEF Healthy, Sigpipe
    <3>3. CASE NoBlank(s)
      <4>1. pc' = Killed
        BY <3>3 DEF NoBlank
      <4> QED BY <4>1 DEF SumOK, PlaceOK, Passed, Killed, Finished, Sides
    <3>2. SumOK /\ (\A r \in Sides : PlaceOK(r)) /\ \A r \in Sides : end[r] = "reset" => r \in broken
      BY <2>3 DEF CompleteOK
    <3> QED BY <1>5, <2>3, <3>1, <3>2, <3>3, HeaderComplete, ContentComplete DEF Side
  <2> QED BY <2>1, <2>2, <2>3 DEF CompleteOK, Healthy, envVars
<1> QED BY <1>2, <1>3, <1>4, <1>5 DEF Next, process, Environment

-----------------------------------------------------------------------------
(***************************************************************************)
(* What follows.                                                           *)
(***************************************************************************)
Inv == Types /\ OrderOK /\ CompleteOK

\* The inductive invariant holds of every state of the relay.
THEOREM Invariance == Spec => []Inv
<1>1. Init => Inv
  <2> SUFFICES ASSUME Init PROVE CompleteOK
    BY InitTypes DEF Inv
  <2>1. pc = <<"client", "first">> /\ end = [s \in Sides |-> "open"]
    BY DEF Init
  <2>2. SumOK /\ \A s \in Sides : PlaceOK(s)
    BY <2>1 DEF SumOK, PlaceOK, Passed, Finished, Sides
  <2> QED BY <2>1, <2>2 DEF CompleteOK
<1>2. Inv /\ [Next]_vars => Inv'
  BY NextOrder, NextComplete DEF Inv
<1> QED BY <1>1, <1>2, PTL DEF Spec

\* relay_content never reads a byte beyond the end of its buffer, whatever
\* MAXLINE is and however the bytes and the flushes come.
THEOREM BufferBounded == Spec => []BufferInBounds
<1>1. Inv => BufferInBounds
  BY DEF Inv, OrderOK, IdleOK, BufferInBounds
<1> QED BY <1>1, Invariance, PTL

\* A sequence that agrees with another one as far as it goes is a prefix of it.
LEMMA PrefixOf ==
    ASSUME NEW S, NEW a \in Seq(S), NEW b \in Seq(S), Len(a) <= Len(b), \A k \in 1..Len(a) : a[k] = b[k]
    PROVE  IsPrefix(a, b)
<1>1. Len(a) \in Nat /\ Len(b) \in Nat
  OBVIOUS
<1>2. \A k \in 1..Len(a) : a[k] \in S /\ b[k] \in S
  BY <1>1
<1>3. /\ SubSeq(a, 1, Len(a)) \in Seq(S) /\ SubSeq(b, 1, Len(a)) \in Seq(S)
      /\ Len(SubSeq(a, 1, Len(a))) = Len(a) /\ Len(SubSeq(b, 1, Len(a))) = Len(a)
      /\ \A k \in 1..Len(a) : SubSeq(a, 1, Len(a))[k] = a[k] /\ SubSeq(b, 1, Len(a))[k] = b[k]
  BY <1>1, <1>2, SubSeqProperties
<1>4. SubSeq(a, 1, Len(a)) = SubSeq(b, 1, Len(a))
  BY <1>3, SeqEqual
<1> QED BY <1>4 DEF IsPrefix

\* The first n elements of a sequence.
LEMMA InitialPart ==
    ASSUME NEW S, NEW m \in Seq(S), NEW n \in Nat, n <= Len(m)
    PROVE  /\ SubSeq(m, 1, n) \in Seq(S) /\ Len(SubSeq(m, 1, n)) = n
           /\ \A k \in 1..n : SubSeq(m, 1, n)[k] = m[k]
<1>1. \A k \in 1..n : m[k] \in S
  OBVIOUS
<1> QED BY <1>1, SubSeqProperties

\* What GotOK says of a side, as a prefix.
LEMMA PrefixSent == ASSUME Types, NEW s \in Sides, GotOK(s)
                    PROVE  IsPrefix(got[Peer(s)], SubSeq(Message(s), 1, sent[s]))
<1>1. got[Peer(s)] \in Seq(Alphabet) /\ sent[s] \in Nat /\ read[s] \in Nat /\ Len(got[Peer(s)]) \in Nat
  BY Peers DEF Types
<1>2. Message(s) \in Seq(Alphabet) /\ sent[s] <= Len(Message(s)) /\ Len(got[Peer(s)]) <= sent[s]
      /\ \A k \in 1..Len(got[Peer(s)]) : got[Peer(s)][k] = Message(s)[k]
  BY <1>1, Messages DEF GotOK, Types
<1>3. /\ SubSeq(Message(s), 1, sent[s]) \in Seq(Alphabet) /\ Len(SubSeq(Message(s), 1, sent[s])) = sent[s]
      /\ \A k \in 1..sent[s] : SubSeq(Message(s), 1, sent[s])[k] = Message(s)[k]
  <2> DEFINE m == Message(s)  n == sent[s]
  <2>1. m \in Seq(Alphabet) /\ n \in Nat /\ n <= Len(m)
    BY <1>1, <1>2
  <2> HIDE DEF m, n
  <2>2. /\ SubSeq(m, 1, n) \in Seq(Alphabet) /\ Len(SubSeq(m, 1, n)) = n
        /\ \A k \in 1..n : SubSeq(m, 1, n)[k] = m[k]
    BY <2>1, InitialPart
  <2> QED BY <2>2 DEF m, n
<1>4. \A k \in 1..Len(got[Peer(s)]) : got[Peer(s)][k] = SubSeq(Message(s), 1, sent[s])[k]
  BY <1>1, <1>2, <1>3
<1> QED BY <1>1, <1>2, <1>3, <1>4, PrefixOf

\* Nothing is lost, doubled or put out of order on the way through process():
\* what a side gets is the beginning of what the other side has sent.
THEOREM TokensInOrder == Spec => []InOrder
<1>1. Inv => InOrder
  <2> SUFFICES ASSUME Inv, NEW s \in Sides
               PROVE  IsPrefix(got[s], SubSeq(Message(Peer(s)), 1, sent[Peer(s)]))
    BY DEF InOrder
  <2>1. Peer(s) \in Sides /\ Peer(Peer(s)) = s /\ GotOK(Peer(s)) /\ Types
    BY Peers DEF Inv, OrderOK
  <2>2. IsPrefix(got[Peer(Peer(s))], SubSeq(Message(Peer(s)), 1, sent[Peer(s)]))
    BY <2>1, PrefixSent
  <2> QED BY <2>1, <2>2
<1> QED BY <1>1, Invariance, PTL

\* The size in the log entry of such a transfer: the first line and the content of
\* the response are counted, its header lines are not.
LEMMA LoggedSize ==
    Spec => [](pc = Finished /\ Healthy /\ AllSent("client") /\ AllSent("server") => logged = 1 + resp.body)
<1>1. Inv => (pc = Finished /\ Healthy /\ AllSent("client") /\ AllSent("server") => logged = 1 + resp.body)
  <2> SUFFICES ASSUME Inv, pc = Finished, Healthy, AllSent("client"), AllSent("server")
               PROVE  logged = 1 + resp.body
    OBVIOUS
  <2>1. \A s \in Sides : Len(Message(s)) \in Nat
    BY Messages DEF Inv, Types
  <2>2. ~Truncated("client") /\ ~Truncated("server")
    BY <2>1 DEF Truncated, AllSent, Sides
  <2> QED BY <2>2 DEF Inv, CompleteOK, SumOK
<1> QED BY <1>1, Invariance, PTL

\* When both sides have sent their messages and nothing broke, the request
\* (its content only if it is a POST) and the response have been relayed by the
\* time the connections are closed.
THEOREM TransferComplete == Spec => []Complete
<1>1. Inv => Complete
  <2> SUFFICES ASSUME Inv, pc = Finished, Healthy, AllSent("client"), AllSent("server")
               PROVE  /\ got["server"] = Tokens(IF req.method = "post" THEN req ELSE [req EXCEPT !.body = 0])
                      /\ got["client"] = Tokens(resp)
    BY DEF Complete
  <2>1. MessagesOK /\ Types /\ "client" \in Sides /\ "server" \in Sides
        /\ Peer("client") = "server" /\ Peer("server") = "client"
    BY DEF Inv, Types, Sides, Peer
  <2>2. \A s \in Sides : Len(Message(s)) \in Nat
    BY <2>1, Messages
  <2>3. ~Truncated("client") /\ ~Truncated("server")
    BY <2>1, <2>2 DEF Truncated, AllSent
  <2>4. \A s \in Sides : Len(got[Peer(s)]) = Expected(s)
    <3>1. \A s \in Sides : Passed(s)
      BY DEF Passed, Finished, Killed
    <3> QED BY <2>1, <2>3, <3>1 DEF Inv, CompleteOK, PlaceOK, Sides
  <2>5. \A s \in Sides : got[s] \in Seq(Alphabet) /\ \A k \in 1..Len(got[Peer(s)]) : got[Peer(s)][k] = Message(s)[k]
    BY DEF Inv, Types, OrderOK, GotOK
  <2>6. got["client"] = Tokens(resp)
    <3>1. Message("server") = Tokens(resp) /\ Tokens(resp) \in Seq(Alphabet)
          /\ Len(Tokens(resp)) = Expected("server")
      BY <2>1, Messages DEF Message, Expected
    <3> QED BY <2>1, <2>4, <2>5, <3>1, SeqEqual
  <2>7. got["server"] = Tokens(IF req.method = "post" THEN req ELSE [req EXCEPT !.body = 0])
    <3> DEFINE r == IF req.method = "post" THEN req ELSE [req EXCEPT !.body = 0]
               h == IF req.length = Unknown THEN 2 ELSE 3
    <3>1. req.length \in Nat \cup {Unknown} /\ req.body \in Nat /\ Message("client") = Tokens(req)
          /\ HeaderLen("client") = h /\ Body("client") = req.body
      BY <2>1 DEF MessagesOK, Message, HeaderLen, Length, Body
    <3>2. r.length = req.length /\ r.body = IF req.method = "post" THEN req.body ELSE 0
      BY <2>1 DEF MessagesOK
    <3>3. /\ Tokens(r) \in Seq(Alphabet) /\ Len(Tokens(r)) = h + r.body
          /\ Tokens(r)[1] = "line" /\ Tokens(r)[h] = "blank"
          /\ r.length # Unknown => Tokens(r)[2] = "length"
          /\ \A k \in h + 1 .. h + r.body : Tokens(r)[k] = "byte"
      <4>1. r.length \in Nat \cup {Unknown} /\ r.body \in Nat
        BY <3>1, <3>2
      <4> HIDE DEF r
      <4> QED BY <3>2, <4>1, TokensOf
    <3>4. /\ Tokens(req)[1] = "line" /\ Tokens(req)[h] = "blank"
          /\ req.length # Unknown => Tokens(req)[2] = "length"
          /\ \A k \in h + 1 .. h + req.body : Tokens(req)[k] = "byte"
      BY <3>1, TokensOf
    <3>5. Len(got["server"]) = h + r.body
      BY <2>1, <2>4, <3>1, <3>2 DEF Expected
    <3> HIDE DEF r
    <3>6. ASSUME NEW k \in 1 .. h + r.body PROVE Tokens(r)[k] = Tokens(req)[k]
      <4>1. CASE k <= h
        <5>1. k = 1 \/ k = h \/ (k = 2 /\ req.length # Unknown)
          BY <4>1
        <5> QED BY <3>2, <3>3, <3>4, <5>1
      <4>2. CASE ~(k <= h)
        <5>1. r.body \in Nat /\ r.body <= req.body
          BY <3>1, <3>2
        <5>2. k \in h + 1 .. h + r.body /\ k \in h + 1 .. h + req.body
          BY <3>1, <4>2, <5>1
        <5> QED BY <3>3, <3>4, <5>2
      <4> QED BY <4>1, <4>2
    <3>7. got["server"] \in Seq(Alphabet) /\ \A k \in 1..Len(got["server"]) : got["server"][k] = Tokens(req)[k]
      BY <2>1, <2>5, <3>1
    <3>8. got["server"] = Tokens(r)
      BY <3>3, <3>5, <3>6, <3>7, SeqEqual
    <3> QED BY <3>8 DEF r
  <2> QED BY <2>6, <2>7
<1> QED BY <1>1, Invariance, PTL

\* What has been passed on is never taken back, and only for the side whose
\* turn it is.
LEMMA NothingTakenBack ==
    ASSUME Types, OrderOK, NEW s \in Sides, Side(s)
    PROVE  IsPrefix(got[Peer(s)], got'[Peer(s)]) /\ got'[s] = got[s] /\ got' \in [Sides -> Seq(Alphabet)]
<1>1. Peer(s) \in Sides /\ Peer(s) # s /\ got \in [Sides -> Seq(Alphabet)] /\ got[Peer(s)] \in Seq(Alphabet)
  BY Peers DEF Types
<1>2. CASE got' = got
  BY <1>1, <1>2, PrefixOf
<1>3. ASSUME NEW data \in Seq(Alphabet), writebuf(Peer(s), data), got' # got
      PROVE  IsPrefix(got[Peer(s)], got'[Peer(s)]) /\ got'[s] = got[s] /\ got' \in [Sides -> Seq(Alphabet)]
  <2> DEFINE g == got[Peer(s)]
  <2>1. g \in Seq(Alphabet) /\ got' = [got EXCEPT ![Peer(s)] = g \o data]
    BY <1>1, <1>3 DEF writebuf
  <2>2. /\ g \o data \in Seq(Alphabet) /\ Len(g) <= Len(g \o data)
        /\ \A k \in 1..Len(g) : g[k] = (g \o data)[k]
    BY <2>1, ConcatProperties
  <2>3. IsPrefix(g, g \o data)
    BY <2>1, <2>2, PrefixOf
  <2> QED BY <1>1, <2>1, <2>2, <2>3
<1>4. ASSUME Available(s) PROVE <<Token(s)>> \in Seq(Alphabet)
  <2>1. read[s] + 1 \in 1..Len(Message(s)) /\ Message(s) \in Seq(Alphabet)
    BY <1>4, Messages DEF Types, OrderOK, GotOK, Available
  <2> QED BY <2>1 DEF Token
<1>5. buf \in Seq(Alphabet)
  BY DEF Types
<1>6. got' = got \/ writebuf(Peer(s), buf) \/ (Available(s) /\ writebuf(Peer(s), <<Token(s)>>))
  BY DEF Side, FirstLine, NoFirstLine, HeaderLine, HeaderEnd, NoBlank, Flush, ContentByte, ContentEnd,
         ContentError, Sigpipe
<1> QED BY <1>2, <1>3, <1>4, <1>5, <1>6

\* Sending extends what has been sent by one token.
LEMMA SentGrows ==
    ASSUME NEW m \in Seq(Alphabet), NEW n \in Nat, n < Len(m)
    PROVE  m[n + 1] \in Alphabet /\ SubSeq(m, 1, n + 1) = Append(SubSeq(m, 1, n), m[n + 1])
<1>1. m[n + 1] \in Alphabet /\ n + 1 <= Len(m) /\ n + 1 \in Nat /\ n <= Len(m)
  OBVIOUS
<1> DEFINE a == SubSeq(m, 1, n)  b == SubSeq(m, 1, n + 1)  c == Append(a, m[n + 1])
<1>2. a \in Seq(Alphabet) /\ Len(a) = n /\ \A k \in 1..n : a[k] = m[k]
  BY <1>1, InitialPart
<1>3. b \in Seq(Alphabet) /\ Len(b) = n + 1 /\ \A k \in 1 .. n + 1 : b[k] = m[k]
  BY <1>1, InitialPart
<1> HIDE DEF a, b
<1>4. c \in Seq(Alphabet) /\ Len(c) = n + 1 /\ c[n + 1] = m[n + 1] /\ \A k \in 1..n : c[k] = a[k]
  BY <1>1, <1>2, AppendProperties
<1> HIDE DEF c
<1>5. \A k \in 1 .. n + 1 : b[k] = c[k]
  <2> SUFFICES ASSUME NEW k \in 1 .. n + 1 PROVE b[k] = c[k]
    OBVIOUS
  <2>1. CASE k = n + 1
    BY <1>3, <1>4, <2>1
  <2>2. CASE k # n + 1
    <3>1. k \in 1..n
      BY <2>2
    <3> QED BY <1>2, <1>3, <1>4, <3>1
  <2> QED BY <2>1, <2>2
<1>6. b = c
  BY <1>3, <1>4, <1>5, SeqEqual
<1> QED BY <1>1, <1>6 DEF a, b, c

\* One connection keeps what module Pipe promises: sending is the peers',
\* every step of process() for a side delivers in that side's turn, and the
\* ends of connections, breaks and the log entry leave it as it is.
THEOREM PipeImplemented == Spec => ImplementsPipe
<1>1. Init => Promised!Init
  <2> SUFFICES ASSUME Init PROVE Promised!Init
    OBVIOUS
  <2>1. \A s \in Sides : SubSeq(Message(s), 1, sent[s]) = <<>>
    BY SubSeqEmpty DEF Init
  <2>2. \A s \in Sides : got[Peer(s)] = <<>>
    BY Peers DEF Init
  <2>3. pc[1] = "client"
    BY DEF Init
  <2> QED BY <2>1, <2>2, <2>3 DEF Promised!Init, Promised!Empty, Promised!Sides, Sides
<1>2. Inv /\ InOrder' /\ [Next]_vars => [Promised!Next]_(Promised!vars)
  <2> SUFFICES ASSUME Inv, InOrder', [Next]_vars PROVE [Promised!Next]_(Promised!vars)
    OBVIOUS
  <2> USE DEF Inv
  <2> DEFINE in == [s \in Sides |-> SubSeq(Message(s), 1, sent[s])]
             out == [s \in Sides |-> got[Peer(s)]]
  <2>1. ASSUME UNCHANGED <<req, resp, sent, got>>, pc'[1] = pc[1] PROVE UNCHANGED Promised!vars
    BY <2>1, SameMessage DEF Promised!vars
  <2>2. CASE Log
    BY <2>1, <2>2 DEF Log, Finished, envVars
  <2>3. CASE UNCHANGED vars
    BY <2>1, <2>3 DEF vars, envVars
  <2>4. ASSUME NEW s \in Sides, (\E how \in {"eof", "reset"} : Finish(s, how)) \/ Break(s)
        PROVE  UNCHANGED Promised!vars
    BY <2>1, <2>4 DEF Finish, Break
  <2>5. ASSUME NEW s \in Sides, Send(s) PROVE Promised!Send(s)
    <3>1. /\ sent[s] < Len(Message(s)) /\ sent' = [sent EXCEPT ![s] = @ + 1]
          /\ UNCHANGED <<req, resp, got, pc>>
      BY <2>5 DEF Send
    <3>2. Message(s) \in Seq(Alphabet) /\ sent \in [Sides -> Nat] /\ \A r \in Sides : Message(r)' = Message(r)
      BY <3>1, Messages, SameMessage DEF Types
    <3>3. Message(s)[sent[s] + 1] \in Alphabet
          /\ SubSeq(Message(s), 1, sent[s] + 1) = Append(SubSeq(Message(s), 1, sent[s]), Message(s)[sent[s] + 1])
      BY <3>1, <3>2, SentGrows
    <3>4. in' = [in EXCEPT ![s] = Append(@, Message(s)[sent[s] + 1])]
      BY <3>1, <3>2, <3>3
    <3>5. out' = out
      BY <3>1
    <3> QED BY <3>1, <3>3, <3>4, <3>5 DEF Promised!Send, Alphabet
  <2>6. ASSUME NEW s \in Sides, Side(s) PROVE Promised!Deliver(s)
    <3>1. pc[1] = s /\ UNCHANGED <<req, resp, sent>> /\ pc'[1] \in {s, AfterMessage(s)[1], "proxy"}
      BY <2>6, Places DEF Side, FirstLine, NoFirstLine, HeaderLine, HeaderEnd, NoBlank, Flush, ContentByte, ContentEnd,
         ContentError, Sigpipe, Leave, AfterHeader, Finished, Killed, envVars
    <3>2. IsPrefix(got[Peer(s)], got'[Peer(s)]) /\ got'[s] = got[s]
      BY <2>6, NothingTakenBack
    <3>3. IsPrefix(got'[Peer(s)], SubSeq(Message(s), 1, sent[s]))
      <4>1. Peer(s) \in Sides /\ Peer(Peer(s)) = s
        BY Peers
      <4>2. IsPrefix(got'[Peer(s)], SubSeq(Message(s)', 1, sent'[s]))
        BY <4>1 DEF InOrder
      <4> QED BY <3>1, <4>2, SameMessage
    <3>4. Promised!PassOn
      BY <3>1 DEF Promised!PassOn, AfterMessage, Sides
    <3>5. in' = in
      BY <3>1, SameMessage
    <3>6. in[s] = SubSeq(Message(s), 1, sent[s]) /\ out[s] = got[Peer(s)] /\ out'[s] = got'[Peer(s)]
      OBVIOUS
    <3>7. \A r \in Sides \ {s} : out'[r] = out[r]
      BY <3>2, Peers
    <3> QED BY <3>1, <3>2, <3>3, <3>4, <3>5, <3>6, <3>7 DEF Promised!Deliver, Promised!IsPrefix, IsPrefix, Promised!Sides, Sides
  <2> QED BY <2>2, <2>3, <2>4, <2>5, <2>6 DEF Next, process, Environment, Promised!Next, Promised!Sides, Sides
<1> QED BY <1>1, <1>2, Invariance, TokensInOrder, PTL DEF Spec, ImplementsPipe, Promised!Spec
=============================================================================
