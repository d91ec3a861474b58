------------------------- MODULE RelayRequestProofs -------------------------
(***************************************************************************)
(* That nothing is dropped of what a polite client writes while its worker *)
(* connects, and in which order targets receive the pieces that clients    *)
(* write, for any pieces, clients, connections, lengths of answers and     *)
(* buffer sizes.                                                           *)
(*                                                                         *)
(* Pieces on their way to a target, and answers whose end is still to      *)
(* come, are counted: for a polite client there is at most one of them,    *)
(* wherever it is, and none when the client may write the next piece.      *)
(*                                                                         *)
(* A piece is numbered when it is written. The queues between a client and *)
(* a target hold rising numbers, each below all that is read later, but    *)
(* for the stored message of a connection: the worker sends it while the   *)
(* event loop may forward what was read after it.                          *)
(***************************************************************************)
EXTENDS RelayProofs

(* With this response the client has been answered in full (ClientReads).  *)
Ends(r) == r.n % Answer = 0

Quiet(q) == \A i \in DOMAIN q : ~Ends(q[i])

Single(q) == \A i, j \in DOMAIN q : Ends(q[i]) /\ Ends(q[j]) => i = j

(* A worker that was started and has not connected yet.                    *)
Starting == wpc \in {"begin", "connect"}

(* The stored message before it is sent, and while it is.                  *)
Connecting == IF Starting /\ map_client # NoClient THEN map_client.msg ELSE <<>>
Requested  == IF wpc = "request" THEN out ELSE <<>>

One(b) == IF b THEN 1 ELSE 0

(* What was written and is not answered yet: the pieces on their way to a  *)
(* target, and where the end of an answer is still to come from.           *)
Pieces  == Len(fromClient) + Len(msg) + Len(Connecting) + Len(Requested) + Len(toTarget)
Answers == One(owed > 0) + One(~Quiet(fromTarget)) + One(~Quiet(Relayed)) + One(~Quiet(toClient))

InFlight == Pieces + Answers

(* A polite client has at most one piece in flight, and none when it may   *)
(* write the next.                                                         *)
OneAtATime ==
    polite =>
        /\ InFlight <= 1
        /\ peer /\ waiting = "nothing" => InFlight = 0
        /\ Single(fromTarget) /\ Single(Relayed) /\ Single(toClient)

(* A target owes what is missing to the end of an answer.                  *)
Owing ==
    /\ ~target => owed = 0 /\ toTarget = <<>>
    /\ owed = 0 /\ target => said % Answer = 0
    /\ owed > 0 => owed <= Answer /\ said % Answer = Answer - owed

(* The flag says whether the worker is still connecting, once it has set   *)
(* it; and the event loop holds a chunk exactly where it answers or        *)
(* forwards one, or is about to store it.                                  *)
FlagAndChunk ==
    /\ map_client # NoClient =>
        /\ map_client.flag = MAP_CREATE_THREAD <=> wpc = "connect"
        /\ map_client.flag = 0 => wpc = "begin"
        /\ wpc = "begin" => map_client.flag \in {0, MAP_RECONNECT}
    /\ msg # <<>> <=> epc \in {"restart", "reply", "forward"}

(* Of a closed descriptor nothing is left to read.                         *)
NothingLeft ==
    /\ fd = 0 => fromClient = <<>>
    /\ waiting # "nothing" => peer

HeardInv == ReplyInv /\ NothingLeft /\ FlagAndChunk /\ Owing /\ OneAtATime
----------------------------------------------------------------------------
(* Ends of answers in a queue, when one is appended, taken or cut off.     *)
LEMMA QuietEmpty == Quiet(<<>>) /\ Single(<<>>)
BY DEF Quiet, Single

(* Appending a response.                                                   *)
LEMMA QuietAppend ==
    ASSUME NEW q \in Seq(Response), NEW e \in Response
    PROVE  /\ Quiet(Append(q, e)) <=> Quiet(q) /\ ~Ends(e)
           /\ Single(q) /\ (Quiet(q) \/ ~Ends(e)) => Single(Append(q, e))
<1> DEFINE a == Append(q, e)
<1>1. Len(q) \in Nat /\ DOMAIN q = 1..Len(q)
    BY LenProperties
<1>2. /\ DOMAIN a = 1..(Len(q) + 1)
      /\ \A i \in 1..Len(q) : a[i] = q[i]
      /\ a[Len(q) + 1] = e
    BY AppendProperties, LenProperties
<1>3. Quiet(a) <=> Quiet(q) /\ ~Ends(e)
    <2>1. Quiet(a) => Quiet(q) /\ ~Ends(e)
        BY <1>1, <1>2 DEF Quiet
    <2>2. Quiet(q) /\ ~Ends(e) => Quiet(a)
        BY <1>1, <1>2 DEF Quiet
    <2> QED
        BY <2>1, <2>2
<1>4. ASSUME Single(q), Quiet(q) \/ ~Ends(e)
      PROVE  Single(a)
    <2> SUFFICES ASSUME NEW i \in DOMAIN a, NEW j \in DOMAIN a, Ends(a[i]), Ends(a[j])
                 PROVE  i = j
        BY DEF Single
    <2>1. CASE i \in DOMAIN q /\ j \in DOMAIN q
        BY <1>1, <1>2, <1>4, <2>1 DEF Single
    <2>2. CASE i \notin DOMAIN q \/ j \notin DOMAIN q
        BY <1>1, <1>2, <1>4, <2>2 DEF Quiet
    <2> QED
        BY <2>1, <2>2
<1> QED
    BY <1>3, <1>4

(* Taking the first.                                                       *)
LEMMA QuietTake ==
    ASSUME NEW q \in Seq(Response), q # <<>>
    PROVE  /\ Quiet(q) <=> ~Ends(Head(q)) /\ Quiet(Tail(q))
           /\ Single(q) => Single(Tail(q)) /\ (Ends(Head(q)) => Quiet(Tail(q)))
<1> DEFINE t == Tail(q)
<1>1. /\ Len(q) \in Nat /\ DOMAIN q = 1..Len(q) /\ Len(q) > 0 /\ Head(q) = q[1]
      /\ DOMAIN t = 1..(Len(q) - 1)
    BY HeadTailProperties, LenProperties, EmptySeq
<1>2. \A i \in 1..(Len(q) - 1) : t[i] = q[i + 1]
    BY <1>1, HeadTailProperties
<1>3. Quiet(q) => ~Ends(Head(q)) /\ Quiet(t)
    BY <1>1, <1>2 DEF Quiet
<1>4. ASSUME ~Ends(Head(q)), Quiet(t) PROVE Quiet(q)
    <2> SUFFICES ASSUME NEW i \in DOMAIN q, i # 1 PROVE ~Ends(q[i])
        BY <1>1, <1>4 DEF Quiet
    <2>1. i - 1 \in DOMAIN t /\ t[i - 1] = q[i]
        BY <1>1, <1>2
    <2> QED
        BY <1>4, <2>1 DEF Quiet
<1>5. ASSUME Single(q) PROVE Single(t) /\ (Ends(Head(q)) => Quiet(t))
    <2>1. ASSUME NEW i \in DOMAIN t, NEW j \in DOMAIN t, Ends(t[i]), Ends(t[j]) PROVE i = j
        <3>1. i + 1 \in DOMAIN q /\ j + 1 \in DOMAIN q /\ t[i] = q[i + 1] /\ t[j] = q[j + 1]
            BY <1>1, <1>2
        <3>2. i + 1 = j + 1
            BY <1>5, <2>1, <3>1 DEF Single
        <3> QED
            BY <1>1, <3>2
    <2>2. ASSUME Ends(Head(q)), NEW i \in DOMAIN t PROVE ~Ends(t[i])
        <3>1. i + 1 \in DOMAIN q /\ 1 \in DOMAIN q /\ i + 1 # 1 /\ t[i] = q[i + 1]
            BY <1>1, <1>2
        <3> QED
            BY <1>1, <1>5, <2>2, <3>1 DEF Single
    <2> QED
        BY <2>1, <2>2 DEF Single, Quiet
<1> QED
    BY <1>3, <1>4, <1>5

(* Taking several.                                                         *)
LEMMA QuietCut ==
    ASSUME NEW q \in Seq(Response), NEW n \in Nat, 1 <= n, n <= Len(q)
    PROVE  LET first == SubSeq(q, 1, n)
               rest  == SubSeq(q, n + 1, Len(q)) IN
           /\ Quiet(q) => Quiet(first) /\ Quiet(rest)
           /\ Single(q) => Single(first) /\ Single(rest) /\ (Quiet(first) \/ Quiet(rest))
<1> DEFINE first == SubSeq(q, 1, n)
           rest  == SubSeq(q, n + 1, Len(q))
<1>1. Len(q) \in Nat /\ DOMAIN q = 1..Len(q)
    BY LenProperties
<1>2. DOMAIN first = 1..n /\ \A i \in 1..n : first[i] = q[i]
    BY <1>1
<1>3. DOMAIN rest = 1..(Len(q) - n) /\ \A i \in 1..(Len(q) - n) : rest[i] = q[i + n]
    BY <1>1
<1>4. /\ \A i \in DOMAIN first : i \in DOMAIN q /\ first[i] = q[i]
      /\ \A i \in DOMAIN rest : i + n \in DOMAIN q /\ rest[i] = q[i + n]
    BY <1>1, <1>2, <1>3
<1> HIDE DEF first, rest
<1>5. Quiet(q) => Quiet(first) /\ Quiet(rest)
    BY <1>4 DEF Quiet
<1>6. ASSUME Single(q) PROVE Single(first) /\ Single(rest) /\ (Quiet(first) \/ Quiet(rest))
    <2>1. Single(first)
        BY <1>4, <1>6 DEF Single
    <2>2. ASSUME NEW i \in DOMAIN rest, NEW j \in DOMAIN rest, Ends(rest[i]), Ends(rest[j]) PROVE i = j
        <3>1. i + n = j + n
            BY <1>4, <1>6, <2>2 DEF Single
        <3> QED
            BY <1>1, <1>3, <3>1
    <2>3. ASSUME NEW i \in DOMAIN first, NEW j \in DOMAIN rest, Ends(first[i]), Ends(rest[j]) PROVE FALSE
        <3>1. i = j + n
            BY <1>4, <1>6, <2>3 DEF Single
        <3> QED
            BY <1>1, <1>2, <1>3, <3>1
    <2> QED
        BY <2>1, <2>2, <2>3 DEF Single, Quiet
<1> QED
    BY <1>5, <1>6 DEF first, rest

(* Counting up to the end of an answer.                                    *)
LEMMA Multiples ==
    ASSUME NEW a \in Nat, NEW k \in Nat, NEW l \in Nat, k < l
    PROVE  a * k + a <= a * l
<1>1. PICK d \in Nat : l = k + 1 + d
    <2>1. l - k - 1 \in Nat /\ l = k + 1 + (l - k - 1)
        OBVIOUS
    <2> QED
        BY <2>1
<1>2. a * l = a * k + a + a * d
    BY <1>1
<1>3. a * d \in Nat /\ a * k \in Nat
    OBVIOUS
<1> QED
    BY <1>2, <1>3

(* A remainder is known by its quotient.                                   *)
LEMMA Remainder ==
    ASSUME NEW a \in Nat, a > 0, NEW k \in Nat, NEW r \in Nat, r < a, NEW s \in Nat, s = a * k + r
    PROVE  s % a = r
<1> DEFINE l == s \div a
           m == s % a
<1>1. l \in Nat /\ m \in Nat /\ m < a /\ s = a * l + m
    OBVIOUS
<1> HIDE DEF l, m
<1>2. a * k \in Nat /\ a * l \in Nat
    BY <1>1
<1>3. ASSUME k < l PROVE FALSE
    <2>1. a * k + a <= a * l
        BY <1>1, <1>3, Multiples
    <2> QED
        BY <1>1, <1>2, <2>1
<1>4. ASSUME l < k PROVE FALSE
    <2>1. a * l + a <= a * k
        BY <1>1, <1>4, Multiples
    <2> QED
        BY <1>1, <1>2, <2>1
<1>5. k = l
    BY <1>1, <1>3, <1>4
<1>6. m = r
    BY <1>1, <1>2, <1>5
<1> QED
    BY <1>6 DEF m

(* Every Answer-th reply ends an answer.                                   *)
LEMMA NextInAnswer ==
    ASSUME NEW s \in Nat
    PROVE  /\ s % Answer \in 0..(Answer - 1)
           /\ (s + 1) % Answer = IF s % Answer = Answer - 1 THEN 0 ELSE (s % Answer) + 1
           /\ 0 % Answer = 0
<1>1. Answer \in Nat /\ Answer > 0
    BY RelayAssumption
<1> DEFINE k == s \div Answer
           r == s % Answer
<1>2. k \in Nat /\ r \in Nat /\ r < Answer /\ s = Answer * k + r /\ Answer * k \in Nat
    BY <1>1
<1> HIDE DEF k, r
<1>3. ASSUME r = Answer - 1 PROVE (s + 1) % Answer = 0
    <2>1. Answer * (k + 1) = Answer * k + Answer
        BY <1>1, <1>2
    <2>2. s + 1 = Answer * (k + 1) + 0 /\ k + 1 \in Nat /\ s + 1 \in Nat
        BY <1>1, <1>2, <1>3, <2>1
    <2> QED
        BY <1>1, <2>2, Remainder
<1>4. ASSUME r # Answer - 1 PROVE (s + 1) % Answer = r + 1
    <2>1. s + 1 = Answer * k + (r + 1) /\ r + 1 \in Nat /\ r + 1 < Answer /\ s + 1 \in Nat
        BY <1>1, <1>2, <1>4
    <2> QED
        BY <1>1, <1>2, <2>1, Remainder
<1>5. 0 % Answer = 0
    BY <1>1
<1>6. s % Answer \in 0..(Answer - 1)
    BY <1>1
<1> QED
    BY <1>3, <1>4, <1>5, <1>6 DEF r

(* So does a 200; and what answers a client ends an answer.                *)
LEMMA EstablishedEnds ==
    /\ Established \in Response /\ Ends(Established)
    /\ \A r \in Response : IsAnswer(r) => Ends(r)
BY NextInAnswer DEF Established, Response, NoConn, Ends, IsAnswer

----------------------------------------------------------------------------
(* Lengths of queues.                                                      *)
LEMMA Lengths ==
    ASSUME NEW S
    PROVE  \A q \in Seq(S) :
                /\ Len(q) \in Nat /\ (Len(q) = 0 <=> q = <<>>)
                /\ \A e \in S : Len(Append(q, e)) = Len(q) + 1
                /\ q # <<>> => Tail(q) \in Seq(S) /\ Len(Tail(q)) = Len(q) - 1 /\ Len(q) >= 1
<1> SUFFICES ASSUME NEW q \in Seq(S)
             PROVE  /\ Len(q) \in Nat /\ (Len(q) = 0 <=> q = <<>>)
                    /\ \A e \in S : Len(Append(q, e)) = Len(q) + 1
                    /\ q # <<>> => Tail(q) \in Seq(S) /\ Len(Tail(q)) = Len(q) - 1 /\ Len(q) >= 1
    OBVIOUS
<1>1. Len(q) \in Nat /\ (Len(q) = 0 <=> q = <<>>)
    BY LenProperties, EmptySeq
<1>2. \A e \in S : Len(Append(q, e)) = Len(q) + 1
    BY AppendProperties
<1>3. q # <<>> => Tail(q) \in Seq(S) /\ Len(Tail(q)) = Len(q) - 1
    BY HeadTailProperties
<1> QED
    BY <1>1, <1>2, <1>3

(* The pieces on their way to a target are counted.                        *)
LEMMA PiecesType ==
    ASSUME ReplyInv
    PROVE  /\ fromClient \in Seq(Piece) /\ msg \in Seq(Piece) /\ toTarget \in Seq(Piece)
           /\ Connecting \in Seq(Piece) /\ Requested \in Seq(Piece)
           /\ Starting /\ map_client # NoClient => map_client \in MapClient /\ Connecting # <<>>
           /\ ~Starting => Connecting = <<>>
           /\ wpc # "request" => Requested = <<>>
           /\ wpc # "relay" => Relayed = <<>>
<1> USE DEF ReplyInv, RelayInv, TypeOK
<1>1. fromClient \in Seq(Piece) /\ msg \in Seq(Piece) /\ toTarget \in Seq(Piece)
    BY DEF ClientSocketType, LoopType, RemoteType
<1>2. Starting /\ map_client # NoClient => map_client \in MapClient
    BY DEF LoopType
<1>3. Starting /\ map_client # NoClient => Connecting \in Seq(Piece) /\ Connecting # <<>>
    BY <1>2 DEF Connecting, MapClient, Sending
<1>4. Requested \in Seq(Piece)
    BY DEF Requested, WorkerType
<1>5. Connecting \in Seq(Piece)
    BY <1>3 DEF Connecting
<1> QED
    BY <1>1, <1>2, <1>3, <1>4, <1>5 DEF Connecting, Requested, Relayed

(* The lengths that are counted are numbers.                               *)
LEMMA CountType ==
    ASSUME ReplyInv
    PROVE  /\ Len(fromClient) \in Nat /\ Len(msg) \in Nat /\ Len(toTarget) \in Nat
           /\ Len(Connecting) \in Nat /\ Len(Requested) \in Nat /\ Len(<<>>) = 0
           /\ Pieces \in Nat /\ Answers \in Nat /\ InFlight \in Nat
           /\ fromClient # <<>> => Len(fromClient) >= 1
           /\ msg # <<>> => Len(msg) >= 1
           /\ toTarget # <<>> => Len(toTarget) >= 1
           /\ Starting /\ map_client # NoClient => Len(Connecting) >= 1
BY PiecesType, Lengths DEF Pieces, Answers, InFlight, One

(* recv takes n pieces from the client's socket.                           *)
LEMMA RecvCounts ==
    ASSUME ReplyInv, NEW n \in 1..MaxChunk, Recv(n)
    PROVE  /\ n \in Nat /\ n >= 1 /\ n <= Len(fromClient) /\ Len(fromClient') = Len(fromClient) - n
           /\ Chunk(n) \in Seq(Piece) /\ Len(Chunk(n)) = n /\ Chunk(n) # <<>>
           /\ fromClient = <<>> => fromClient' = <<>>
           /\ UNCHANGED <<peer, polite, waiting, toClient, fromTarget, toTarget, owed>>
<1>1. fromClient \in Seq(Piece) /\ n \in Nat /\ 1 <= n /\ n <= Len(fromClient)
    BY PiecesType, RelayAssumption DEF Recv
<1>2. Len(Chunk(n)) = n /\ Chunk(n) \in Seq(Piece)
    BY <1>1 DEF Chunk
<1>3. Len(fromClient') = Len(fromClient) - n
    BY <1>1 DEF Recv
<1> QED
    BY <1>1, <1>2, <1>3 DEF Recv, client, remote

(* Answers that nobody touches.                                            *)
LEMMA SameAnswers ==
    ASSUME ReplyInv, UNCHANGED <<owed, fromTarget, toClient>>, Relayed' = Relayed
    PROVE  /\ Answers' = Answers
           /\ Single(fromTarget)' <=> Single(fromTarget)
           /\ Single(Relayed)' <=> Single(Relayed)
           /\ Single(toClient)' <=> Single(toClient)
BY DEF Answers, Quiet, Single
----------------------------------------------------------------------------
(* A piece is written when nothing is in flight.                           *)
LEMMA WriteIsOne ==
    ASSUME HeardInv, ClientWrites
    PROVE  OneAtATime'
<1> USE DEF HeardInv, client, clientSocket, loop, worker, remote
<1>1. \E e \in Piece : fromClient' = Append(fromClient, e)
    BY RelayAssumption
    DEF ClientWrites, ReplyInv, RelayInv, TypeOK, ClientType, Piece, TargetNames
<1>2. Len(fromClient') = Len(fromClient) + 1
    BY <1>1, PiecesType, Lengths
<1>3. Relayed' = Relayed /\ Connecting' = Connecting /\ Requested' = Requested
    BY DEF ClientWrites, Relayed, Connecting, Starting, Requested
<1>4. /\ UNCHANGED <<msg, toTarget, peer, polite, owed, fromTarget, toClient>>
      /\ peer /\ (polite => waiting' # "nothing")
    BY DEF ClientWrites, Awaited
<1>5. Pieces' = Pieces + 1
    BY <1>2, <1>3, <1>4, CountType DEF Pieces
<1>6. polite => waiting = "nothing"
    BY DEF ClientWrites
<1> QED
    BY <1>3, <1>4, <1>5, <1>6, SameAnswers, CountType DEF OneAtATime, InFlight

(* With the end of its answer a client may write again.                    *)
LEMMA ReadIsOne ==
    ASSUME HeardInv, ClientReads
    PROVE  OneAtATime'
<1> USE DEF HeardInv, client, clientSocket, loop, worker, remote
<1>1. toClient \in Seq(Response) /\ toClient # <<>> /\ toClient' = Tail(toClient)
    BY PlacesType DEF ReplyInv, ClientReads
<1>2. Relayed' = Relayed /\ Connecting' = Connecting /\ Requested' = Requested
    BY DEF ClientReads, Relayed, Connecting, Starting, Requested
<1>3. UNCHANGED <<fromClient, msg, toTarget, peer, polite, owed, fromTarget>>
    BY DEF ClientReads
<1>4. Pieces' = Pieces
    BY <1>2, <1>3 DEF Pieces
<1>5. waiting' = "nothing" => waiting = "nothing" \/ Ends(Head(toClient))
    <2>1. Head(toClient) \in Response
        BY <1>1, Queues
    <2> QED
        BY <2>1, EstablishedEnds DEF ClientReads
<1>6. /\ Quiet(toClient) <=> ~Ends(Head(toClient)) /\ Quiet(toClient')
      /\ Single(toClient) => Single(toClient') /\ (Ends(Head(toClient)) => Quiet(toClient'))
    BY <1>1, QuietTake
<1>7. /\ Quiet(fromTarget)' <=> Quiet(fromTarget)
      /\ Quiet(Relayed)' <=> Quiet(Relayed)
      /\ Single(fromTarget)' <=> Single(fromTarget)
      /\ Single(Relayed)' <=> Single(Relayed)
    BY <1>2, <1>3
<1>8. CASE Ends(Head(toClient))
    <2>1. Single(toClient) => Answers' = Answers - 1 /\ Answers >= 1
        BY <1>3, <1>6, <1>7, <1>8 DEF Answers, One
    <2> QED
        BY <1>3, <1>4, <1>5, <1>6, <1>7, <1>8, <2>1, CountType DEF OneAtATime, InFlight
<1>9. CASE ~Ends(Head(toClient))
    <2>1. Answers' = Answers
        BY <1>3, <1>6, <1>7, <1>9 DEF Answers, One
    <2> QED
        BY <1>3, <1>4, <1>5, <1>6, <1>7, <1>9, <2>1, CountType DEF OneAtATime, InFlight
<1> QED
    BY <1>8, <1>9

(* What was on its way to a client that closes, or is closed, is lost; so  *)
(* is what was on its way to a target that closes, and what a stopped      *)
(* worker held.                                                            *)
LEMMA NoMoreIsOne ==
    ASSUME HeardInv, NEW f \in Nat, InFlight' = f, f <= InFlight, polite' = polite,
           peer' /\ waiting' = "nothing" => peer /\ waiting = "nothing",
           polite => Single(fromTarget') /\ Single(Relayed') /\ Single(toClient')
    PROVE  OneAtATime'
BY CountType DEF HeardInv, OneAtATime

(* Fewer in flight are still at most one.                                  *)
LEMMA FewerIsOne ==
    ASSUME HeardInv, polite' = polite, Pieces' \in Nat, Answers' \in Nat,
           Pieces' <= Pieces, Answers' <= Answers,
           peer' /\ waiting' = "nothing" => peer /\ waiting = "nothing",
           Single(fromTarget) => Single(fromTarget'),
           Single(Relayed) => Single(Relayed'),
           Single(toClient) => Single(toClient')
    PROVE  OneAtATime'
<1>1. PICK p \in Nat : Pieces' = p
    OBVIOUS
<1>2. PICK a \in Nat : Answers' = a
    OBVIOUS
<1>3. Pieces \in Nat /\ Answers \in Nat /\ p <= Pieces /\ a <= Answers
    BY <1>1, <1>2, CountType DEF HeardInv
<1>4. InFlight' = p + a /\ p + a \in Nat /\ p + a <= InFlight
    BY <1>1, <1>2, <1>3 DEF InFlight
<1> QED
    BY <1>4, NoMoreIsOne DEF HeardInv, OneAtATime

(* A client that closed, or whose socket was closed, writes no more.       *)
LEMMA CloseIsOne ==
    ASSUME HeardInv, ClientCloses \/ CloseClient
    PROVE  OneAtATime'
<1> USE DEF HeardInv, client, clientSocket, loop, worker, remote
<1>1. /\ Relayed' = Relayed /\ Connecting' = Connecting /\ Requested' = Requested
      /\ UNCHANGED <<toTarget, polite, owed, fromTarget>> /\ ~peer' /\ toClient' = <<>>
    BY DEF ClientCloses, CloseClient, Relayed, Connecting, Starting, Requested
<1>2. msg' = msg \/ msg' = <<>>
    BY DEF ClientCloses, CloseClient, ELGoto
<1>3. fromClient' = fromClient \/ fromClient' = <<>>
    BY DEF ClientCloses, CloseClient
<1>4. Pieces' \in Nat /\ Pieces' <= Pieces
    BY <1>1, <1>2, <1>3, CountType DEF Pieces
<1>5. Quiet(toClient)' /\ Single(toClient)'
    BY <1>1, QuietEmpty
<1>6. /\ Quiet(fromTarget)' <=> Quiet(fromTarget)
      /\ Quiet(Relayed)' <=> Quiet(Relayed)
      /\ Single(fromTarget)' <=> Single(fromTarget)
      /\ Single(Relayed)' <=> Single(Relayed)
    BY <1>1
<1>7. Answers' \in Nat /\ Answers' <= Answers
    BY <1>1, <1>5, <1>6 DEF Answers, One
<1> QED
    BY <1>1, <1>4, <1>5, <1>6, <1>7, FewerIsOne

(* The teardown takes what the session had in flight.                      *)
LEMMA StopIsOne ==
    ASSUME HeardInv, StopWorker
    PROVE  OneAtATime'
<1> USE DEF HeardInv, client, clientSocket, loop, worker, remote
<1>1. /\ Relayed' = <<>> /\ Connecting' = <<>> /\ Requested' = <<>> /\ msg' = <<>>
      /\ toTarget' = <<>> /\ owed' = 0 /\ fromTarget' = <<>>
      /\ UNCHANGED <<fromClient, polite, peer, waiting, toClient>>
    BY DEF StopWorker, ELGoto, Relayed, Connecting, Starting, Requested
<1>2. Pieces' \in Nat /\ Pieces' <= Pieces
    BY <1>1, CountType DEF Pieces
<1>3. Quiet(fromTarget)' /\ Single(fromTarget)' /\ Quiet(Relayed)' /\ Single(Relayed)'
    BY <1>1, QuietEmpty
<1>4. (Quiet(toClient)' <=> Quiet(toClient)) /\ (Single(toClient)' <=> Single(toClient))
    BY <1>1
<1>5. Answers' \in Nat /\ Answers' <= Answers
    BY <1>1, <1>3, <1>4 DEF Answers, One
<1> QED
    BY <1>1, <1>2, <1>3, <1>4, <1>5, FewerIsOne

(* So does a target that closes.                                           *)
LEMMA TargetCloseIsOne ==
    ASSUME HeardInv, TargetCloses
    PROVE  OneAtATime'
<1> USE DEF HeardInv, client, clientSocket, loop, worker, remote
<1>1. /\ Relayed' = Relayed /\ Connecting' = Connecting /\ Requested' = Requested
      /\ UNCHANGED <<fromClient, msg, polite, peer, waiting, toClient>>
      /\ toTarget' = <<>> /\ owed' = 0
    BY DEF TargetCloses, Relayed, Connecting, Starting, Requested
<1>2. Pieces' \in Nat /\ Pieces' <= Pieces
    BY <1>1, CountType DEF Pieces
<1>3. /\ Quiet(fromTarget) => Quiet(fromTarget')
      /\ Single(fromTarget) => Single(fromTarget')
    BY QuietEmpty DEF TargetCloses
<1>4. /\ Quiet(toClient)' <=> Quiet(toClient)
      /\ Quiet(Relayed)' <=> Quiet(Relayed)
      /\ Single(toClient)' <=> Single(toClient)
      /\ Single(Relayed)' <=> Single(Relayed)
    BY <1>1
<1>5. Answers' \in Nat /\ Answers' <= Answers
    BY <1>1, <1>3, <1>4 DEF Answers, One
<1> QED
    BY <1>1, <1>2, <1>3, <1>4, <1>5, FewerIsOne

(* A new client finds nothing in flight.                                   *)
LEMMA AcceptIsOne ==
    ASSUME HeardInv, ~overtaken, Accept
    PROVE  OneAtATime'
<1> USE DEF HeardInv, client, clientSocket, loop, worker, remote
<1>1. /\ toClient = <<>> /\ wpc = "none" /\ fromTarget = <<>> /\ ~target
      /\ fromClient = <<>> /\ msg = <<>> /\ toTarget = <<>> /\ owed = 0
    BY DEF ReplyInv, RelayInv, Closed, NothingLeft, FlagAndChunk, Owing, Accept
<1>2. /\ Relayed' = <<>> /\ Connecting' = <<>> /\ Requested' = <<>> /\ polite' = polite
      /\ fromClient' = <<>> /\ msg' = <<>> /\ toTarget' = <<>>
      /\ owed' = 0 /\ fromTarget' = <<>> /\ toClient' = <<>>
    BY <1>1 DEF Accept, Relayed, Connecting, Starting, Requested
<1>3. Pieces' = 0
    BY <1>2, CountType DEF Pieces
<1>4. /\ Quiet(fromTarget)' /\ Quiet(Relayed)' /\ Quiet(toClient)'
      /\ Single(fromTarget)' /\ Single(Relayed)' /\ Single(toClient)'
    BY <1>2, QuietEmpty
<1>5. Answers' = 0
    BY <1>2, <1>4 DEF Answers, One
<1> QED
    BY <1>2, <1>3, <1>4, <1>5 DEF OneAtATime, InFlight

(* A chunk that the event loop reads is dropped, stored or kept to be      *)
(* answered or forwarded.                                                  *)
LEMMA RecvIsOne ==
    ASSUME HeardInv, ~overtaken, NEW n \in 1..MaxChunk,
           \/ Ignore(n) \/ Refuse(n) \/ Insert(n) \/ Process(n)
           \/ DropWhileConnecting(n) \/ Reconnect(n) \/ GiveUp(n)
    PROVE  OneAtATime'
<1> USE DEF HeardInv, client, loop, worker, remote
<1>1. Recv(n)
    BY DEF Ignore, Refuse, Insert, Process, DropWhileConnecting, Reconnect, GiveUp
<1>2. /\ n \in Nat /\ n >= 1 /\ n <= Len(fromClient) /\ Len(fromClient') = Len(fromClient) - n
      /\ Len(Chunk(n)) = n
      /\ UNCHANGED <<peer, polite, waiting, toClient, fromTarget, toTarget, owed>>
    BY <1>1, RecvCounts
<1>3. msg = <<>>
    BY <1>1 DEF FlagAndChunk, Recv
<1>4. /\ Relayed' = Relayed
      /\ Len(msg') + Len(Connecting') + Len(Requested') <= n + Len(Connecting) + Len(Requested)
      /\ \E k \in Nat : Len(msg') + Len(Connecting') + Len(Requested') = k
    <2>1. CASE Ignore(n) \/ DropWhileConnecting(n)
        <3>1. msg' = <<>> /\ Relayed' = Relayed /\ Connecting' = Connecting /\ Requested' = Requested
            BY <2>1, <1>3 DEF Ignore, DropWhileConnecting, Relayed, Connecting, Starting, Requested
        <3> QED
            BY <1>2, <3>1, CountType
    <2>2. CASE Refuse(n) \/ GiveUp(n)
        <3>1. msg' = <<>> /\ Relayed' = Relayed /\ Connecting' = Connecting /\ Requested' = Requested
            BY <2>2 DEF Refuse, GiveUp, ELGoto, Relayed, Connecting, Starting, Requested
        <3> QED
            BY <1>2, <3>1, CountType
    <2>3. CASE Process(n) \/ Reconnect(n)
        <3>1. msg' = Chunk(n) /\ Relayed' = Relayed /\ Connecting' = Connecting /\ Requested' = Requested
            BY <2>3 DEF Process, Reconnect, ELGoto, Relayed, Connecting, Starting, Requested
        <3> QED
            BY <1>2, <3>1, CountType
    <2>4. CASE Insert(n)
        <3>1. wpc = "none" /\ wpc' = "begin" /\ msg' = msg
            BY <2>4 DEF Insert, ReplyInv, WorkerHasRecord
        <3>2. map_client' # NoClient /\ map_client'.msg = Chunk(n)
            BY <2>4, InsertedRecord DEF ReplyInv, RelayInv, TypeOK
        <3>3. /\ Connecting = <<>> /\ Requested = <<>> /\ Relayed = <<>>
              /\ Connecting' = Chunk(n) /\ Requested' = <<>> /\ Relayed' = <<>> /\ msg' = <<>>
            BY <1>3, <3>1, <3>2 DEF Connecting, Starting, Requested, Relayed
        <3> QED
            BY <1>2, <3>3, CountType
    <2> QED
        BY <2>1, <2>2, <2>3, <2>4
<1>5. Pieces' \in Nat /\ Pieces' <= Pieces
    <2>1. PICK k \in Nat : Len(msg') + Len(Connecting') + Len(Requested') = k
        BY <1>4
    <2>2. k <= n + Len(Connecting) + Len(Requested)
        BY <1>4, <2>1
    <2>3. Pieces' = Len(fromClient) - n + k + Len(toTarget)
        BY <1>2, <2>1, CountType DEF Pieces
    <2> QED
        BY <1>2, <1>3, <2>2, <2>3, CountType DEF Pieces
<1> QED
    BY <1>2, <1>4, <1>5, SameAnswers, CountType, FewerIsOne

(* The chunk that was read for a restart becomes the stored message.       *)
LEMMA RestartIsOne ==
    ASSUME HeardInv, Restart
    PROVE  OneAtATime'
<1> USE DEF HeardInv, client, clientSocket, loop, worker, remote
<1>1. map_client' # NoClient /\ map_client'.msg = msg
    BY ChangedRecord DEF ReplyInv, RelayInv
<1>2. /\ UNCHANGED <<fromClient, toClient, toTarget, polite, peer, waiting, owed, fromTarget>>
      /\ wpc = "none" /\ wpc' = "begin" /\ msg' = <<>>
    BY DEF Restart, InTime, ELGoto
<1>3. /\ Connecting = <<>> /\ Requested = <<>> /\ Relayed = <<>>
      /\ Connecting' = msg /\ Requested' = <<>> /\ Relayed' = <<>>
    BY <1>1, <1>2 DEF Connecting, Starting, Requested, Relayed
<1>4. Pieces' = Pieces
    BY <1>2, <1>3, CountType DEF Pieces
<1> QED
    BY <1>2, <1>3, <1>4, SameAnswers, CountType, FewerIsOne

(* The chunk of a CONNECT becomes one answer.                              *)
LEMMA EstablishedIsOne ==
    ASSUME HeardInv, ReplyEstablished
    PROVE  OneAtATime'
<1> USE DEF HeardInv, client, clientSocket, loop, worker, remote
<1>1. /\ Relayed' = Relayed /\ Connecting' = Connecting /\ Requested' = Requested
      /\ msg' = <<>> /\ Len(msg) >= 1
      /\ UNCHANGED <<fromClient, toTarget, polite, peer, waiting, owed, fromTarget>>
    BY CountType DEF ReplyEstablished, ELGoto, FlagAndChunk, Relayed, Connecting, Starting, Requested
<1>2. Pieces' \in Nat /\ Pieces' <= Pieces - 1
    BY <1>1, CountType DEF Pieces
<1>3. toClient \in Seq(Response)
    BY PlacesType DEF ReplyInv
<1>4. CASE toClient' = toClient
    <2>1. Pieces' <= Pieces
        BY <1>2, CountType
    <2> QED
        BY <1>1, <1>2, <1>4, <2>1, SameAnswers, CountType, FewerIsOne
<1>5. CASE toClient' = Append(toClient, Established)
    <2>1. polite => Answers = 0 /\ Pieces = 1
        BY <1>1, CountType DEF OneAtATime, InFlight, Pieces
    <2>2. polite => Quiet(toClient)
        BY <2>1 DEF Answers, One
    <2>3. polite => Single(toClient')
        BY <1>3, <1>5, <2>2, QuietAppend, EstablishedEnds DEF OneAtATime
    <2>4. /\ Quiet(fromTarget)' <=> Quiet(fromTarget)
          /\ Quiet(Relayed)' <=> Quiet(Relayed)
          /\ Single(fromTarget)' <=> Single(fromTarget)
          /\ Single(Relayed)' <=> Single(Relayed)
        BY <1>1
    <2>5. Answers' \in Nat /\ Answers' <= Answers + 1
        BY <1>1, <2>4 DEF Answers, One
    <2>6. PICK p \in Nat : Pieces' = p
        BY <1>2
    <2>7. PICK a \in Nat : Answers' = a
        BY <2>5
    <2>8. p + a \in Nat /\ InFlight' = p + a /\ p + a <= InFlight
        BY <1>2, <2>5, <2>6, <2>7, CountType DEF InFlight
    <2> QED
        BY <1>1, <2>3, <2>4, <2>8, NoMoreIsOne DEF OneAtATime
<1> QED
    BY <1>4, <1>5 DEF ReplyEstablished, SendToClient, tf_send

(* A forwarded piece moves on or is lost.                                  *)
LEMMA ForwardIsOne ==
    ASSUME HeardInv, Forward
    PROVE  OneAtATime'
<1> USE DEF HeardInv, client, clientSocket, loop, worker, remote
<1>1. /\ Relayed' = Relayed /\ Connecting' = Connecting /\ Requested' = Requested
      /\ msg' = Tail(msg)
      /\ UNCHANGED <<fromClient, toClient, polite, peer, waiting, owed, fromTarget>>
    BY DEF Forward, ELGoto, Relayed, Connecting, Starting, Requested
<1>2. msg \in Seq(Piece) /\ msg # <<>> /\ toTarget \in Seq(Piece)
    BY PiecesType DEF Forward, FlagAndChunk
<1>3. Len(msg') = Len(msg) - 1 /\ Len(msg) >= 1 /\ Head(msg) \in Piece
    BY <1>1, <1>2, Lengths, Queues
<1>4. Len(toTarget') = Len(toTarget) \/ Len(toTarget') = Len(toTarget) + 1
    BY <1>2, <1>3, Lengths DEF Forward, SendToTarget, tf_send
<1>5. Pieces' \in Nat /\ Pieces' <= Pieces
    BY <1>1, <1>3, <1>4, CountType DEF Pieces
<1> QED
    BY <1>1, <1>5, SameAnswers, CountType, FewerIsOne

(* The worker connects: 200 or the stored message takes its place.         *)
LEMMA ConnectedIsOne ==
    ASSUME HeardInv, Connected
    PROVE  OneAtATime'
<1> USE DEF HeardInv, client, clientSocket, loop, worker, remote
<1>1. /\ UNCHANGED <<fromClient, toClient, msg, polite, peer, waiting>>
      /\ toTarget' = <<>> /\ owed' = 0 /\ fromTarget' = <<>> /\ Starting /\ map_client # NoClient
      /\ Connecting' = <<>> /\ Requested = <<>> /\ Relayed = <<>> /\ Connecting = map_client.msg
    BY DEF Connected, Open, WGoto, Connecting, Starting, Requested, Relayed
<1>2. /\ Quiet(fromTarget)' /\ Single(fromTarget)'
      /\ Quiet(toClient)' <=> Quiet(toClient)
      /\ Single(toClient)' <=> Single(toClient)
    BY <1>1, QuietEmpty
<1>3. CASE map_client.action = TF_CONNECT
    <2>1. Requested' = <<>> /\ Relayed' = <<Established>>
        BY <1>3 DEF Connected, WGoto, Opening, Requested, Relayed
    <2>2. Single(Relayed)'
        BY <2>1 DEF Single
    <2>3. Len(Connecting) >= 1
        BY <1>1, CountType
    <2>4. \E p \in Nat : Pieces' = p /\ p <= Pieces - 1
        <3>1. Pieces' = Len(fromClient) + Len(msg)
            BY <1>1, <2>1, CountType DEF Pieces
        <3>2. Len(fromClient) + Len(msg) \in Nat /\ Len(fromClient) + Len(msg) <= Pieces - 1
            BY <2>3, CountType DEF Pieces
        <3> QED
            BY <3>1, <3>2
    <2>5. Answers' = One(~Quiet(Relayed)') + One(~Quiet(toClient))
        BY <1>1, <1>2 DEF Answers, One
    <2>6. \E a \in Nat : Answers' = a /\ a <= Answers + 1
        BY <2>5 DEF Answers, One
    <2>7. PICK p \in Nat : Pieces' = p /\ p <= Pieces - 1
        BY <2>4
    <2>8. PICK a \in Nat : Answers' = a /\ a <= Answers + 1
        BY <2>6
    <2>9. p + a \in Nat /\ InFlight' = p + a /\ p + a <= InFlight
        BY <2>7, <2>8, CountType DEF InFlight
    <2> QED
        BY <1>1, <1>2, <2>2, <2>9, NoMoreIsOne DEF OneAtATime
<1>4. CASE map_client.action # TF_CONNECT
    <2>1. Requested' = Connecting /\ Relayed' = <<>>
        BY <1>1, <1>4 DEF Connected, WGoto, Opening, Requested, Relayed
    <2>2. Pieces' \in Nat /\ Pieces' <= Pieces
        <3>1. Len(Connecting') = 0 /\ Len(Requested') = Len(Connecting) /\ Len(toTarget') = 0
            BY <1>1, <2>1, CountType
        <3>2. Len(fromClient') = Len(fromClient) /\ Len(msg') = Len(msg)
            BY <1>1
        <3> QED
            BY <3>1, <3>2, CountType DEF Pieces
    <2>3. Quiet(Relayed)' /\ Single(Relayed)'
        BY <2>1, QuietEmpty
    <2>4. Answers' \in Nat /\ Answers' <= Answers
        BY <1>1, <1>2, <2>3 DEF Answers, One
    <2> QED
        BY <1>1, <1>2, <2>2, <2>3, <2>4, FewerIsOne
<1> QED
    BY <1>3, <1>4

(* It sends the stored message.                                            *)
LEMMA RequestIsOne ==
    ASSUME HeardInv, SendRequest
    PROVE  OneAtATime'
<1> USE DEF HeardInv, client, clientSocket, loop, worker, remote
<1>1. /\ UNCHANGED <<fromClient, toClient, msg, polite, peer, waiting, owed, fromTarget>>
      /\ Relayed' = Relayed /\ Connecting' = Connecting /\ Requested = out /\ out # <<>>
    BY DEF SendRequest, WGoto, Connecting, Starting, Requested, Relayed, ReplyInv, RelayInv, Sending
<1>2. out \in Seq(Piece) /\ toTarget \in Seq(Piece)
    BY <1>1, PiecesType
<1>3. Requested' = Tail(out)
    BY <1>1, <1>2, Queues DEF SendRequest, WGoto, Requested
<1>4. Len(Requested') = Len(Requested) - 1 /\ Len(Requested) >= 1 /\ Head(out) \in Piece
    BY <1>1, <1>2, <1>3, Lengths, Queues
<1>5. Len(toTarget') = Len(toTarget) \/ Len(toTarget') = Len(toTarget) + 1
    BY <1>2, <1>4, Lengths DEF SendRequest, SendToTarget, tf_send
<1>6. Pieces' \in Nat /\ Pieces' <= Pieces
    BY <1>1, <1>4, <1>5, CountType DEF Pieces
<1> QED
    BY <1>1, <1>6, SameAnswers, CountType, FewerIsOne

(* The end of an answer moves from the target's socket to the worker, and  *)
(* on to the client.                                                       *)
LEMMA RecvTargetIsOne ==
    ASSUME HeardInv, NEW n \in 1..MaxChunk, RecvTarget(n)
    PROVE  OneAtATime'
<1> USE DEF HeardInv, client, clientSocket, loop, worker, remote
<1>1. fromTarget \in Seq(Response) /\ n \in Nat /\ 1 <= n /\ n <= Len(fromTarget)
    BY PlacesType DEF ReplyInv, RecvTarget
<1>2. /\ Relayed = <<>> /\ Relayed' = SubSeq(fromTarget, 1, n)
      /\ fromTarget' = SubSeq(fromTarget, n + 1, Len(fromTarget))
      /\ UNCHANGED <<fromClient, toClient, msg, toTarget, polite, peer, waiting, owed>>
      /\ Connecting' = Connecting /\ Requested' = Requested
    BY DEF RecvTarget, WGoto, Relayed, Connecting, Starting, Requested
<1>3. Pieces' = Pieces
    BY <1>2 DEF Pieces
<1>4. /\ Quiet(fromTarget) => Quiet(Relayed') /\ Quiet(fromTarget')
      /\ Single(fromTarget) =>
            Single(Relayed') /\ Single(fromTarget') /\ (Quiet(Relayed') \/ Quiet(fromTarget'))
    BY <1>1, <1>2, QuietCut
<1>5. Quiet(Relayed)
    BY <1>2, QuietEmpty
<1>6. (Quiet(toClient)' <=> Quiet(toClient)) /\ (Single(toClient)' <=> Single(toClient))
    BY <1>2
<1>7. CASE polite
    <2>1. Single(fromTarget)
        BY <1>7 DEF OneAtATime
    <2>2. Answers' \in Nat /\ Answers' <= Answers
        BY <1>2, <1>4, <1>5, <1>6, <2>1 DEF Answers, One
    <2> QED
        BY <1>2, <1>3, <1>4, <1>6, <2>1, <2>2, CountType, FewerIsOne
<1>8. CASE ~polite
    BY <1>2, <1>8 DEF OneAtATime
<1> QED
    BY <1>7, <1>8

(* A reply moves on or is lost.                                            *)
LEMMA SendReplyIsOne ==
    ASSUME HeardInv, SendReply
    PROVE  OneAtATime'
<1> USE DEF HeardInv, client, clientSocket, loop, worker, remote
<1>1. Relayed = out /\ out \in Seq(Response) /\ out # <<>> /\ toClient \in Seq(Response)
    BY PlacesType DEF ReplyInv, RelayInv, Sending, SendReply, WGoto, Relayed
<1>2. Relayed' = Tail(out) /\ Head(out) \in Response
    BY <1>1, Queues DEF SendReply, WGoto, Relayed
<1>3. /\ UNCHANGED <<fromClient, msg, toTarget, polite, peer, waiting, owed, fromTarget>>
      /\ Connecting' = Connecting /\ Requested' = Requested
    BY DEF SendReply, WGoto, Connecting, Starting, Requested
<1>4. Pieces' = Pieces
    BY <1>3 DEF Pieces
<1>5. /\ Quiet(out) <=> ~Ends(Head(out)) /\ Quiet(Relayed')
      /\ Single(out) => Single(Relayed') /\ (Ends(Head(out)) => Quiet(Relayed'))
    BY <1>1, <1>2, QuietTake
<1>6. (Quiet(fromTarget)' <=> Quiet(fromTarget)) /\ (Single(fromTarget)' <=> Single(fromTarget))
    BY <1>3
<1>7. \/ toClient' = toClient
      \/ /\ Quiet(toClient') <=> Quiet(toClient) /\ ~Ends(Head(out))
         /\ Single(toClient) /\ (Quiet(toClient) \/ ~Ends(Head(out))) => Single(toClient')
    BY <1>1, <1>2, QuietAppend DEF SendReply, SendToClient, tf_send
<1>8. CASE polite
    <2>1. Single(out) /\ Single(toClient) /\ Answers <= 1
        BY <1>1, <1>8, CountType DEF OneAtATime, InFlight
    <2>2. Ends(Head(out)) => Quiet(toClient)
        BY <1>1, <1>5, <2>1 DEF Answers, One
    <2>3. Single(Relayed') /\ Single(toClient')
        BY <1>5, <1>7, <2>1, <2>2
    <2>4. Answers' \in Nat /\ Answers' <= Answers
        BY <1>1, <1>3, <1>5, <1>6, <1>7, <2>1 DEF Answers, One
    <2> QED
        BY <1>3, <1>4, <1>6, <2>3, <2>4, CountType, FewerIsOne
<1>9. CASE ~polite
    BY <1>3, <1>9 DEF OneAtATime
<1> QED
    BY <1>8, <1>9

(* The target reads a piece, and owes an answer to a request that it ends; *)
(* then it writes it.                                                      *)
LEMMA TargetReadIsOne ==
    ASSUME HeardInv, TargetReads
    PROVE  OneAtATime'
<1> USE DEF HeardInv, client, clientSocket, loop, worker, remote
<1>1. /\ UNCHANGED <<fromClient, toClient, msg, polite, peer, waiting, fromTarget>>
      /\ Relayed' = Relayed /\ Connecting' = Connecting /\ Requested' = Requested
      /\ toTarget # <<>> /\ toTarget' = Tail(toTarget) /\ owed = 0
    BY DEF TargetReads, Relayed, Connecting, Starting, Requested
<1>2. Len(toTarget') = Len(toTarget) - 1 /\ Len(toTarget) >= 1
    BY <1>1, PiecesType, Lengths
<1>3. Pieces' \in Nat /\ Pieces' = Pieces - 1
    BY <1>1, <1>2, CountType DEF Pieces
<1>4. /\ Quiet(fromTarget)' <=> Quiet(fromTarget)
      /\ Quiet(Relayed)' <=> Quiet(Relayed)
      /\ Quiet(toClient)' <=> Quiet(toClient)
      /\ Single(fromTarget)' <=> Single(fromTarget)
      /\ Single(Relayed)' <=> Single(Relayed)
      /\ Single(toClient)' <=> Single(toClient)
    BY <1>1
<1>5. \E a \in Nat : Answers' = a /\ a <= Answers + 1
    BY <1>1, <1>4 DEF Answers, One
<1>6. PICK a \in Nat : Answers' = a /\ a <= Answers + 1
    BY <1>5
<1>7. (Pieces - 1) + a \in Nat /\ InFlight' = (Pieces - 1) + a /\ (Pieces - 1) + a <= InFlight
    BY <1>3, <1>6, CountType DEF InFlight
<1> QED
    BY <1>1, <1>4, <1>7, NoMoreIsOne DEF OneAtATime

(* The last reply of an answer takes the place of what is owed.            *)
LEMMA TargetReplyIsOne ==
    ASSUME HeardInv, TargetReplies
    PROVE  OneAtATime'
<1> USE DEF HeardInv, client, clientSocket, loop, worker, remote
<1> DEFINE new == Reply(conn, said + 1)
<1>1. /\ UNCHANGED <<fromClient, toClient, msg, toTarget, polite, peer, waiting>>
      /\ Relayed' = Relayed /\ Connecting' = Connecting /\ Requested' = Requested
      /\ fromTarget' = Append(fromTarget, new) /\ owed' = owed - 1 /\ owed > 0
    BY DEF TargetReplies, Relayed, Connecting, Starting, Requested
<1>2. fromTarget \in Seq(Response) /\ new \in Response /\ owed \in Nat /\ said \in Nat /\ new.n = said + 1
    BY PlacesType DEF ReplyInv, RelayInv, TypeOK, RemoteType, Reply, Response
<1>3. Pieces' = Pieces
    BY <1>1 DEF Pieces
<1>4. Ends(new) <=> owed = 1
    <2>1. owed <= Answer /\ said % Answer = Answer - owed /\ Answer \in Nat
        BY <1>1, RelayAssumption DEF Owing
    <2>2. (said + 1) % Answer = IF said % Answer = Answer - 1 THEN 0 ELSE (said % Answer) + 1
        BY <1>2, NextInAnswer
    <2>3. said % Answer = Answer - 1 <=> owed = 1
        BY <1>2, <2>1
    <2>4. owed # 1 => (said % Answer) + 1 # 0
        BY <1>1, <1>2, <2>1
    <2> QED
        BY <1>2, <2>2, <2>3, <2>4 DEF Ends
<1>5. /\ Quiet(fromTarget') <=> Quiet(fromTarget) /\ ~Ends(new)
      /\ Single(fromTarget) /\ (Quiet(fromTarget) \/ ~Ends(new)) => Single(fromTarget')
    BY <1>1, <1>2, QuietAppend
<1>6. /\ Quiet(Relayed)' <=> Quiet(Relayed)
      /\ Quiet(toClient)' <=> Quiet(toClient)
      /\ Single(Relayed)' <=> Single(Relayed)
      /\ Single(toClient)' <=> Single(toClient)
    BY <1>1
<1>7. CASE polite
    <2>1. Answers <= 1 /\ Single(fromTarget)
        BY <1>7, CountType DEF OneAtATime, InFlight
    <2>2. Quiet(fromTarget)
        BY <1>1, <2>1 DEF Answers, One
    <2>3. owed' > 0 <=> owed # 1
        BY <1>1, <1>2
    <2>4. Answers' \in Nat /\ Answers' <= Answers
        BY <1>1, <1>4, <1>5, <1>6, <2>2, <2>3 DEF Answers, One
    <2> QED
        BY <1>1, <1>3, <1>5, <1>6, <2>1, <2>2, <2>4, CountType, FewerIsOne
<1>8. CASE ~polite
    BY <1>1, <1>8 DEF OneAtATime
<1> QED
    BY <1>7, <1>8

(* The other steps move no piece and no answer.                            *)
LEMMA OthersIsOne ==
    ASSUME HeardInv,
           \/ ClientGone \/ RestartTooEarly \/ LeaveWorker
           \/ Begin \/ ConnectFails \/ TargetGone \/ MarkReconnect \/ ForgetTarget
           \/ UNCHANGED vars
    PROVE  OneAtATime'
<1> USE DEF HeardInv, client, clientSocket, loop, worker, remote
<1>1. UNCHANGED <<fromClient, toClient, msg, toTarget, polite, peer, waiting, owed, fromTarget>>
    BY DEF ClientGone, RestartTooEarly, LeaveWorker, ELGoto, FlagAndChunk, Begin, ConnectFails,
           TargetGone, MarkReconnect, ForgetTarget, vars
<1>2. Relayed' = Relayed /\ Requested' = Requested
    BY DEF ClientGone, RestartTooEarly, LeaveWorker, Begin, ConnectFails, TargetGone, MarkReconnect,
           ForgetTarget, vars, WGoto, Relayed, Requested
<1>3. Connecting' = Connecting \/ Connecting' = <<>>
    <2>1. CASE Begin
        <3>1. map_client # NoClient /\ map_client' # NoClient /\ map_client'.msg = map_client.msg
            BY <2>1, ChangedRecord DEF Begin, ReplyInv, RelayInv
        <3> QED
            BY <2>1, <3>1 DEF Begin, WGoto, Connecting, Starting
    <2>2. CASE ~Begin
        BY <2>2
        DEF ClientGone, RestartTooEarly, LeaveWorker, ConnectFails, TargetGone, MarkReconnect,
            ForgetTarget, vars, WGoto, Connecting, Starting
    <2> QED
        BY <2>1, <2>2
<1>4. Pieces' \in Nat /\ Pieces' <= Pieces
    BY <1>1, <1>2, <1>3, CountType DEF Pieces
<1> QED
    BY <1>1, <1>2, <1>4, SameAnswers, CountType, FewerIsOne
----------------------------------------------------------------------------
LEMMA InitHeard == Init => HeardInv
<1> SUFFICES ASSUME Init PROVE HeardInv
    OBVIOUS
<1>1. ReplyInv
    BY InitReply
<1>2. NothingLeft /\ FlagAndChunk /\ Owing
    BY DEF Init, NothingLeft, FlagAndChunk, Owing
<1>3. Relayed = <<>> /\ Connecting = <<>> /\ Requested = <<>>
    BY DEF Init, Relayed, Connecting, Starting, Requested
<1>4. Pieces = 0
    BY <1>1, <1>3, CountType DEF Init, Pieces
<1>5. Answers = 0 /\ Single(fromTarget) /\ Single(Relayed) /\ Single(toClient)
    BY <1>3, QuietEmpty DEF Init, Answers, One
<1> QED
    BY <1>1, <1>2, <1>4, <1>5 DEF HeardInv, OneAtATime, InFlight

(* Nothing is read or awaited once the client is gone.                     *)
LEMMA KeepsNothingLeft ==
    ASSUME HeardInv, [Next]_vars
    PROVE  NothingLeft'
<1> USE DEF HeardInv, NothingLeft, client, clientSocket, loop, worker, remote
<1>1. ASSUME NEW n \in 1..MaxChunk, Recv(n)
      PROVE  NothingLeft'
    BY <1>1, RecvCounts DEF Recv
<1>2. CASE EventLoop
    <2>1. CASE \E n \in 1..MaxChunk : Recv(n)
        BY <1>1, <2>1
    <2>2. CASE \/ ClientGone \/ Restart \/ RestartTooEarly \/ ReplyEstablished \/ Forward
               \/ CloseClient \/ StopWorker \/ LeaveWorker
        BY <2>2
        DEF ClientGone, Restart, RestartTooEarly, ReplyEstablished, Forward, CloseClient, StopWorker,
            LeaveWorker
    <2> QED
        BY <1>2, <2>1, <2>2
        DEF EventLoop, Ignore, Refuse, Insert, Process, DropWhileConnecting, Reconnect, GiveUp
<1>3. CASE Worker
    BY <1>3
    DEF Worker, Begin, Connected, ConnectFails, SendRequest, SendReply, TargetGone, MarkReconnect,
        ForgetTarget, RecvTarget
<1>4. CASE ClientWrites \/ ClientReads \/ ClientCloses \/ Accept
    BY <1>4
    DEF ClientWrites, ClientReads, ClientCloses, Accept, ReplyInv, RelayInv, TypeOK, ClientType
<1> QED
    BY <1>2, <1>3, <1>4
    DEF Next, Target, TargetReads, TargetReplies, ClientListens, Others, TargetCloses, vars

(* The flag is written together with where the worker goes.                *)
LEMMA KeepsFlagAndChunk ==
    ASSUME HeardInv, [Next]_vars
    PROVE  FlagAndChunk'
<1> USE DEF HeardInv, FlagAndChunk, loop, worker
<1>1. TypeOK
    BY DEF ReplyInv, RelayInv
<1>2. CASE UNCHANGED <<loop, worker>>
    BY <1>2
<1>3. CASE EventLoop
    <2>1. ASSUME NEW n \in 1..MaxChunk, Ignore(n) \/ DropWhileConnecting(n)
          PROVE  FlagAndChunk'
        BY <1>2, <2>1 DEF Ignore, DropWhileConnecting
    <2>2. ASSUME NEW n \in 1..MaxChunk, Refuse(n) \/ GiveUp(n)
          PROVE  FlagAndChunk'
        BY <2>2 DEF Refuse, GiveUp, ELGoto
    <2>3. ASSUME NEW n \in 1..MaxChunk, Process(n) \/ Reconnect(n)
          PROVE  FlagAndChunk'
        <3>1. Chunk(n) # <<>>
            BY <2>3, RecvCounts DEF Process, Reconnect
        <3> QED
            BY <2>3, <3>1 DEF Process, Reconnect, ELGoto
    <2>4. ASSUME NEW n \in 1..MaxChunk, Insert(n)
          PROVE  FlagAndChunk'
        BY <1>1, <2>4, InsertedRecord DEF Insert, MAP_CREATE_THREAD
    <2>5. CASE Forward
        <3>1. Tail(msg) = <<>> <=> Len(msg) = 1
            BY <2>5, PiecesType, Queues DEF Forward
        <3> QED
            BY <2>5, <3>1 DEF Forward, ELGoto
    <2>6. CASE \/ ClientGone \/ RestartTooEarly \/ ReplyEstablished \/ CloseClient
               \/ StopWorker \/ LeaveWorker
        BY <2>6
        DEF ClientGone, RestartTooEarly, ReplyEstablished, CloseClient, StopWorker, LeaveWorker, ELGoto
    <2>7. CASE Restart
        BY <1>1, <2>7, ChangedRecord
        DEF Restart, ELGoto, MAP_RECONNECT, MAP_CREATE_THREAD
    <2> QED
        BY <1>3, <2>1, <2>2, <2>3, <2>4, <2>5, <2>6, <2>7 DEF EventLoop
<1>4. CASE Worker
    <2>1. CASE Begin \/ Connected \/ ConnectFails
        BY <1>1, <2>1, ChangedRecord
        DEF Begin, Connected, ConnectFails, WGoto, MAP_CONNECT_SUCCESS, MAP_CONNECT_FAILED,
            MAP_CREATE_THREAD
    <2>2. CASE MarkReconnect \/ ForgetTarget
        BY <1>1, <2>2, ChangedRecord
        DEF MarkReconnect, ForgetTarget, WGoto, MAP_RECONNECT, MAP_CREATE_THREAD
    <2>3. CASE SendRequest \/ SendReply \/ TargetGone \/ \E n \in 1..MaxChunk : RecvTarget(n)
        BY <2>3 DEF SendRequest, SendReply, TargetGone, RecvTarget, WGoto
    <2> QED
        BY <1>4, <2>1, <2>2, <2>3 DEF Worker
<1> QED
    BY <1>2, <1>3, <1>4
    DEF Next, Target, TargetReads, TargetReplies, ClientListens, Others, TargetCloses, Accept,
        ClientWrites, ClientReads, ClientCloses, vars

(* A target reads the next piece only when it has answered the last.       *)
LEMMA KeepsOwing ==
    ASSUME HeardInv, [Next]_vars
    PROVE  Owing'
<1> USE DEF HeardInv, remote
<1>1. said \in Nat /\ owed \in Nat /\ Answer \in Nat /\ Answer > 0
    BY RelayAssumption DEF ReplyInv, RelayInv, TypeOK, RemoteType
<1>2. CASE UNCHANGED <<target, toTarget, said, owed>>
    BY <1>2 DEF Owing
<1>3. CASE Connected
    <2>1. 0 \in Nat /\ 0 % Answer = 0
        BY NextInAnswer
    <2>2. target' /\ said' = 0 /\ owed' = 0
        BY <1>3 DEF Connected, Open
    <2>3. said' % Answer = 0 /\ ~(owed' > 0)
        BY <2>1, <2>2
    <2> QED
        BY <2>2, <2>3 DEF Owing
<1>4. CASE StopWorker \/ TargetCloses
    BY <1>4 DEF StopWorker, TargetCloses, Owing
<1>5. CASE Forward \/ SendRequest
    BY <1>5
    DEF Forward, SendRequest, SendToTarget, tf_send, Reaches, Owing
<1>6. CASE TargetReads
    BY <1>1, <1>6 DEF TargetReads, Owing
<1>7. CASE TargetReplies
    <2>1. said % Answer = Answer - owed /\ owed <= Answer /\ owed > 0
        BY <1>7 DEF TargetReplies, Owing
    <2>2. (said + 1) % Answer = IF said % Answer = Answer - 1 THEN 0 ELSE (said % Answer) + 1
        BY <1>1, NextInAnswer
    <2>3. owed = 1 => (said + 1) % Answer = 0
        BY <1>1, <2>1, <2>2
    <2>4. owed > 1 => (said + 1) % Answer = Answer - (owed - 1)
        BY <1>1, <2>1, <2>2
    <2> QED
        BY <1>1, <1>7, <2>1, <2>3, <2>4 DEF TargetReplies, Owing
<1>8. CASE EventLoop /\ ~Forward /\ ~StopWorker
    BY <1>2, <1>8
    DEF EventLoop, Ignore, Refuse, Insert, Process, DropWhileConnecting, Reconnect, GiveUp, Recv,
        ClientGone, Restart, RestartTooEarly, ReplyEstablished, CloseClient, LeaveWorker
<1>9. CASE Worker /\ ~Connected /\ ~SendRequest
    BY <1>2, <1>9
    DEF Worker, Begin, ConnectFails, SendReply, TargetGone, MarkReconnect, ForgetTarget, RecvTarget
<1> QED
    BY <1>2, <1>3, <1>4, <1>5, <1>6, <1>7, <1>8, <1>9
    DEF Next, EventLoop, Worker, Target, ClientListens, Others, Accept, ClientWrites, ClientReads,
        ClientCloses, vars

LEMMA NextHeard == HeardInv /\ [Next]_vars => HeardInv'
<1> SUFFICES ASSUME HeardInv, [Next]_vars PROVE HeardInv'
    OBVIOUS
<1>1. ReplyInv' /\ NothingLeft' /\ FlagAndChunk' /\ Owing'
    BY NextReply, KeepsNothingLeft, KeepsFlagAndChunk, KeepsOwing DEF HeardInv
<1>2. OneAtATime'
    <2>1. CASE EventLoop
        BY <2>1, RecvIsOne, RestartIsOne, EstablishedIsOne, ForwardIsOne, CloseIsOne, StopIsOne,
           OthersIsOne
        DEF EventLoop
    <2>2. CASE Worker
        BY <2>2, ConnectedIsOne, RequestIsOne, RecvTargetIsOne, SendReplyIsOne, OthersIsOne DEF Worker
    <2>3. CASE Target \/ ClientListens
        BY <2>3, TargetReadIsOne, TargetReplyIsOne, ReadIsOne DEF Target, ClientListens
    <2>4. CASE Others
        BY <2>4, AcceptIsOne, WriteIsOne, CloseIsOne, TargetCloseIsOne DEF Others
    <2>5. CASE UNCHANGED vars
        BY <2>5, OthersIsOne
    <2> QED
        BY <2>1, <2>2, <2>3, <2>4, <2>5 DEF Next
<1> QED
    BY <1>1, <1>2 DEF HeardInv

LEMMA HeardInvariant == Spec => []HeardInv
BY InitHeard, NextHeard, PTL DEF Spec

(* While the worker is started and connects for a polite client, nothing   *)
(* more is in that client's socket: the one piece it waits for is the      *)
(* stored message (process_map.cpp, 169 to 189 and 801 to 760).            *)
THEOREM PoliteHeard == Spec => []PoliteIsHeard
<1>1. HeardInv => PoliteIsHeard
    <2> SUFFICES ASSUME HeardInv, polite, map_client # NoClient,
                        map_client.flag \in {0, MAP_CREATE_THREAD} \/ wpc = "begin"
                 PROVE  fromClient = <<>>
        BY DEF PoliteIsHeard
    <2>1. ReplyInv /\ Starting /\ InFlight <= 1
        BY DEF HeardInv, FlagAndChunk, OneAtATime, Starting
    <2>2. Len(Connecting) >= 1
        BY <2>1, CountType
    <2>3. Len(fromClient) = 0
        BY <2>1, <2>2, CountType DEF InFlight, Pieces
    <2> QED
        BY <2>1, <2>3, PiecesType, Lengths
<1> QED
    BY HeardInvariant, <1>1, PTL
----------------------------------------------------------------------------
(* The message in the record, and the one that the last connection was     *)
(* made for.                                                               *)
StoredMsg  == IF map_client = NoClient THEN <<>> ELSE map_client.msg
LastStored == IF conn = NoConn THEN <<>> ELSE opened[conn].stored

Ids(q) == {q[i].id : i \in DOMAIN q}

Rising(q) == \A i, j \in DOMAIN q : i < j => q[i].id < q[j].id

Below(I, J) == \A i \in I, j \in J : i < j

Older == Ids(got) \cup Ids(toTarget) \cup Ids(StoredMsg) \cup Ids(LastStored)

(* What is read was written after all that was read before: what is on its *)
(* way to a target, received by one, or stored.                            *)
ReadInOrder ==
    /\ Rising(fromClient) /\ Rising(msg) /\ Rising(StoredMsg) /\ Rising(Requested)
    /\ \A i \in Older \cup Ids(msg) \cup Ids(fromClient) : i <= written
    /\ Below(Older \cup Ids(msg), Ids(fromClient))
    /\ Below(Older, Ids(msg))

(* A connection is made for a message that is newer than all that targets  *)
(* were sent, while nothing is being forwarded; it sends that message.     *)
SentLast ==
    /\ Starting => epc # "forward" /\ Below(Ids(got) \cup Ids(toTarget), Ids(StoredMsg))
    /\ Ids(Requested) \subseteq Ids(LastStored)
    /\ \A k \in DOMAIN got : got[k].conn \in 1..conn

At(i) == [id |-> i, conn |-> conn]

(* The one may be received before the other.                               *)
Precedes(r, q) ==
    \/ r.id < q.id
    \/ ~polite /\ r.conn = q.conn /\ Stored(q) /\ ~Stored(r)

(* So it is of what targets received, what they are to read, and what is   *)
(* left of the stored message that is being sent.                          *)
SentInOrder ==
    /\ \A i, j \in DOMAIN got : i < j => Precedes(got[i], got[j])
    /\ \A i, j \in DOMAIN toTarget : i < j => Precedes(At(toTarget[i].id), At(toTarget[j].id))
    /\ \A k \in DOMAIN got, j \in Ids(toTarget) \cup Ids(Requested) : Precedes(got[k], At(j))
    /\ \A i \in Ids(toTarget), j \in Ids(Requested) : Precedes(At(i), At(j))

OrderInv == HeardInv /\ ReadInOrder /\ SentLast /\ SentInOrder
----------------------------------------------------------------------------
(* The ids in a queue, when a piece is appended, taken or cut off.         *)
LEMMA IdsOfEmpty == Ids(<<>>) = {} /\ Rising(<<>>)
BY DEF Ids, Rising

(* Appending a piece with a higher number.                                 *)
LEMMA IdsAppend ==
    ASSUME NEW S, NEW q \in Seq(S), NEW e \in S
    PROVE  /\ Ids(Append(q, e)) = Ids(q) \cup {e.id}
           /\ Rising(q) /\ Below(Ids(q), {e.id}) => Rising(Append(q, e))
<1> DEFINE a == Append(q, e)
<1>1. Len(q) \in Nat /\ DOMAIN q = 1..Len(q)
    BY LenProperties
<1>2. /\ DOMAIN a = 1..(Len(q) + 1)
      /\ \A i \in 1..Len(q) : a[i] = q[i]
      /\ a[Len(q) + 1] = e
    BY AppendProperties, LenProperties
<1> HIDE DEF a
<1>3. Ids(a) = Ids(q) \cup {e.id}
    <2>1. \A i \in DOMAIN a : a[i].id \in Ids(q) \cup {e.id}
        BY <1>1, <1>2 DEF Ids
    <2>2. \A i \in DOMAIN q : i \in DOMAIN a /\ a[i] = q[i]
        BY <1>1, <1>2
    <2>3. Len(q) + 1 \in DOMAIN a
        BY <1>1, <1>2
    <2> QED
        BY <1>2, <2>1, <2>2, <2>3 DEF Ids
<1>4. ASSUME Rising(q), Below(Ids(q), {e.id}) PROVE Rising(a)
    <2> SUFFICES ASSUME NEW i \in DOMAIN a, NEW j \in DOMAIN a, i < j
                 PROVE  a[i].id < a[j].id
        BY DEF Rising
    <2>1. CASE j \in DOMAIN q
        BY <1>1, <1>2, <1>4, <2>1 DEF Rising
    <2>2. CASE j \notin DOMAIN q
        BY <1>1, <1>2, <1>4, <2>2 DEF Below, Ids
    <2> QED
        BY <2>1, <2>2
<1> QED
    BY <1>3, <1>4 DEF a

(* Taking the first.                                                       *)
LEMMA IdsTake ==
    ASSUME NEW q \in Seq(Piece), q # <<>>
    PROVE  /\ Ids(q) = {Head(q).id} \cup Ids(Tail(q))
           /\ Rising(q) => Rising(Tail(q)) /\ Below({Head(q).id}, Ids(Tail(q)))
<1> DEFINE t == Tail(q)
<1>1. /\ Len(q) \in Nat /\ DOMAIN q = 1..Len(q) /\ Len(q) > 0 /\ Head(q) = q[1]
      /\ DOMAIN t = 1..(Len(q) - 1)
    BY HeadTailProperties, LenProperties, EmptySeq
<1>2. \A i \in 1..(Len(q) - 1) : t[i] = q[i + 1]
    BY <1>1, HeadTailProperties
<1>3. \A i \in DOMAIN t : i + 1 \in DOMAIN q /\ i + 1 > 1 /\ t[i] = q[i + 1]
    BY <1>1, <1>2
<1>4. \A i \in DOMAIN q : i = 1 \/ (i - 1 \in DOMAIN t /\ t[i - 1] = q[i])
    BY <1>1, <1>2
<1>5. 1 \in DOMAIN q /\ Head(q) = q[1]
    BY <1>1
<1> HIDE DEF t
<1>6. Ids(q) = {Head(q).id} \cup Ids(t)
    BY <1>3, <1>4, <1>5 DEF Ids
<1>7. ASSUME Rising(q) PROVE Rising(t) /\ Below({Head(q).id}, Ids(t))
    <2>1. Rising(t)
        BY <1>1, <1>3, <1>7 DEF Rising
    <2>2. Below({Head(q).id}, Ids(t))
        BY <1>3, <1>5, <1>7 DEF Rising, Below, Ids
    <2> QED
        BY <2>1, <2>2
<1> QED
    BY <1>6, <1>7 DEF t

(* Taking several.                                                         *)
LEMMA IdsCut ==
    ASSUME NEW q \in Seq(Piece), Rising(q), NEW n \in Nat, 1 <= n, n <= Len(q)
    PROVE  LET first == SubSeq(q, 1, n)
               rest  == SubSeq(q, n + 1, Len(q)) IN
           /\ Rising(first) /\ Rising(rest)
           /\ Ids(first) \subseteq Ids(q) /\ Ids(rest) \subseteq Ids(q)
           /\ Below(Ids(first), Ids(rest))
<1> DEFINE first == SubSeq(q, 1, n)
           rest  == SubSeq(q, n + 1, Len(q))
<1>1. Len(q) \in Nat /\ DOMAIN q = 1..Len(q)
    BY LenProperties
<1>2. DOMAIN first = 1..n /\ \A i \in 1..n : first[i] = q[i]
    BY <1>1
<1>3. DOMAIN rest = 1..(Len(q) - n) /\ \A i \in 1..(Len(q) - n) : rest[i] = q[i + n]
    BY <1>1
<1>4. /\ \A i \in DOMAIN first : i \in DOMAIN q /\ first[i] = q[i]
      /\ \A i \in DOMAIN rest : i + n \in DOMAIN q /\ rest[i] = q[i + n]
      /\ \A i \in DOMAIN first, j \in DOMAIN rest : i < j + n
      /\ \A i, j \in DOMAIN rest : i < j => i + n < j + n
    BY <1>1, <1>2, <1>3
<1> HIDE DEF first, rest
<1>5. Rising(first) /\ Rising(rest)
    BY <1>4 DEF Rising
<1>6. Ids(first) \subseteq Ids(q) /\ Ids(rest) \subseteq Ids(q)
    BY <1>4 DEF Ids
<1>7. Below(Ids(first), Ids(rest))
    BY <1>4 DEF Rising, Below, Ids
<1> QED
    BY <1>5, <1>6, <1>7 DEF first, rest
----------------------------------------------------------------------------
(* What a sequence is made of.                                             *)
LEMMA ElementType ==
    ASSUME NEW S, NEW q \in Seq(S)
    PROVE  \A i \in DOMAIN q : q[i] \in S
OBVIOUS

(* The queues of pieces, and the numbers in them.                          *)
LEMMA OrderTypes ==
    ASSUME HeardInv
    PROVE  /\ fromClient \in Seq(Piece) /\ msg \in Seq(Piece) /\ toTarget \in Seq(Piece)
           /\ StoredMsg \in Seq(Piece) /\ LastStored \in Seq(Piece) /\ Requested \in Seq(Piece)
           /\ got \in Seq([id : Nat, conn : Nat])
           /\ written \in Nat /\ conn \in Nat /\ polite \in BOOLEAN
<1> USE DEF HeardInv, ReplyInv, RelayInv, TypeOK
<1>1. /\ fromClient \in Seq(Piece) /\ msg \in Seq(Piece) /\ toTarget \in Seq(Piece)
      /\ Requested \in Seq(Piece) /\ got \in Seq([id : Nat, conn : Nat])
      /\ written \in Nat /\ polite \in BOOLEAN
    BY PiecesType DEF RemoteType, ClientType
<1>2. StoredMsg \in Seq(Piece)
    <2>1. CASE map_client = NoClient
        BY <2>1 DEF StoredMsg
    <2>2. CASE map_client # NoClient
        <3>1. map_client \in MapClient /\ StoredMsg = map_client.msg
            BY <2>2 DEF StoredMsg, LoopType
        <3> QED
            BY <3>1 DEF MapClient
    <2> QED
        BY <2>1, <2>2
<1>3. conn \in Nat /\ (conn # 0 => conn \in DOMAIN opened)
    BY LenProperties DEF RemoteType, conn
<1>4. LastStored \in Seq(Piece)
    <2>1. CASE conn = 0
        BY <2>1 DEF LastStored, NoConn
    <2>2. CASE conn # 0
        <3>1. opened[conn] \in [client : Nat, target : TargetNames, stored : Seq(Piece)]
            BY <1>3, <2>2, ElementType DEF RemoteType
        <3> QED
            BY <2>2, <3>1 DEF LastStored, NoConn
    <2> QED
        BY <2>1, <2>2
<1> QED
    BY <1>1, <1>2, <1>3, <1>4 DEF conn

(* All of them are numbers.                                                *)
LEMMA IdsType ==
    ASSUME HeardInv
    PROVE  /\ Ids(fromClient) \subseteq Nat /\ Ids(msg) \subseteq Nat /\ Ids(toTarget) \subseteq Nat
           /\ Ids(StoredMsg) \subseteq Nat /\ Ids(LastStored) \subseteq Nat
           /\ Ids(Requested) \subseteq Nat /\ Ids(got) \subseteq Nat
<1>1. ASSUME NEW q \in Seq(Piece) PROVE Ids(q) \subseteq Nat
    <2>1. \A i \in DOMAIN q : q[i].id \in Nat
        <3> SUFFICES ASSUME NEW i \in DOMAIN q PROVE q[i].id \in Nat
            OBVIOUS
        <3>1. q[i] \in Piece
            BY ElementType
        <3> QED
            BY <3>1 DEF Piece
    <2> QED
        BY <2>1 DEF Ids
<1>2. Ids(got) \subseteq Nat
    <2>1. \A i \in DOMAIN got : got[i].id \in Nat
        <3> SUFFICES ASSUME NEW i \in DOMAIN got PROVE got[i].id \in Nat
            OBVIOUS
        <3>1. got[i] \in [id : Nat, conn : Nat]
            BY OrderTypes, ElementType
        <3> QED
            BY <3>1
    <2> QED
        BY <2>1 DEF Ids
<1> QED
    BY <1>1, <1>2, OrderTypes

(* The stored message of the last connection.                              *)
LEMMA StoredIsLast ==
    ASSUME HeardInv, conn # 0, NEW i
    PROVE  Stored(At(i)) <=> i \in Ids(LastStored)
BY DEF Stored, At, LastStored, Ids, NoConn

----------------------------------------------------------------------------
PartOf(p, q) == Rising(p) /\ Ids(p) \subseteq Ids(q)

(* Nothing is out of order when pieces are gone.                           *)
LEMMA LessIsOrdered ==
    ASSUME OrderInv, UNCHANGED <<polite, opened, got, written>>,
           PartOf(fromClient', fromClient), PartOf(msg', msg), PartOf(StoredMsg', StoredMsg),
           PartOf(Requested', Requested),
           toTarget' \in {toTarget, <<>>},
           Starting' => Starting, epc' = "forward" => epc = "forward"
    PROVE  ReadInOrder' /\ SentLast' /\ SentInOrder'
<1> USE DEF OrderInv, PartOf
<1>1. conn' = conn /\ LastStored' = LastStored
    BY DEF conn, LastStored, NoConn
<1>2. /\ Ids(got') = Ids(got) /\ Ids(toTarget') \subseteq Ids(toTarget)
      /\ Older' \subseteq Older
    BY <1>1, IdsOfEmpty DEF Older
<1>3. ReadInOrder'
    BY <1>2 DEF ReadInOrder, Below
<1>4. SentLast'
    BY <1>1, <1>2 DEF SentLast, Below
<1>5. SentInOrder'
    <2>1. \A i, j \in DOMAIN got' : i < j => Precedes(got[i], got[j])'
        BY DEF SentInOrder, Precedes, Stored
    <2>2. \A i, j \in DOMAIN toTarget' :
            i < j => Precedes(At(toTarget[i].id), At(toTarget[j].id))'
        BY <1>1 DEF SentInOrder, Precedes, Stored, At
    <2>3. \A k \in DOMAIN got', j \in Ids(toTarget') \cup Ids(Requested') : Precedes(got[k], At(j))'
        BY <1>1, <1>2 DEF SentInOrder, Precedes, Stored, At
    <2>4. \A i \in Ids(toTarget'), j \in Ids(Requested') : Precedes(At(i), At(j))'
        BY <1>1, <1>2 DEF SentInOrder, Precedes, Stored, At
    <2> QED
        BY <2>1, <2>2, <2>3, <2>4 DEF SentInOrder
<1> QED
    BY <1>3, <1>4, <1>5

(* What a client writes gets the next number.                              *)
LEMMA WriteIsOrdered ==
    ASSUME OrderInv, ClientWrites
    PROVE  ReadInOrder' /\ SentLast' /\ SentInOrder'
<1> USE DEF OrderInv, loop, worker, remote
<1>1. /\ UNCHANGED <<polite, opened, got, msg, map_client, toTarget, wpc, out, epc>>
      /\ written' = written + 1
    BY DEF ClientWrites
<1>2. /\ StoredMsg' = StoredMsg /\ Requested' = Requested /\ LastStored' = LastStored
      /\ conn' = conn /\ Older' = Older /\ Starting' = Starting
    BY <1>1 DEF StoredMsg, Requested, LastStored, conn, Older, NoConn, Starting
<1>3. PICK e \in Piece : e.id = written + 1 /\ fromClient' = Append(fromClient, e)
    BY RelayAssumption DEF ClientWrites, HeardInv, ReplyInv, RelayInv, TypeOK, ClientType, Piece, TargetNames
<1>4. Ids(fromClient') = Ids(fromClient) \cup {written + 1}
    <2>1. Ids(Append(fromClient, e)) = Ids(fromClient) \cup {e.id}
        BY OrderTypes, IdsAppend
    <2> QED
        BY <1>3, <2>1
<1>5. ReadInOrder'
    <2>1. \A i \in Older \cup Ids(msg) \cup Ids(fromClient) : i \in Nat /\ i <= written
        BY IdsType DEF ReadInOrder, Older
    <2>2. \A i \in Older' \cup Ids(msg') \cup Ids(fromClient') : i <= written'
        BY <1>1, <1>2, <1>4, <2>1, OrderTypes
    <2>3. Rising(fromClient')
        BY <1>3, <2>1, IdsAppend, OrderTypes DEF ReadInOrder, Below
    <2>4. Below(Older' \cup Ids(msg'), Ids(fromClient'))
        BY <1>1, <1>2, <1>4, <2>1, OrderTypes DEF ReadInOrder, Below
    <2>5. /\ Rising(msg') /\ Rising(StoredMsg') /\ Rising(Requested')
          /\ Below(Older', Ids(msg'))
        BY <1>1, <1>2 DEF ReadInOrder
    <2> QED
        BY <2>2, <2>3, <2>4, <2>5 DEF ReadInOrder
<1>6. SentLast' /\ SentInOrder'
    BY <1>1, <1>2 DEF SentLast, SentInOrder, Precedes, Stored, At
<1> QED
    BY <1>5, <1>6

(* What recv returns, and what it leaves.                                  *)
LEMMA RecvOrdered ==
    ASSUME OrderInv, NEW n \in 1..MaxChunk, Recv(n)
    PROVE  /\ PartOf(Chunk(n), fromClient) /\ PartOf(fromClient', fromClient)
           /\ Below(Ids(Chunk(n)), Ids(fromClient'))
           /\ Chunk(n) \in Seq(Piece) /\ msg = <<>>
           /\ UNCHANGED <<polite, opened, got, written, toTarget>>
<1>1. fromClient \in Seq(Piece) /\ n \in Nat /\ 1 <= n /\ n <= Len(fromClient)
    BY OrderTypes, RelayAssumption DEF Recv, OrderInv
<1>2. fromClient' = SubSeq(fromClient, n + 1, Len(fromClient)) /\ epc = "wait"
    BY DEF Recv
<1>3. msg = <<>>
    BY <1>2 DEF OrderInv, HeardInv, FlagAndChunk
<1>4. Rising(fromClient)
    BY DEF OrderInv, ReadInOrder
<1>5. Chunk(n) \in Seq(Piece)
    BY <1>1 DEF Chunk
<1> QED
    BY <1>1, <1>2, <1>3, <1>4, <1>5, IdsCut DEF Chunk, PartOf, Recv, client, remote

(* What is read and dropped is gone.                                       *)
LEMMA DropIsOrdered ==
    ASSUME OrderInv, NEW n \in 1..MaxChunk,
           Ignore(n) \/ Refuse(n) \/ DropWhileConnecting(n) \/ GiveUp(n)
    PROVE  ReadInOrder' /\ SentLast' /\ SentInOrder'
<1>1. Recv(n)
    BY DEF Ignore, Refuse, DropWhileConnecting, GiveUp
<1>2. msg = <<>>
    BY <1>1, RecvOrdered
<1>3. UNCHANGED <<map_client, wpc, out>> /\ msg' = msg
    BY <1>2 DEF Ignore, Refuse, DropWhileConnecting, GiveUp, ELGoto, loop, worker
<1>4. /\ StoredMsg' = StoredMsg /\ Requested' = Requested /\ Starting' = Starting
      /\ epc' = "forward" => epc = "forward"
    BY <1>3
    DEF StoredMsg, Requested, Starting, Ignore, Refuse, DropWhileConnecting, GiveUp, ELGoto, loop
<1>5. PartOf(msg', msg) /\ PartOf(StoredMsg', StoredMsg) /\ PartOf(Requested', Requested)
    BY <1>3, <1>4 DEF PartOf, OrderInv, ReadInOrder
<1>6. PartOf(fromClient', fromClient) /\ UNCHANGED <<polite, opened, got, written, toTarget>>
    BY <1>1, RecvOrdered
<1> QED
    BY <1>3, <1>4, <1>5, <1>6, LessIsOrdered

(* The chunk that is stored is newer than all that was read before.        *)
LEMMA StoreIsOrdered ==
    ASSUME OrderInv, NEW n \in 1..MaxChunk, Insert(n)
    PROVE  ReadInOrder' /\ SentLast' /\ SentInOrder'
<1>1. Recv(n)
    BY DEF Insert
<1>2. /\ PartOf(Chunk(n), fromClient) /\ PartOf(fromClient', fromClient)
      /\ Below(Ids(Chunk(n)), Ids(fromClient')) /\ msg = <<>>
      /\ UNCHANGED <<polite, opened, got, written, toTarget>>
    BY <1>1, RecvOrdered
<1>3. StoredMsg' = Chunk(n)
    <2>1. TypeOK
        BY DEF OrderInv, HeardInv, ReplyInv, RelayInv
    <2> QED
        BY <2>1, InsertedRecord DEF StoredMsg
<1>4. wpc' = "begin" /\ msg' = <<>> /\ Requested' = <<>> /\ epc' # "forward"
    BY <1>2 DEF Insert, Recv, Requested
<1>5. conn' = conn /\ LastStored' = LastStored
    BY <1>2 DEF conn, LastStored, NoConn
<1>6. Older' \subseteq Older \cup Ids(Chunk(n))
    BY <1>2, <1>3, <1>5 DEF Older
<1>7. Ids(msg') = {} /\ Ids(Requested') = {} /\ Rising(msg') /\ Rising(Requested')
    BY <1>4, IdsOfEmpty
<1>8. Ids(Chunk(n)) \subseteq Ids(fromClient) /\ Ids(fromClient') \subseteq Ids(fromClient)
    BY <1>2 DEF PartOf
<1>9. ReadInOrder'
    <2>1. Rising(fromClient') /\ Rising(StoredMsg')
        BY <1>2, <1>3 DEF PartOf
    <2>2. \A i \in Older' \cup Ids(msg') \cup Ids(fromClient') : i <= written'
        BY <1>2, <1>6, <1>7, <1>8 DEF OrderInv, ReadInOrder
    <2>3. Below(Older' \cup Ids(msg'), Ids(fromClient'))
        BY <1>2, <1>6, <1>7, <1>8 DEF OrderInv, ReadInOrder, Below
    <2>4. Below(Older', Ids(msg'))
        BY <1>7 DEF Below
    <2> QED
        BY <1>7, <2>1, <2>2, <2>3, <2>4 DEF ReadInOrder
<1>10. SentLast'
    <2>1. Below(Ids(got') \cup Ids(toTarget'), Ids(StoredMsg'))
        BY <1>2, <1>3, <1>8 DEF OrderInv, ReadInOrder, Below, Older
    <2> QED
        BY <1>2, <1>4, <1>5, <1>7, <2>1 DEF OrderInv, SentLast
<1>11. SentInOrder'
    BY <1>2, <1>5, <1>7 DEF OrderInv, SentInOrder, Precedes, Stored, At
<1> QED
    BY <1>9, <1>10, <1>11

(* A restart stores the chunk that was read for it.                        *)
LEMMA RestartIsOrdered ==
    ASSUME OrderInv, Restart
    PROVE  ReadInOrder' /\ SentLast' /\ SentInOrder'
<1>1. /\ UNCHANGED <<polite, opened, got, written, fromClient, toTarget>>
      /\ wpc = "none" /\ wpc' = "begin" /\ msg' = <<>> /\ epc' # "forward"
    BY DEF Restart, InTime, ELGoto, client, clientSocket, remote
<1>2. StoredMsg' = msg
    <2>1. map_client' # NoClient /\ map_client'.msg = msg
        BY ChangedRecord DEF OrderInv, HeardInv, ReplyInv, RelayInv
    <2> QED
        BY <2>1 DEF StoredMsg
<1>3. /\ Requested' = <<>> /\ conn' = conn /\ LastStored' = LastStored
    BY <1>1 DEF Requested, conn, LastStored, NoConn
<1>4. Older' \subseteq Older \cup Ids(msg)
    BY <1>1, <1>2, <1>3 DEF Older
<1>5. Ids(msg') = {} /\ Ids(Requested') = {} /\ Rising(msg') /\ Rising(Requested')
    BY <1>1, <1>3, IdsOfEmpty
<1>6. ReadInOrder'
    BY <1>1, <1>2, <1>4, <1>5 DEF OrderInv, ReadInOrder, Below
<1>7. SentLast'
    <2>1. Below(Ids(got') \cup Ids(toTarget'), Ids(StoredMsg'))
        BY <1>1, <1>2 DEF OrderInv, ReadInOrder, Below, Older
    <2> QED
        BY <1>1, <1>3, <1>5, <2>1 DEF OrderInv, SentLast
<1>8. SentInOrder'
    BY <1>1, <1>3, <1>5 DEF OrderInv, SentInOrder, Precedes, Stored, At
<1> QED
    BY <1>6, <1>7, <1>8

(* The chunk that will be forwarded, or stored, is newer as well.          *)
LEMMA ProcessIsOrdered ==
    ASSUME OrderInv, NEW n \in 1..MaxChunk, Process(n) \/ Reconnect(n)
    PROVE  ReadInOrder' /\ SentLast' /\ SentInOrder'
<1>1. Recv(n)
    BY DEF Process, Reconnect
<1>2. /\ PartOf(Chunk(n), fromClient) /\ PartOf(fromClient', fromClient)
      /\ Below(Ids(Chunk(n)), Ids(fromClient')) /\ msg = <<>>
      /\ UNCHANGED <<polite, opened, got, written, toTarget>>
    BY <1>1, RecvOrdered
<1>3. /\ UNCHANGED <<map_client, wpc, out>> /\ msg' = Chunk(n)
      /\ Starting' = Starting /\ (Starting => epc' # "forward")
    BY DEF Process, Reconnect, ELGoto, worker, OrderInv, HeardInv, FlagAndChunk, Starting,
           MAP_CREATE_THREAD, MAP_CONNECT_SUCCESS, MAP_RECONNECT
<1>4. /\ StoredMsg' = StoredMsg /\ Requested' = Requested
      /\ conn' = conn /\ LastStored' = LastStored
    BY <1>2, <1>3 DEF conn, LastStored, NoConn, StoredMsg, Requested
<1>5. Older' = Older
    BY <1>2, <1>4 DEF Older
<1>6. Ids(Chunk(n)) \subseteq Ids(fromClient) /\ Ids(fromClient') \subseteq Ids(fromClient)
    BY <1>2 DEF PartOf
<1>7. ReadInOrder'
    <2>1. Rising(fromClient') /\ Rising(msg') /\ Rising(StoredMsg') /\ Rising(Requested')
        BY <1>2, <1>3, <1>4 DEF PartOf, OrderInv, ReadInOrder
    <2>2. \A i \in Older' \cup Ids(msg') \cup Ids(fromClient') : i <= written'
        BY <1>2, <1>3, <1>5, <1>6 DEF OrderInv, ReadInOrder
    <2>3. Below(Older' \cup Ids(msg'), Ids(fromClient'))
        BY <1>2, <1>3, <1>5, <1>6 DEF OrderInv, ReadInOrder, Below
    <2>4. Below(Older', Ids(msg'))
        BY <1>3, <1>5, <1>6 DEF OrderInv, ReadInOrder, Below
    <2> QED
        BY <2>1, <2>2, <2>3, <2>4 DEF ReadInOrder
<1>8. SentLast'
    BY <1>2, <1>3, <1>4 DEF OrderInv, SentLast
<1>9. SentInOrder'
    BY <1>2, <1>4 DEF OrderInv, SentInOrder, Precedes, Stored, At
<1> QED
    BY <1>7, <1>8, <1>9
----------------------------------------------------------------------------
(* A piece that may follow all that is on its way may be sent.             *)
LEMMA SendKeepsOrder ==
    ASSUME OrderInv, NEW e \in Piece,
           \A i \in Ids(toTarget) : Precedes(At(i), At(e.id))
    PROVE  LET q == Append(toTarget, e) IN
           \A i, j \in DOMAIN q : i < j => Precedes(At(q[i].id), At(q[j].id))
<1> DEFINE q == Append(toTarget, e)
<1> SUFFICES ASSUME NEW i \in DOMAIN q, NEW j \in DOMAIN q, i < j
             PROVE  Precedes(At(q[i].id), At(q[j].id))
    OBVIOUS
<1>1. toTarget \in Seq(Piece)
    BY OrderTypes DEF OrderInv
<1>2. Len(toTarget) \in Nat /\ DOMAIN toTarget = 1..Len(toTarget)
    BY <1>1, LenProperties
<1>3. /\ DOMAIN q = 1..(Len(toTarget) + 1)
      /\ \A k \in 1..Len(toTarget) : q[k] = toTarget[k]
      /\ q[Len(toTarget) + 1] = e
    BY <1>1, AppendProperties, LenProperties
<1> HIDE DEF q
<1>4. i \in DOMAIN toTarget /\ q[i] = toTarget[i] /\ toTarget[i].id \in Ids(toTarget)
    BY <1>2, <1>3 DEF Ids
<1>5. CASE j \in DOMAIN toTarget
    <2>1. q[j] = toTarget[j]
        BY <1>2, <1>3, <1>5
    <2> QED
        BY <1>4, <1>5, <2>1 DEF OrderInv, SentInOrder
<1>6. CASE j \notin DOMAIN toTarget
    <2>1. q[j] = e
        BY <1>2, <1>3, <1>6
    <2> QED
        BY <1>4, <2>1
<1> QED
    BY <1>5, <1>6

(* What is forwarded may follow all that was sent, and only the stored     *)
(* message that is being sent may follow it: never for a polite client,    *)
(* which has one piece in flight.                                          *)
LEMMA ForwardFollows ==
    ASSUME OrderInv, msg # <<>>, conn # 0
    PROVE  LET x == Head(msg).id IN
           /\ \A k \in DOMAIN got : Precedes(got[k], At(x))
           /\ \A i \in Ids(toTarget) : Precedes(At(i), At(x))
           /\ \A j \in Ids(Requested) : Precedes(At(x), At(j))
<1> DEFINE x == Head(msg).id
<1>1. x \in Ids(msg)
    BY OrderTypes, IdsTake DEF OrderInv
<1> HIDE DEF x
<1>2. \A i \in Older : i < x
    BY <1>1 DEF OrderInv, ReadInOrder, Below
<1>3. \A k \in DOMAIN got : got[k].id < x
    BY <1>2 DEF Older, Ids
<1>4. \A i \in Ids(toTarget) : i < x
    BY <1>2 DEF Older
<1>5. ASSUME NEW j \in Ids(Requested) PROVE Precedes(At(x), At(j))
    <2>1. j \in Ids(LastStored)
        BY <1>5 DEF OrderInv, SentLast
    <2>2. x \notin Ids(LastStored)
        <3>1. Ids(LastStored) \subseteq Nat /\ \A i \in Ids(LastStored) : i < x
            BY <1>2, IdsType DEF Older, OrderInv
        <3> QED
            BY <3>1
    <2>3. Stored(At(j)) /\ ~Stored(At(x))
        BY <2>1, <2>2, StoredIsLast DEF OrderInv
    <2>4. ~polite
        <3>1. HeardInv /\ ReplyInv
            BY DEF OrderInv, HeardInv
        <3>2. Requested # <<>>
            BY <1>5, IdsOfEmpty
        <3>3. Len(Requested) >= 1
            BY <3>1, <3>2, PiecesType, Lengths
        <3>4. Len(msg) >= 1
            BY <3>1, CountType
        <3>5. InFlight > 1
            BY <3>1, <3>3, <3>4, CountType DEF InFlight, Pieces
        <3> QED
            BY <3>1, <3>5, CountType DEF HeardInv, OneAtATime
    <2> QED
        BY <2>3, <2>4 DEF Precedes, At
<1> QED
    BY <1>3, <1>4, <1>5 DEF Precedes, At, x

(* The event loop forwards the first piece of its chunk.                   *)
LEMMA ForwardIsOrdered ==
    ASSUME OrderInv, Forward
    PROVE  ReadInOrder' /\ SentLast' /\ SentInOrder'
<1> USE DEF client, clientSocket
<1>1. msg # <<>> /\ ~Starting /\ epc = "forward"
    BY DEF Forward, OrderInv, HeardInv, ReplyInv, RelayInv, Sending, SentLast
<1>2. /\ UNCHANGED <<polite, opened, got, written, fromClient, map_client, wpc, out>>
      /\ msg' = Tail(msg) /\ ~Starting'
    BY <1>1 DEF Forward, ELGoto, worker, Starting
<1>3. /\ StoredMsg' = StoredMsg /\ Requested' = Requested
      /\ conn' = conn /\ LastStored' = LastStored
    BY <1>2 DEF conn, LastStored, NoConn, StoredMsg, Requested
<1>4. msg \in Seq(Piece) /\ Head(msg) \in Piece /\ toTarget \in Seq(Piece)
    BY <1>1, OrderTypes, Queues DEF OrderInv
<1>5. /\ Ids(msg) = {Head(msg).id} \cup Ids(msg')
      /\ Rising(msg') /\ Below({Head(msg).id}, Ids(msg'))
    BY <1>1, <1>2, <1>4, IdsTake DEF OrderInv, ReadInOrder
<1>6. CASE UNCHANGED toTarget
    <2>1. /\ PartOf(fromClient', fromClient) /\ PartOf(msg', msg)
          /\ PartOf(StoredMsg', StoredMsg) /\ PartOf(Requested', Requested)
        BY <1>2, <1>3, <1>5 DEF PartOf, OrderInv, ReadInOrder
    <2> QED
        BY <1>1, <1>2, <1>6, <2>1, LessIsOrdered
<1>7. CASE ~UNCHANGED toTarget
    <2> DEFINE x == Head(msg).id
    <2>1. toTarget' = Append(toTarget, Head(msg)) /\ conn # 0
        BY <1>7 DEF Forward, SendToTarget, tf_send, Reaches, NoConn
    <2>2. Ids(toTarget') = Ids(toTarget) \cup {x}
        BY <1>4, <2>1, IdsAppend
    <2>3. Older' = Older \cup {x}
        BY <1>2, <1>3, <2>2 DEF Older
    <2>4. /\ \A k \in DOMAIN got : Precedes(got[k], At(x))
          /\ \A i \in Ids(toTarget) : Precedes(At(i), At(x))
          /\ \A j \in Ids(Requested) : Precedes(At(x), At(j))
        BY <1>1, <2>1, ForwardFollows
    <2>5. LET q == Append(toTarget, Head(msg)) IN
          \A i, j \in DOMAIN q : i < j => Precedes(At(q[i].id), At(q[j].id))
        BY <1>4, <2>4, SendKeepsOrder
    <2> HIDE DEF x
    <2>6. ReadInOrder'
        <3>1. x \in Ids(msg) /\ Ids(msg') \subseteq Ids(msg) /\ Rising(msg') /\ Below({x}, Ids(msg'))
            BY <1>5 DEF x
        <3>2. /\ Rising(fromClient') /\ Rising(StoredMsg') /\ Rising(Requested')
              /\ Below(Older' \cup Ids(msg'), Ids(fromClient'))
              /\ Below(Older', Ids(msg'))
            BY <1>2, <1>3, <2>3, <3>1 DEF OrderInv, ReadInOrder, Below
        <3>3. \A i \in Older' \cup Ids(msg') \cup Ids(fromClient') : i <= written'
            BY <1>2, <2>3, <3>1 DEF OrderInv, ReadInOrder
        <3> QED
            BY <3>1, <3>2, <3>3 DEF ReadInOrder
    <2>7. SentLast'
        BY <1>1, <1>2, <1>3 DEF OrderInv, SentLast
    <2>8. SentInOrder'
        <3>1. \A i, j \in DOMAIN got' : i < j => Precedes(got[i], got[j])'
            BY <1>2 DEF OrderInv, SentInOrder, Precedes, Stored
        <3>2. \A i, j \in DOMAIN toTarget' :
                i < j => Precedes(At(toTarget[i].id), At(toTarget[j].id))'
            BY <1>2, <1>3, <2>1, <2>5 DEF Precedes, Stored, At
        <3>3. \A k \in DOMAIN got', j \in Ids(toTarget') \cup Ids(Requested') :
                Precedes(got[k], At(j))'
            BY <1>2, <1>3, <2>2, <2>4 DEF OrderInv, SentInOrder, Precedes, Stored, At
        <3>4. \A i \in Ids(toTarget'), j \in Ids(Requested') : Precedes(At(i), At(j))'
            BY <1>2, <1>3, <2>2, <2>4 DEF OrderInv, SentInOrder, Precedes, Stored, At
        <3> QED
            BY <3>1, <3>2, <3>3, <3>4 DEF SentInOrder
    <2> QED
        BY <2>6, <2>7, <2>8
<1> QED
    BY <1>6, <1>7

(* The worker sends the rest of the stored message in its order.           *)
LEMMA RequestIsOrdered ==
    ASSUME OrderInv, SendRequest
    PROVE  ReadInOrder' /\ SentLast' /\ SentInOrder'
<1> USE DEF client, clientSocket, loop
<1>1. /\ UNCHANGED <<polite, opened, got, written, fromClient, map_client, msg>>
      /\ wpc = "request" /\ ~Starting' /\ epc' = epc /\ out' = Tail(out)
      /\ wpc' = IF Len(out) = 1 THEN "recv" ELSE "request"
    BY DEF SendRequest, WGoto, Starting
<1>2. Requested = out /\ Requested # <<>> /\ Requested \in Seq(Piece) /\ toTarget \in Seq(Piece)
    BY <1>1, OrderTypes DEF Requested, OrderInv, HeardInv, ReplyInv, RelayInv, Sending
<1>3. Head(Requested) \in Piece /\ Requested' = Tail(Requested)
    BY <1>1, <1>2, Queues DEF Requested
<1>4. StoredMsg' = StoredMsg /\ conn' = conn /\ LastStored' = LastStored
    BY <1>1 DEF conn, LastStored, NoConn, StoredMsg
<1> DEFINE x == Head(Requested).id
<1>5. /\ Ids(Requested) = {x} \cup Ids(Requested')
      /\ Rising(Requested') /\ Below({x}, Ids(Requested'))
    BY <1>2, <1>3, IdsTake DEF OrderInv, ReadInOrder
<1>6. x \in Ids(Requested) /\ x \in Ids(LastStored) /\ Ids(Requested') \subseteq Ids(Requested)
    BY <1>5 DEF OrderInv, SentLast
<1>7. CASE UNCHANGED toTarget
    <2>1. /\ PartOf(fromClient', fromClient) /\ PartOf(msg', msg)
          /\ PartOf(StoredMsg', StoredMsg) /\ PartOf(Requested', Requested)
        BY <1>1, <1>4, <1>5 DEF PartOf, OrderInv, ReadInOrder
    <2> QED
        BY <1>1, <1>7, <2>1, LessIsOrdered
<1>8. CASE ~UNCHANGED toTarget
    <2>1. toTarget' = Append(toTarget, Head(Requested))
        BY <1>2, <1>8 DEF SendRequest, SendToTarget, tf_send
    <2>2. Ids(toTarget') = Ids(toTarget) \cup {x}
        <3>1. \A e \in Piece : Ids(Append(toTarget, e)) = Ids(toTarget) \cup {e.id}
            BY <1>2, IdsAppend
        <3> QED
            BY <1>3, <2>1, <3>1
    <2>3. /\ \A k \in DOMAIN got : Precedes(got[k], At(x))
          /\ \A i \in Ids(toTarget) : Precedes(At(i), At(x))
          /\ \A j \in Ids(Requested') : Precedes(At(x), At(j))
        <3>1. \A j \in Ids(Requested') : Precedes(At(x), At(j))
            BY <1>5 DEF Below, Precedes, At
        <3> QED
            BY <1>6, <3>1 DEF OrderInv, SentInOrder
    <2>4. LET q == Append(toTarget, Head(Requested)) IN
          \A i, j \in DOMAIN q : i < j => Precedes(At(q[i].id), At(q[j].id))
        BY <1>3, <2>3, SendKeepsOrder
    <2> HIDE DEF x
    <2>5. Older' = Older
        BY <1>1, <1>4, <1>6, <2>2 DEF Older
    <2>6. ReadInOrder'
        BY <1>1, <1>4, <1>5, <2>5 DEF OrderInv, ReadInOrder
    <2>7. SentLast'
        BY <1>1, <1>4, <1>6 DEF OrderInv, SentLast
    <2>8. SentInOrder'
        <3>1. \A i, j \in DOMAIN got' : i < j => Precedes(got[i], got[j])'
            BY <1>1 DEF OrderInv, SentInOrder, Precedes, Stored
        <3>2. \A i, j \in DOMAIN toTarget' :
                i < j => Precedes(At(toTarget[i].id), At(toTarget[j].id))'
            BY <1>1, <1>4, <2>1, <2>4 DEF Precedes, Stored, At
        <3>3. \A k \in DOMAIN got', j \in Ids(toTarget') \cup Ids(Requested') :
                Precedes(got[k], At(j))'
            BY <1>1, <1>4, <1>6, <2>2, <2>3 DEF OrderInv, SentInOrder, Precedes, Stored, At
        <3>4. \A i \in Ids(toTarget'), j \in Ids(Requested') : Precedes(At(i), At(j))'
            BY <1>1, <1>4, <1>6, <2>2, <2>3 DEF OrderInv, SentInOrder, Precedes, Stored, At
        <3> QED
            BY <3>1, <3>2, <3>3, <3>4 DEF SentInOrder
    <2> QED
        BY <2>6, <2>7, <2>8
<1> QED
    BY <1>7, <1>8

(* A new connection: nothing was sent over it, and its stored message is   *)
(* newer than all that targets have received.                              *)
LEMMA ConnectedIsOrdered ==
    ASSUME OrderInv, Connected
    PROVE  ReadInOrder' /\ SentLast' /\ SentInOrder'
<1> USE DEF client, clientSocket
<1> DEFINE c == [client |-> clients, target |-> map_client.connect_name, stored |-> map_client.msg]
<1>1. /\ UNCHANGED <<polite, got, written, fromClient, msg>>
      /\ Starting /\ ~Starting' /\ toTarget' = <<>>
      /\ opened' = Append(opened, c) /\ map_client # NoClient
    BY DEF Connected, WGoto, Open, Starting
<1>2. opened \in Seq([client : Nat, target : TargetNames, stored : Seq(Piece)])
    BY DEF OrderInv, HeardInv, ReplyInv, RelayInv, TypeOK, RemoteType
<1>3. c \in [client : Nat, target : TargetNames, stored : Seq(Piece)]
    <2>1. map_client \in MapClient /\ clients \in Nat
        BY <1>1 DEF OrderInv, HeardInv, ReplyInv, RelayInv, TypeOK, LoopType, ClientType
    <2> QED
        BY <2>1 DEF MapClient
<1> HIDE DEF c
<1>4. /\ conn \in Nat /\ conn' = conn + 1 /\ opened'[conn + 1] = c
      /\ \A k \in 1..conn : opened'[k] = opened[k]
    BY <1>1, <1>2, <1>3, AppendProperties, LenProperties DEF conn
<1>5. StoredMsg = map_client.msg /\ StoredMsg' = StoredMsg /\ LastStored' = StoredMsg
    <2>1. StoredMsg = map_client.msg
        BY <1>1 DEF StoredMsg
    <2>2. StoredMsg' = StoredMsg
        <3>1. map_client' # NoClient /\ map_client'.msg = map_client.msg
            BY ChangedRecord DEF OrderInv, HeardInv, ReplyInv, RelayInv
        <3> QED
            BY <2>1, <3>1 DEF StoredMsg
    <2>3. LastStored' = opened'[conn + 1].stored
        BY <1>4 DEF LastStored, NoConn
    <2> QED
        BY <1>4, <2>1, <2>2, <2>3 DEF c
<1>6. Requested' \in {StoredMsg, <<>>}
    BY <1>5 DEF Connected, WGoto, Opening, Requested
<1>7. Rising(Requested') /\ Ids(Requested') \subseteq Ids(StoredMsg)
    BY <1>6, IdsOfEmpty DEF OrderInv, ReadInOrder
<1>8. Older' \subseteq Older
    BY <1>1, <1>5, IdsOfEmpty DEF Older
<1>9. ReadInOrder'
    BY <1>1, <1>5, <1>7, <1>8 DEF OrderInv, ReadInOrder, Below
<1>10. SentLast'
    BY <1>1, <1>4, <1>5, <1>7 DEF OrderInv, SentLast
<1>11. SentInOrder'
    <2>1. \A i, j \in DOMAIN got' : i < j => Precedes(got[i], got[j])'
        <3> SUFFICES ASSUME NEW i \in DOMAIN got, NEW j \in DOMAIN got, i < j
                     PROVE  Precedes(got[i], got[j])'
            BY <1>1
        <3>1. \A k \in DOMAIN got : opened'[got[k].conn] = opened[got[k].conn]
            BY <1>4 DEF OrderInv, SentLast
        <3>2. (Stored(got[i])' <=> Stored(got[i])) /\ (Stored(got[j])' <=> Stored(got[j]))
            BY <1>1, <3>1 DEF Stored
        <3>3. Precedes(got[i], got[j])
            BY DEF OrderInv, SentInOrder
        <3> QED
            BY <1>1, <3>2, <3>3 DEF Precedes
    <2>2. \A k \in DOMAIN got, j \in Ids(StoredMsg) : got[k].id < j
        BY <1>1 DEF OrderInv, SentLast, Below, Ids
    <2>3. \A k \in DOMAIN got', j \in Ids(Requested') : Precedes(got[k], At(j))'
        BY <1>1, <1>7, <2>2 DEF Precedes, At
    <2>4. Ids(toTarget') = {} /\ DOMAIN toTarget' = {}
        BY <1>1, IdsOfEmpty
    <2> QED
        BY <2>1, <2>3, <2>4 DEF SentInOrder
<1> QED
    BY <1>9, <1>10, <1>11

(* A target reads its pieces in the order of its socket.                   *)
LEMMA TargetReadIsOrdered ==
    ASSUME OrderInv, TargetReads
    PROVE  ReadInOrder' /\ SentLast' /\ SentInOrder'
<1> USE DEF client, clientSocket, loop, worker
<1> DEFINE x == Head(toTarget).id
           e == At(x)
<1>1. /\ UNCHANGED <<polite, opened, written, fromClient, msg, map_client, wpc, out, epc>>
      /\ toTarget # <<>> /\ toTarget' = Tail(toTarget) /\ got' = Append(got, e) /\ target
    BY DEF TargetReads, At
<1>2. /\ toTarget \in Seq(Piece) /\ got \in Seq([id : Nat, conn : Nat])
      /\ Head(toTarget) \in Piece /\ conn \in Nat
    BY <1>1, OrderTypes, Queues DEF OrderInv
<1>3. conn \in 1..conn
    BY <1>1, <1>2 DEF OrderInv, HeardInv, ReplyInv, RelayInv, Owned
<1>4. e \in [id : Nat, conn : Nat] /\ e.id = x /\ e.conn = conn
    BY <1>2 DEF At, Piece
<1>5. /\ StoredMsg' = StoredMsg /\ Requested' = Requested
      /\ conn' = conn /\ LastStored' = LastStored /\ Starting' = Starting
    BY <1>1 DEF conn, LastStored, NoConn, StoredMsg, Requested, Starting
<1>6. Ids(toTarget) = {x} \cup Ids(toTarget')
    BY <1>1, <1>2, IdsTake
<1>7. Ids(got') = Ids(got) \cup {x}
    <2> DEFINE Receipt == [id : Nat, conn : Nat]
    <2>1. got \in Seq(Receipt) /\ e \in Receipt
        BY <1>2, <1>4
    <2> HIDE DEF Receipt, e
    <2>2. Ids(Append(got, e)) = Ids(got) \cup {e.id}
        BY <2>1, IdsAppend
    <2> QED
        BY <1>1, <1>4, <2>2 DEF e
<1>8. Older' = Older
    BY <1>5, <1>6, <1>7 DEF Older
<1>9. /\ Len(got) \in Nat /\ DOMAIN got = 1..Len(got)
      /\ DOMAIN got' = 1..(Len(got) + 1)
      /\ \A k \in 1..Len(got) : got'[k] = got[k]
      /\ got'[Len(got) + 1] = e
    BY <1>1, <1>2, <1>4, AppendProperties, LenProperties
<1>10. /\ Len(toTarget) \in Nat /\ DOMAIN toTarget = 1..Len(toTarget) /\ 1 \in DOMAIN toTarget
       /\ Head(toTarget) = toTarget[1]
       /\ \A k \in DOMAIN toTarget' : k + 1 \in DOMAIN toTarget /\ toTarget'[k] = toTarget[k + 1]
                                      /\ k \in Nat /\ 1 < k + 1
    BY <1>1, <1>2, HeadTailProperties, LenProperties, EmptySeq
<1>11. \A j \in Ids(toTarget') : Precedes(e, At(j))
    <2> SUFFICES ASSUME NEW k \in DOMAIN toTarget' PROVE Precedes(e, At(toTarget'[k].id))
        BY DEF Ids
    <2>1. Precedes(At(toTarget[1].id), At(toTarget[k + 1].id))
        BY <1>10 DEF OrderInv, SentInOrder
    <2> QED
        BY <1>10, <2>1
<1> HIDE DEF e, x
<1>12. ReadInOrder'
    BY <1>1, <1>5, <1>8 DEF OrderInv, ReadInOrder
<1>13. SentLast'
    <2>1. \A k \in DOMAIN got' : got'[k].conn \in 1..conn
        BY <1>3, <1>4, <1>9 DEF OrderInv, SentLast
    <2>2. Ids(got') \cup Ids(toTarget') = Ids(got) \cup Ids(toTarget)
        BY <1>6, <1>7
    <2> QED
        BY <1>1, <1>5, <2>1, <2>2 DEF OrderInv, SentLast
<1>14. SentInOrder'
    <2>1. \A k \in DOMAIN got : Precedes(got[k], e)
        BY <1>6 DEF OrderInv, SentInOrder, e
    <2>2. \A i, j \in DOMAIN got' : i < j => Precedes(got[i], got[j])'
        <3> SUFFICES ASSUME NEW i \in DOMAIN got', NEW j \in DOMAIN got', i < j
                     PROVE  Precedes(got[i], got[j])'
            OBVIOUS
        <3>1. Precedes(got'[i], got'[j])
            BY <1>9, <2>1 DEF OrderInv, SentInOrder
        <3> QED
            BY <1>1, <3>1 DEF Precedes, Stored
    <2>3. \A i, j \in DOMAIN toTarget' :
            i < j => Precedes(At(toTarget[i].id), At(toTarget[j].id))'
        <3>1. \A i, j \in DOMAIN toTarget' :
                i < j => Precedes(At(toTarget'[i].id), At(toTarget'[j].id))
            <4> SUFFICES ASSUME NEW i \in DOMAIN toTarget', NEW j \in DOMAIN toTarget', i < j
                         PROVE  Precedes(At(toTarget'[i].id), At(toTarget'[j].id))
                OBVIOUS
            <4>1. i + 1 \in DOMAIN toTarget /\ j + 1 \in DOMAIN toTarget /\ i + 1 < j + 1
                BY <1>10
            <4>2. Precedes(At(toTarget[i + 1].id), At(toTarget[j + 1].id))
                BY <4>1 DEF OrderInv, SentInOrder
            <4> QED
                BY <1>10, <4>2
        <3> QED
            BY <1>1, <1>5, <3>1 DEF Precedes, Stored, At
    <2>4. \A k \in DOMAIN got', j \in Ids(toTarget') \cup Ids(Requested') : Precedes(got[k], At(j))'
        <3>1. \A j \in Ids(toTarget') \cup Ids(Requested') : Precedes(e, At(j))
            BY <1>5, <1>6, <1>11 DEF OrderInv, SentInOrder, e
        <3> SUFFICES ASSUME NEW k \in DOMAIN got', NEW j \in Ids(toTarget') \cup Ids(Requested')
                     PROVE  Precedes(got[k], At(j))'
            OBVIOUS
        <3>2. Precedes(got'[k], At(j))
            BY <1>5, <1>6, <1>9, <3>1 DEF OrderInv, SentInOrder
        <3> QED
            BY <1>1, <1>5, <3>2 DEF Precedes, Stored, At
    <2>5. \A i \in Ids(toTarget'), j \in Ids(Requested') : Precedes(At(i), At(j))'
        BY <1>1, <1>5, <1>6 DEF OrderInv, SentInOrder, Precedes, Stored, At
    <2> QED
        BY <2>2, <2>3, <2>4, <2>5 DEF SentInOrder
<1> QED
    BY <1>12, <1>13, <1>14
----------------------------------------------------------------------------
(* The other actions leave the pieces alone, or the queues are emptied.    *)
LEMMA GoneIsOrdered ==
    ASSUME OrderInv, UNCHANGED <<polite, opened, got, written>>,
           fromClient' \in {fromClient, <<>>}, msg' \in {msg, <<>>}, toTarget' \in {toTarget, <<>>},
           StoredMsg' \in {StoredMsg, <<>>}, Requested' \in {Requested, <<>>},
           Starting' => Starting, epc' = "forward" => epc = "forward"
    PROVE  ReadInOrder' /\ SentLast' /\ SentInOrder'
<1>1. PartOf(fromClient', fromClient) /\ PartOf(msg', msg)
    BY IdsOfEmpty DEF PartOf, OrderInv, ReadInOrder
<1>2. PartOf(StoredMsg', StoredMsg) /\ PartOf(Requested', Requested)
    BY IdsOfEmpty DEF PartOf, OrderInv, ReadInOrder
<1> QED
    BY <1>1, <1>2, LessIsOrdered

(* These are all of them.                                                  *)
LEMMA OthersAreOrdered ==
    ASSUME OrderInv,
           \/ ClientGone \/ RestartTooEarly \/ ReplyEstablished \/ CloseClient \/ StopWorker
           \/ LeaveWorker
           \/ Begin \/ ConnectFails \/ SendReply \/ TargetGone \/ MarkReconnect \/ ForgetTarget
           \/ \E n \in 1..MaxChunk : RecvTarget(n)
           \/ TargetReplies \/ TargetCloses \/ Accept \/ ClientReads \/ ClientCloses
           \/ UNCHANGED vars
    PROVE  ReadInOrder' /\ SentLast' /\ SentInOrder'
<1> USE DEF client, clientSocket, loop, worker, remote
<1>1. CASE \/ ClientGone \/ RestartTooEarly \/ ReplyEstablished \/ CloseClient \/ SendReply
           \/ TargetGone \/ \E n \in 1..MaxChunk : RecvTarget(n)
           \/ TargetReplies \/ TargetCloses \/ Accept \/ ClientReads \/ ClientCloses
           \/ UNCHANGED vars
    <2>1. /\ UNCHANGED <<polite, opened, got, written, map_client>>
          /\ fromClient' \in {fromClient, <<>>} /\ msg' \in {msg, <<>>} /\ toTarget' \in {toTarget, <<>>}
          /\ epc' = "forward" => epc = "forward"
        BY <1>1
        DEF ClientGone, RestartTooEarly, ReplyEstablished, CloseClient, SendReply, TargetGone,
            RecvTarget, TargetReplies, TargetCloses, Accept, ClientReads, ClientCloses, ELGoto, vars
    <2>2. Requested' \in {Requested, <<>>} /\ (Starting' => Starting)
        BY <1>1
        DEF ClientGone, RestartTooEarly, ReplyEstablished, CloseClient, SendReply, TargetGone,
            RecvTarget, TargetReplies, TargetCloses, Accept, ClientReads, ClientCloses, WGoto,
            Requested, Starting, vars
    <2>3. StoredMsg' = StoredMsg
        BY <2>1 DEF StoredMsg
    <2> QED
        BY <2>1, <2>2, <2>3, GoneIsOrdered
<1>2. CASE StopWorker \/ LeaveWorker
    <2>1. /\ StoredMsg' = <<>> /\ Requested' \in {Requested, <<>>} /\ (Starting' => Starting)
          /\ epc' # "forward"
        BY <1>2 DEF StopWorker, LeaveWorker, ELGoto, StoredMsg, Requested, Starting
    <2> QED
        BY <1>2, <2>1, GoneIsOrdered DEF StopWorker, LeaveWorker, ELGoto
<1>3. CASE Begin \/ ConnectFails \/ MarkReconnect \/ ForgetTarget
    <2>1. TypeOK
        BY DEF OrderInv, HeardInv, ReplyInv, RelayInv
    <2>2. map_client # NoClient /\ map_client' # NoClient /\ map_client'.msg = map_client.msg
        BY <1>3, <2>1, ChangedRecord DEF Begin, ConnectFails, MarkReconnect, ForgetTarget
    <2>3. StoredMsg' = StoredMsg
        BY <2>2 DEF StoredMsg
    <2>4. Requested' = Requested /\ (Starting' => Starting)
        BY <1>3 DEF Begin, ConnectFails, MarkReconnect, ForgetTarget, WGoto, Requested, Starting
    <2> QED
        BY <1>3, <2>3, <2>4, GoneIsOrdered DEF Begin, ConnectFails, MarkReconnect, ForgetTarget
<1> QED
    BY <1>1, <1>2, <1>3

----------------------------------------------------------------------------
LEMMA InitOrder == Init => OrderInv
<1> SUFFICES ASSUME Init PROVE OrderInv
    OBVIOUS
<1>1. HeardInv
    BY InitHeard
<1>2. StoredMsg = <<>> /\ LastStored = <<>> /\ Requested = <<>>
    BY DEF Init, StoredMsg, LastStored, Requested, conn, NoConn
<1>3. fromClient = <<>> /\ msg = <<>> /\ toTarget = <<>> /\ got = <<>>
    BY DEF Init
<1>4. ReadInOrder
    BY <1>2, <1>3, IdsOfEmpty DEF ReadInOrder, Older, Below
<1>5. SentLast
    BY <1>2, <1>3, IdsOfEmpty DEF SentLast, Starting, Below, Init
<1>6. SentInOrder
    BY <1>2, <1>3, IdsOfEmpty DEF SentInOrder
<1> QED
    BY <1>1, <1>4, <1>5, <1>6 DEF OrderInv

LEMMA NextOrder == OrderInv /\ [Next]_vars => OrderInv'
<1> SUFFICES ASSUME OrderInv, [Next]_vars PROVE OrderInv'
    OBVIOUS
<1>1. HeardInv'
    BY NextHeard DEF OrderInv
<1>2. ReadInOrder' /\ SentLast' /\ SentInOrder'
    <2>1. CASE EventLoop
        BY <2>1, DropIsOrdered, StoreIsOrdered, RestartIsOrdered, ProcessIsOrdered, ForwardIsOrdered,
           OthersAreOrdered
        DEF EventLoop
    <2>2. CASE Worker
        BY <2>2, ConnectedIsOrdered, RequestIsOrdered, OthersAreOrdered DEF Worker
    <2>3. CASE Target \/ ClientListens
        BY <2>3, TargetReadIsOrdered, OthersAreOrdered DEF Target, ClientListens
    <2>4. CASE Others
        BY <2>4, WriteIsOrdered, OthersAreOrdered DEF Others
    <2>5. CASE UNCHANGED vars
        BY <2>5, OthersAreOrdered
    <2> QED
        BY <2>1, <2>2, <2>3, <2>4, <2>5 DEF Next
<1> QED
    BY <1>1, <1>2 DEF OrderInv

LEMMA OrderInvariant == Spec => []OrderInv
BY InitOrder, NextOrder, PTL DEF Spec

(* Targets receive no piece twice and pieces in the order in which they    *)
(* were written, except that the stored message of a connection may be     *)
(* overtaken by what is forwarded while it is being sent (connect_target,  *)
(* 747 to 760): never for a polite client.                                 *)
THEOREM ForwardedOrder == Spec => []ForwardedInOrder
<1>1. OrderInv => ForwardedInOrder
    BY DEF OrderInv, SentInOrder, Precedes, ForwardedInOrder
<1> QED
    BY OrderInvariant, <1>1, PTL
=============================================================================
