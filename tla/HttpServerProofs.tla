--------------------------- MODULE HttpServerProofs ---------------------------
(* Proofs about HttpServer: with one listening socket every connection is   *)
(* served by its own thread, credentials are enforced, every client gets one*)
(* answer, and only a command reaches in front of the plugins, for every    *)
(* number of clients, stray threads, descriptors and plugins.               *)
EXTENDS HttpServer, SequenceTheorems, TLAPS

\* The cfd structure the server has allocated is used for one accept.  With
\* two sockets ready at once it is used for both: see HttpServerDual.cfg.
OneSocket == \A s1, s2 \in Socks : s1 = s2

Stalls    == {"line", "headers", "endless", "never"}
ReqType   == [kind : Kinds \cup {"unknown"}, n : Int, ok : BOOLEAN,
              auth : BOOLEAN, stall : Stalls]
AtWork    == {"line", "headers", "auth", "range", "answer", "stream", "close"}
ThreadPC  == AtWork \cup {"none", "start", "ended"}

----------------------------------------------------------------------------
(* Who serves a connection.                                                 *)

Typed ==
    /\ conf \in Configs
    /\ asked \in [Conns -> AllRequests \cup {NoReq}]
    /\ backlog \in [Socks -> SUBSET Conns]
    /\ server \in {"alloc", "select", "accept", "crashed"}
    /\ pcfd \in Cells \cup {None} /\ ready \subseteq Socks
    /\ heap \in [Cells -> [live : BOOLEAN, fd : Fds \cup {0}]]
    /\ peer \in [Fds -> Conns \cup {None}]
    /\ pc \in [Threads -> ThreadPC]
    /\ arg \in [Threads -> Cells \cup {None}] /\ fd \in [Threads -> Fds \cup {0}]

\* A connection is asked for, waits in a backlog, then has a thread.
Waiting ==
    \A c \in Conns : /\ pc[c] # "none" => asked[c] # NoReq
                     /\ \A s \in Socks : c \in backlog[s] =>
                            pc[c] = "none" /\ asked[c] # NoReq

\* The structure that the server will fill is allocated, and was handed to no
\* thread that has yet to read it; those of two such threads differ.
Handed ==
    /\ server \in {"select", "accept"} =>
          /\ pcfd \in Cells /\ heap[pcfd].live
          /\ \A t \in Threads : pc[t] = "start" => arg[t] # pcfd
    /\ \A t \in Threads : pc[t] = "start" =>
          arg[t] \in Cells /\ heap[arg[t]].live
    /\ \A t \in Conns : pc[t] = "start" =>
          heap[arg[t]].fd \in Fds /\ peer[heap[arg[t]].fd] = t
    /\ \A t, u \in Threads :
          pc[t] = "start" /\ pc[u] = "start" /\ t # u => arg[t] # arg[u]

\* A thread at work has an open descriptor, that of its own connection.
Own(t) == pc[t] \in AtWork => fd[t] \in Fds /\ peer[fd[t]] = t

\* A stray thread has none, and reads no request line.
StrayPC  == {"none", "start", "line", "close", "ended"}
Stray(t) == /\ pc[t] \in StrayPC /\ fd[t] = 0
            /\ pc[t] = "start" => heap[arg[t]].fd = 0

Served == /\ Typed /\ Waiting /\ Handed
          /\ \A t \in Conns : Own(t)
          /\ \A t \in Strays : Stray(t)

LEMMA NoReqIsReq ==
  ASSUME NEW r \in AllRequests
  PROVE  /\ r # NoReq /\ r \in ReqType
         /\ r.kind # "command" => r.n >= 0
BY RequestsOK DEF AllRequests, Request, NoReq, Kinds, ReqType, Stalls

LEMMA ThreadSets ==
  /\ \A c \in Conns : c \in Threads /\ c \notin Strays
  /\ \A c \in Strays : c \in Threads /\ c \notin Conns
  /\ \A t \in Threads : t \in Conns \/ t \in Strays
  /\ 0 \notin Fds
BY ThreadsOK DEF Threads, Fds

LEMMA ServedInit == Init => Served
<1> SUFFICES ASSUME Init PROVE Served
  OBVIOUS
<1>1. Typed
  BY DEF Init, Typed, ThreadPC
<1>2. Waiting /\ Handed
  BY ThreadSets DEF Init, Waiting, Handed
<1>3. (\A t \in Conns : Own(t)) /\ \A t \in Strays : Stray(t)
  BY ThreadSets DEF Init, Own, AtWork, Stray, StrayPC
<1> QED
  BY <1>1, <1>2, <1>3 DEF Served

LEMMA ServedConnect ==
  ASSUME Served, NEW c \in Conns, Connect(c)
  PROVE  Served'
<1> USE DEF Served, Connect, srvvars, thrvars
<1>0. \A r \in Requests[c] : r \in AllRequests
  BY DEF AllRequests
<1>1. Typed'
  BY <1>0 DEF Typed
<1>2. Waiting'
  BY <1>0, NoReqIsReq DEF Waiting, Typed
<1>3. Handed' /\ (\A t \in Conns : Own(t)') /\ \A t \in Strays : Stray(t)'
  BY DEF Handed, Own, Stray
<1> QED
  BY <1>1, <1>2, <1>3

LEMMA ServedAlloc ==
  ASSUME Served, Alloc
  PROVE  Served'
<1> USE DEF Served, Alloc, netvars, thrvars
<1>1. Typed' /\ Waiting' /\ \A t \in Conns : Own(t)'
  BY DEF Typed, Waiting, Own
<1>2. Handed'
  <2>1. PICK x \in Cells :
           /\ ~heap[x].live /\ pcfd' = x
           /\ heap' = [heap EXCEPT ![x] = [live |-> TRUE, fd |-> 0]]
    OBVIOUS
  <2>2. \A t \in Threads : pc[t] = "start" =>
           arg[t] \in Cells /\ heap[arg[t]].live /\ arg[t] # x
    BY <2>1 DEF Handed
  <2>3. heap' \in [Cells -> [live : BOOLEAN, fd : Fds \cup {0}]]
    BY <1>1 DEF Typed
  <2>4. /\ heap'[x].live
        /\ \A t \in Threads : pc[t] = "start" => heap'[arg[t]] = heap[arg[t]]
    BY <2>1, <2>2, <2>3 DEF Typed
  <2> QED
    BY <2>1, <2>2, <2>4, ThreadSets DEF Handed
<1>3. \A t \in Strays : Stray(t)'
  <2> SUFFICES ASSUME NEW t \in Strays PROVE Stray(t)'
    OBVIOUS
  <2>1. pc[t] = "start" => arg[t] \in Cells /\ heap[arg[t]].live
    BY ThreadSets DEF Handed
  <2> QED
    BY <2>1 DEF Typed, Stray
<1> QED
  BY <1>1, <1>2, <1>3

LEMMA ServedSelect ==
  ASSUME Served, Select
  PROVE  Served'
BY DEF Served, Select, netvars, thrvars, Typed, Waiting, Handed, Own, Stray

LEMMA LastReady ==
  ASSUME OneSocket, Served, NEW s \in Socks, s \in ready, AfterAccept(s)
  PROVE  ready' = {} /\ server' = "alloc"
BY DEF OneSocket, Served, Typed, AfterAccept

LEMMA ServedAccept ==
  ASSUME OneSocket, Served, NEW s \in Socks, Accept(s)
  PROVE  Served'
<1> USE ThreadsOK, ThreadSets DEF Served
<1>1. ready' = {} /\ server' = "alloc"
  BY LastReady DEF Accept
<1>2. PICK c \in backlog[s], d \in Fds :
          /\ peer[d] = None
          /\ backlog' = [backlog EXCEPT ![s] = @ \ {c}]
          /\ peer' = [peer EXCEPT ![d] = c]
          /\ heap' = [heap EXCEPT ![pcfd].fd = d]
          /\ arg' = [arg EXCEPT ![c] = pcfd]
          /\ pc' = [pc EXCEPT ![c] = "start"]
  BY DEF Accept
<1>3. /\ server = "accept" /\ pcfd \in Cells /\ c \in Conns
      /\ conf' = conf /\ asked' = asked /\ pcfd' = pcfd /\ fd' = fd
      /\ pc[c] = "none" /\ asked[c] # NoReq
  BY DEF Accept, Handed, Waiting, Typed
<1>4. Typed'
  BY <1>1, <1>2, <1>3 DEF Typed, ThreadPC
<1>5. Waiting'
  <2> SUFFICES ASSUME NEW b \in Conns
               PROVE  /\ pc'[b] # "none" => asked'[b] # NoReq
                      /\ \A s1 \in Socks : b \in backlog'[s1] =>
                             pc'[b] = "none" /\ asked'[b] # NoReq
    BY DEF Waiting
  <2>1. \A s1 \in Socks : s1 = s
    BY DEF OneSocket
  <2> QED
    BY <2>1, <1>2, <1>3 DEF Waiting, Typed
<1>6. Handed'
  <2>1. \A t \in Threads : pc'[t] = "start" =>
          arg'[t] \in Cells /\ heap'[arg'[t]].live
    BY <1>2, <1>3 DEF Handed, Typed
  <2>2. \A t \in Conns : pc'[t] = "start" =>
          heap'[arg'[t]].fd \in Fds /\ peer'[heap'[arg'[t]].fd] = t
    BY <1>2, <1>3 DEF Handed, Typed
  <2>3. \A t, u \in Threads :
          pc'[t] = "start" /\ pc'[u] = "start" /\ t # u => arg'[t] # arg'[u]
    BY <1>2, <1>3 DEF Handed, Typed
  <2> QED
    BY <2>1, <2>2, <2>3, <1>1 DEF Handed
<1>7. \A t \in Conns : Own(t)'
  BY <1>2, <1>3 DEF Typed, Own, AtWork
<1>8. \A t \in Strays : Stray(t)'
  BY <1>2, <1>3 DEF Typed, Handed, Stray
<1> QED
  BY <1>4, <1>5, <1>6, <1>7, <1>8

LEMMA ServedAcceptNoThread ==
  ASSUME OneSocket, Served, NEW s \in Socks, AcceptNoThread(s)
  PROVE  Served'
<1> USE ThreadSets DEF Served
<1>1. ready' = {} /\ server' = "alloc"
  BY LastReady DEF AcceptNoThread
<1>2. PICK c \in backlog[s] :
          /\ backlog' = [backlog EXCEPT ![s] = @ \ {c}]
          /\ pc' = [pc EXCEPT ![c] = "ended"]
  BY DEF AcceptNoThread
<1>3. /\ pcfd \in Cells /\ c \in Conns /\ pc[c] = "none" /\ asked[c] # NoReq
      /\ \A t \in Threads : pc[t] = "start" => arg[t] # pcfd
      /\ heap' = [heap EXCEPT ![pcfd] = [live |-> FALSE, fd |-> 0]]
      /\ conf' = conf /\ asked' = asked /\ pcfd' = pcfd /\ peer' = peer
      /\ arg' = arg /\ fd' = fd
  BY DEF AcceptNoThread, Handed, Waiting, Typed, thrvars
<1>4. Typed'
  BY <1>1, <1>2, <1>3 DEF Typed, ThreadPC
<1>5. Waiting'
  BY <1>2, <1>3 DEF OneSocket, Waiting, Typed
<1>6. Handed' /\ \A t \in Conns : Own(t)'
  BY <1>1, <1>2, <1>3 DEF Handed, Typed, Own, AtWork
<1>7. \A t \in Strays : Stray(t)'
  BY <1>2, <1>3 DEF Typed, Handed, Stray
<1> QED
  BY <1>4, <1>5, <1>6, <1>7

LEMMA ServedAcceptNone ==
  ASSUME OneSocket, Served, NEW s \in Socks, AcceptNone(s)
  PROVE  Served'
<1> USE ThreadSets DEF Served
<1>1. ready' = {} /\ server' = "alloc"
  BY LastReady DEF AcceptNone
<1>2. PICK t \in Strays : /\ pc[t] \in {"none", "ended"}
                          /\ pc' = [pc EXCEPT ![t] = "start"]
                          /\ arg' = [arg EXCEPT ![t] = pcfd]
  BY DEF AcceptNone
<1>3. /\ pcfd \in Cells /\ heap[pcfd].live
      /\ \A u \in Threads : pc[u] = "start" => arg[u] # pcfd
      /\ heap' = [heap EXCEPT ![pcfd].fd = 0]
      /\ conf' = conf /\ asked' = asked /\ pcfd' = pcfd /\ peer' = peer
      /\ fd' = fd
  BY DEF AcceptNone, Handed
<1>4. /\ backlog' \in [Socks -> SUBSET Conns]
      /\ \A s1 \in Socks : backlog'[s1] \subseteq backlog[s1]
  BY DEF AcceptNone, Typed
<1>5. Typed' /\ Waiting'
  BY <1>1, <1>2, <1>3, <1>4 DEF Typed, ThreadPC, Waiting
<1>6. Handed'
  <2>1. \A u \in Threads : pc'[u] = "start" =>
          arg'[u] \in Cells /\ heap'[arg'[u]].live
    BY <1>2, <1>3 DEF Handed, Typed
  <2>2. \A u \in Conns : pc'[u] = "start" =>
          heap'[arg'[u]].fd \in Fds /\ peer'[heap'[arg'[u]].fd] = u
    BY <1>2, <1>3 DEF Handed, Typed
  <2>3. \A u, w \in Threads :
          pc'[u] = "start" /\ pc'[w] = "start" /\ u # w => arg'[u] # arg'[w]
    BY <1>2, <1>3 DEF Handed, Typed
  <2> QED
    BY <2>1, <2>2, <2>3, <1>1 DEF Handed
<1>7. \A u \in Conns : Own(u)'
  BY <1>2, <1>3 DEF Typed, Own
<1>8. \A u \in Strays : Stray(u)'
  BY <1>2, <1>3 DEF Typed, Handed, Stray, StrayPC
<1> QED
  BY <1>5, <1>6, <1>7, <1>8

LEMMA ServedAcceptNothing ==
  ASSUME OneSocket, Served, NEW s \in Socks, AcceptNothing(s)
  PROVE  Served'
<1> USE ThreadSets DEF Served
<1>1. ready' = {} /\ server' = "alloc"
  BY LastReady DEF AcceptNothing
<1>2. /\ pcfd \in Cells
      /\ \A t \in Threads : pc[t] = "start" => arg[t] # pcfd
      /\ heap' = [heap EXCEPT ![pcfd] = [live |-> FALSE, fd |-> 0]]
      /\ UNCHANGED <<conf, asked, backlog, pcfd, peer, pc, arg, fd>>
  BY DEF AcceptNothing, Handed, netvars, thrvars
<1>3. Typed' /\ Waiting'
  BY <1>1, <1>2 DEF Typed, Waiting
<1>4. Handed' /\ \A t \in Conns : Own(t)'
  BY <1>1, <1>2 DEF Handed, Typed, Own
<1>5. \A t \in Strays : Stray(t)'
  BY <1>2 DEF Typed, Handed, Stray
<1> QED
  BY <1>3, <1>4, <1>5

\* What the steps of a thread between the first and the last have in common.
Busy(t) ==
    /\ pc[t] \in AtWork
    /\ \E l \in AtWork : pc' = [pc EXCEPT ![t] = l]
    /\ UNCHANGED <<netvars, srvvars, heap, peer, arg, fd>>

\* A command that does not return.
Astray(t) ==
    /\ pc[t] \in AtWork /\ server' = "crashed"
    /\ UNCHANGED <<netvars, pcfd, ready, heap, peer, pc, arg, fd>>

LEMMA ThreadBusy ==
  ASSUME Served, NEW t \in Threads, ThreadStep(t) \/ ThreadWait(t)
  PROVE  Start(t) \/ Close(t) \/ Busy(t) \/ Astray(t)
<1> USE DEF Served, Typed, Busy, AtWork, Goto, Answer, Answering, thrvars
<1>1. CASE Timeout(t)        BY <1>1 DEF Timeout
<1>2. CASE ReadLine(t)       BY <1>2 DEF ReadLine
<1>3. CASE ReadLineBad(t)    BY <1>3 DEF ReadLineBad
<1>4. CASE ReadHeaders(t)    BY <1>4 DEF ReadHeaders
<1>5. CASE Allow(t)          BY <1>5 DEF Allow
<1>6. CASE Deny(t)           BY <1>6 DEF Deny
<1>7. CASE NumberOK(t)       BY <1>7 DEF NumberOK
<1>8. CASE NumberBad(t)      BY <1>8 DEF NumberBad
<1>9. CASE SendSnapshot(t)   BY <1>9 DEF SendSnapshot
<1>10. CASE SendStream(t)    BY <1>10 DEF SendStream
<1>11. CASE SendJson(t)      BY <1>11 DEF SendJson
<1>12. CASE Command(t)       BY <1>12 DEF Command
<1>13. CASE SendFile(t)      BY <1>13 DEF SendFile
<1>14. CASE ExecuteCgi(t)    BY <1>14 DEF ExecuteCgi
<1>15. CASE Take(t)          BY <1>15 DEF Take
<1>16. CASE TakeNothing(t)   BY <1>16 DEF TakeNothing
<1>17. CASE AnswerNothing(t) BY <1>17 DEF AnswerNothing
<1>18. CASE StreamEnds(t)    BY <1>18 DEF StreamEnds
<1>19. CASE StreamNoMemory(t) BY <1>19 DEF StreamNoMemory
<1>20. CASE CommandRefused(t) BY <1>20 DEF CommandRefused
<1>21. CASE FileRefused(t)   BY <1>21 DEF FileRefused
<1>22. CASE CommandAstray(t) BY <1>22 DEF CommandAstray, Astray
<1> QED
  BY <1>1, <1>2, <1>3, <1>4, <1>5, <1>6, <1>7, <1>8, <1>9, <1>10, <1>11, <1>12,
     <1>13, <1>14, <1>15, <1>16, <1>17, <1>18, <1>19, <1>20, <1>21, <1>22
     DEF ThreadStep, ThreadWait

\* A stray thread starts, finds that nobody sends it a line, and ends.
LEMMA StrayStep ==
  ASSUME Served, NEW t \in Strays, ThreadStep(t) \/ ThreadWait(t)
  PROVE  Start(t) \/ Close(t) \/ (Timeout(t) /\ pc[t] = "line")
<1>1. pc[t] \in StrayPC /\ Client(t) = NoReq
  BY DEF Served, Stray, Client, Peer
<1> QED
  BY <1>1 DEF StrayPC, ThreadStep, ThreadWait, NoReq, Kinds, Answering,
     Timeout, ReadLine, ReadLineBad, ReadHeaders, Allow, Deny, NumberOK,
     NumberBad, SendSnapshot, SendStream, SendJson, Command, SendFile,
     ExecuteCgi, Take, TakeNothing, AnswerNothing, StreamEnds, StreamNoMemory,
     CommandRefused, FileRefused, CommandAstray

LEMMA ServedStart ==
  ASSUME Served, NEW t \in Threads, Start(t)
  PROVE  Served'
<1> USE ThreadSets DEF Served, netvars, srvvars
<1>1. /\ pc[t] = "start" /\ arg[t] \in Cells
      /\ t \in Conns => heap[arg[t]].fd \in Fds /\ peer[heap[arg[t]].fd] = t
      /\ t \in Strays => heap[arg[t]].fd = 0
      /\ heap[arg[t]].fd \in Fds \cup {0}
      /\ pc' = [pc EXCEPT ![t] = "line"]
      /\ arg' = [arg EXCEPT ![t] = None]
      /\ fd' = [fd EXCEPT ![t] = heap[arg[t]].fd]
      /\ heap' = [heap EXCEPT ![arg[t]] = [live |-> FALSE, fd |-> 0]]
      /\ UNCHANGED <<netvars, srvvars, peer>>
  BY DEF Start, Locals, Goto, Handed, Stray, Typed
<1>2. Typed' /\ Waiting'
  BY <1>1 DEF Typed, Waiting, ThreadPC, AtWork
<1>3. Handed'
  BY <1>1 DEF Handed, Typed
<1>4. \A u \in Conns : Own(u)'
  BY <1>1 DEF Own, Typed, AtWork
<1>5. \A u \in Strays : Stray(u)'
  BY <1>1 DEF Handed, Typed, Stray, StrayPC
<1> QED
  BY <1>2, <1>3, <1>4, <1>5

LEMMA ServedClose ==
  ASSUME Served, NEW t \in Threads, Close(t)
  PROVE  Served'
<1> USE ThreadSets DEF Served, netvars, srvvars
<1>1. /\ pc[t] = "close"
      /\ t \in Conns => fd[t] \in Fds /\ peer[fd[t]] = t
      /\ t \in Strays => fd[t] = 0
      /\ pc' = [pc EXCEPT ![t] = "ended"]
      /\ arg' = [arg EXCEPT ![t] = None]
      /\ fd' = [fd EXCEPT ![t] = 0]
      /\ t \in Conns => peer' = [peer EXCEPT ![fd[t]] = None]
      /\ t \in Strays => peer' = peer
      /\ UNCHANGED <<netvars, srvvars, heap>>
  BY DEF Close, Locals, Goto, Own, Stray, AtWork
<1>2. peer' \in [Fds -> Conns \cup {None}]
  BY <1>1 DEF Typed
<1>3. Typed' /\ Waiting'
  BY <1>1, <1>2 DEF Typed, Waiting, ThreadPC, AtWork
<1>4. Handed'
  BY <1>1 DEF Handed, Typed
<1>5. \A u \in Conns : Own(u)'
  BY <1>1 DEF Own, Typed, AtWork
<1>6. \A u \in Strays : Stray(u)'
  BY <1>1 DEF Typed, Stray, StrayPC
<1> QED
  BY <1>3, <1>4, <1>5, <1>6

LEMMA ServedThread ==
  ASSUME Served, NEW t \in Threads, ThreadStep(t) \/ ThreadWait(t)
  PROVE  Served'
<1> USE ThreadSets DEF Served, netvars, srvvars
<1>1. CASE Busy(t) /\ t \in Conns
  BY <1>1 DEF Busy, Typed, Waiting, Handed, Own, Stray, AtWork, ThreadPC
<1>2. CASE Astray(t)
  BY <1>2 DEF Astray, Typed, Waiting, Handed, Own, Stray
<1>3. CASE t \in Strays /\ Timeout(t) /\ pc[t] = "line"
  <2>1. /\ pc' = [pc EXCEPT ![t] = "close"]
        /\ UNCHANGED <<netvars, srvvars, heap, peer, arg, fd>>
    BY <1>3 DEF Timeout, Goto, thrvars
  <2> QED
    BY <2>1, <1>3
       DEF Typed, Waiting, Handed, Own, Stray, StrayPC, AtWork, ThreadPC
<1> QED
  BY <1>1, <1>2, <1>3, ThreadBusy, StrayStep, ServedStart, ServedClose

LEMMA ServedNext ==
  ASSUME OneSocket, Served, [Next]_vars
  PROVE  Served'
<1>1. CASE UNCHANGED vars
  BY <1>1 DEF vars, netvars, srvvars, thrvars, Served, Typed, Waiting, Handed,
              Own, Stray
<1> QED
  BY <1>1, ServedConnect, ServedAlloc, ServedSelect, ServedAccept,
     ServedAcceptNoThread, ServedAcceptNone, ServedAcceptNothing, ServedThread
     DEF Next, ServerNext

\* The invariant of descriptors, cells and threads holds in every state.
THEOREM ServedAlways ==
  ASSUME OneSocket
  PROVE  Spec => []Served
BY ServedInit, ServedNext, PTL DEF Spec

\* With one listening socket each connection is served by its own thread,
\* through an open descriptor that no other thread uses; and a thread that was
\* started although accept had failed uses none.
THEOREM ConnectionsOwned ==
  ASSUME OneSocket
  PROVE  Spec => []OwnConnection
<1>1. Served => OwnConnection
  <2> SUFFICES ASSUME Served PROVE OwnConnection
    OBVIOUS
  <2>1. \A t \in Serving : fd[t] # 0 /\ Peer(t) = t
    BY ThreadSets DEF Served, Typed, Own, Serving, Peer, AtWork, ThreadPC
  <2>2. \A t \in Conns : pc[t] = "start" =>
           heap[arg[t]].live /\ heap[arg[t]].fd # 0 /\ peer[heap[arg[t]].fd] = t
    BY ThreadSets DEF Served, Handed
  <2>3. \A t \in Strays :
           /\ pc[t] = "start" => heap[arg[t]].live /\ heap[arg[t]].fd = 0
           /\ pc[t] \in {"none", "start", "line", "close", "ended"} /\ fd[t] = 0
    BY ThreadSets DEF Served, Handed, Stray, StrayPC
  <2> QED
    BY <2>1, <2>2, <2>3 DEF OwnConnection
<1> QED
  BY <1>1, ServedAlways, PTL

----------------------------------------------------------------------------
(* What a thread has read, and what it has sent.                            *)

TalkTyped == /\ req \in [Threads -> ReqType]
             /\ \A t \in Threads : req[t].kind # "malformed"
             /\ sent \in [Conns -> Seq(Nat)]

\* The request of a thread is the one its client asked for, but for its kind
\* once it has turned out that it cannot be served, or was a take.
SameRequest(t) == /\ req[t].n = asked[t].n /\ req[t].ok = asked[t].ok
                  /\ req[t].auth = asked[t].auth

\* An error, and a picture that still has to be sent.
TakeNoName(t) == asked[t].kind = "take" /\ ~asked[t].ok

\* An error in the middle of a stream.
Broken(t) == asked[t].kind = "stream" /\ sent[t] = <<200, 500>>

\* What holds of the thread of a connection at each of its steps.
Told(t) ==
    /\ pc[t] \in {"none", "start", "line", "headers", "auth", "range"} =>
           sent[t] = <<>>
    /\ pc[t] \in {"headers", "auth", "range"} => req[t] = asked[t]
    /\ pc[t] \in {"range", "answer"} => Allowed(t)
    /\ pc[t] = "answer" =>
          /\ SameRequest(t)
          /\ \/ req[t].kind = asked[t].kind /\ sent[t] = <<>>
             \/ req[t].kind = "unknown" /\ Len(sent[t]) = 1
             \/ req[t].kind = "snapshot" /\ asked[t].kind = "take"
                /\ (sent[t] = <<>> \/ (Len(sent[t]) = 1 /\ TakeNoName(t)))
          /\ req[t].kind \in Suffixed => InRange(req[t])
    /\ pc[t] = "stream" => asked[t].kind = "stream" /\ sent[t] = <<200>>
    /\ Len(sent[t]) <= 2
    /\ Len(sent[t]) > 1 => TakeNoName(t) \/ Broken(t)

\* Authorised, of one connection.
Guarded(c) == conf.credentials /\ ~asked[c].auth =>
                  /\ \A i \in 1 .. Len(sent[c]) : sent[c][i] >= 400
                  /\ \A e \in effects : e.who # c

\* Plugins are asked for on behalf of clients, and what a request names is not
\* above those there are; below them is only what a command names.
InCounts == \A e \in effects :
                /\ e.who \in Conns /\ e.plugin < Count(e.what)
                /\ e.plugin >= 0 \/ asked[e.who].kind = "command"

Answered == /\ Served /\ TalkTyped /\ InCounts
            /\ \A c \in Conns : Told(c) /\ Guarded(c)

LEMMA AskedType ==
  ASSUME Typed
  PROVE  /\ asked \in [Conns -> ReqType]
         /\ \A c \in Conns : asked[c].kind # "command" => asked[c].n >= 0
<1>1. NoReq \in ReqType /\ NoReq.n >= 0
  BY DEF NoReq, ReqType, Kinds, Stalls
<1>2. \A c \in Conns : asked[c] \in AllRequests \/ asked[c] = NoReq
  BY DEF Typed
<1> QED
  BY <1>1, <1>2, NoReqIsReq DEF Typed

\* One more status code.
LEMMA SentOne ==
  ASSUME NEW s \in Seq(Nat), NEW n \in Nat
  PROVE  /\ s \o <<n>> \in Seq(Nat) /\ Len(s \o <<n>>) = Len(s) + 1
         /\ Len(s) \in Nat /\ (s = <<>> <=> Len(s) = 0)
         /\ n >= 400 /\ (\A i \in 1 .. Len(s) : s[i] >= 400) =>
                \A i \in 1 .. Len(s \o <<n>>) : (s \o <<n>>)[i] >= 400
<1>1. <<n>> \in Seq(Nat) /\ Len(<<n>>) = 1 /\ <<n>>[1] = n
  OBVIOUS
<1>2. /\ s \o <<n>> \in Seq(Nat)
      /\ Len(s \o <<n>>) = Len(s) + 1
      /\ \A i \in 1 .. Len(s) + 1 : (s \o <<n>>)[i] =
             IF i <= Len(s) THEN s[i] ELSE <<n>>[i - Len(s)]
  BY <1>1, ConcatProperties
<1> QED
  BY <1>1, <1>2

\* If nothing but errors was sent, nothing but errors is.
SameErrors(t) == (\A i \in 1 .. Len(sent[t]) : sent[t][i] >= 400) =>
                     \A i \in 1 .. Len(sent'[t]) : sent'[t][i] >= 400

LEMMA SentStep ==
  ASSUME TalkTyped, NEW t \in Conns, Peer(t) = t, NEW code \in Nat,
         Send(t, <<code>>)
  PROVE  /\ sent' \in [Conns -> Seq(Nat)]
         /\ \A u \in Conns \ {t} : sent'[u] = sent[u]
         /\ Len(sent'[t]) = Len(sent[t]) + 1
         /\ sent[t] = <<>> => sent'[t] = <<code>>
         /\ code >= 400 => SameErrors(t)
<1>1. sent' = [sent EXCEPT ![t] = sent[t] \o <<code>>] /\ sent[t] \in Seq(Nat)
  BY DEF Send, TalkTyped
<1>2. sent'[t] = sent[t] \o <<code>>
  BY <1>1 DEF TalkTyped
<1>3. /\ sent[t] \o <<code>> \in Seq(Nat)
      /\ Len(sent[t] \o <<code>>) = Len(sent[t]) + 1
      /\ Len(sent[t]) \in Nat /\ (sent[t] = <<>> <=> Len(sent[t]) = 0)
      /\ code >= 400 /\ (\A i \in 1 .. Len(sent[t]) : sent[t][i] >= 400) =>
             \A i \in 1 .. Len(sent[t] \o <<code>>) :
                 (sent[t] \o <<code>>)[i] >= 400
  BY <1>1, SentOne
<1>4. sent[t] = <<>> => sent[t] \o <<code>> = <<code>>
  BY ConcatEmptySeq, <1>1
<1> QED
  BY <1>1, <1>2, <1>3, <1>4 DEF TalkTyped, SameErrors

\* The number, the name and the credentials of a request stay.
LEMMA OtherKind ==
  ASSUME req \in [Threads -> ReqType], NEW t \in Conns,
         \A u \in Threads : req[u].kind # "malformed",
         NEW k \in {"unknown", "snapshot"}, req' = [req EXCEPT ![t].kind = k]
  PROVE  /\ req' \in [Threads -> ReqType]
         /\ \A u \in Threads \ {t} : req'[u] = req[u]
         /\ req'[t] \in ReqType /\ req'[t].kind = k /\ req'[t].n = req[t].n
         /\ req'[t].ok = req[t].ok /\ req'[t].auth = req[t].auth
         /\ \A u \in Threads : req'[u].kind # "malformed"
<1>1. t \in Threads /\ req[t] \in ReqType
  BY ThreadSets
<1>2. PICK r : r = [req[t] EXCEPT !.kind = k]
  OBVIOUS
<1>3. /\ r \in ReqType /\ r.kind = k /\ r.n = req[t].n
      /\ r.ok = req[t].ok /\ r.auth = req[t].auth
  BY <1>1, <1>2 DEF ReqType, Kinds
<1>4. req' = [req EXCEPT ![t] = r]
  BY <1>2
<1> QED
  BY <1>1, <1>3, <1>4

\* The thread asks plugins on behalf of its own client, and plugins there are.
Asks(t) == /\ effects \subseteq effects'
           /\ \A e \in effects' \ effects :
                  /\ e.who = t /\ e.plugin < Count(e.what)
                  /\ e.plugin >= 0 \/ asked[t].kind = "command"

\* The thread sends one status code and ends, or goes on with a stream.
Replies(t) == \/ \E code \in Nat : Goto(t, "close") /\ Send(t, <<code>>)
              \/ /\ Goto(t, "stream") /\ Send(t, <<200>>)
                 /\ req[t].kind = "stream"

\* What a step of a thread does: to its own connection alone, and with one of
\* the plugins only if its client may and only with one that exists.
Step(t) ==
    /\ UNCHANGED <<conf, asked>>
    /\ \A u \in Conns \ {t} : pc'[u] = pc[u] /\ req'[u] = req[u]
                              /\ sent'[u] = sent[u]
    /\ TalkTyped' /\ Told(t)'
    /\ conf.credentials /\ ~asked[t].auth => SameErrors(t)
    /\ Asks(t) /\ (effects' # effects /\ conf.credentials => asked[t].auth)

LEMMA AtAnswer ==
  ASSUME Answered, NEW t \in Conns, pc[t] = "answer"
  PROVE  /\ asked \in [Conns -> ReqType] /\ pc \in [Threads -> ThreadPC]
         /\ TalkTyped /\ Told(t) /\ Peer(t) = t
         /\ req[t] \in ReqType /\ sent[t] \in Seq(Nat) /\ Len(sent[t]) \in Nat
         /\ (sent[t] = <<>> <=> Len(sent[t]) = 0)
         /\ (conf.credentials => asked[t].auth) /\ Allowed(t) /\ SameRequest(t)
         /\ req[t].kind \in Suffixed => InRange(req[t])
         /\ req[t].kind # "unknown" =>
                \/ Len(sent[t]) = 0
                \/ Len(sent[t]) = 1 /\ TakeNoName(t) /\ req[t].kind = "snapshot"
         /\ req[t].kind = "stream" => asked[t].kind = "stream" /\ sent[t] = <<>>
         /\ req[t].n >= 0 \/ asked[t].kind = "command"
<1>1. /\ asked \in [Conns -> ReqType] /\ pc \in [Threads -> ThreadPC]
      /\ TalkTyped /\ Told(t) /\ Peer(t) = t
      /\ asked[t].kind # "command" => asked[t].n >= 0
  BY AskedType, ThreadSets DEF Answered, Served, Typed, Own, Peer, AtWork
<1>2. /\ req[t] \in ReqType /\ sent[t] \in Seq(Nat) /\ Len(sent[t]) \in Nat
      /\ (sent[t] = <<>> <=> Len(sent[t]) = 0)
  BY <1>1, ThreadSets DEF TalkTyped
<1>3. /\ Allowed(t) /\ SameRequest(t) /\ (req[t].kind \in Suffixed => InRange(req[t]))
      /\ req[t].kind # "unknown" =>
             \/ Len(sent[t]) = 0
             \/ Len(sent[t]) = 1 /\ TakeNoName(t) /\ req[t].kind = "snapshot"
      /\ req[t].kind = "stream" => asked[t].kind = "stream" /\ sent[t] = <<>>
  BY <1>1, <1>2 DEF Told
<1> QED
  BY <1>1, <1>2, <1>3 DEF Allowed, SameRequest

\* A request that can be served is answered with one status code.
LEMMA Delivered ==
  ASSUME Answered, NEW t \in Conns, pc[t] = "answer", req[t].kind # "unknown",
         Replies(t), Asks(t), UNCHANGED <<conf, asked, req>>
  PROVE  Step(t)
<1>0. PICK code \in Nat, l \in {"close", "stream"} :
          /\ Goto(t, l) /\ Send(t, <<code>>)
          /\ l = "stream" => req[t].kind = "stream" /\ code = 200
  BY DEF Replies
<1>1. /\ pc' = [pc EXCEPT ![t] = l]
      /\ sent' \in [Conns -> Seq(Nat)]
      /\ \A u \in Conns \ {t} : sent'[u] = sent[u]
      /\ Len(sent'[t]) = Len(sent[t]) + 1
      /\ sent[t] = <<>> => sent'[t] = <<code>>
  BY <1>0, AtAnswer, SentStep DEF Goto
<1>2. TalkTyped'
  BY AtAnswer, <1>1 DEF TalkTyped
<1>3a. /\ Len(sent[t]) = 0 \/ (Len(sent[t]) = 1 /\ TakeNoName(t))
       /\ TakeNoName(t)' <=> TakeNoName(t)
  BY AtAnswer DEF TakeNoName
<1>3b. Len(sent'[t]) = Len(sent[t]) + 1
  BY <1>1
<1>3. Len(sent'[t]) <= 2 /\ (Len(sent'[t]) > 1 => TakeNoName(t)')
  <2>1. CASE Len(sent[t]) = 0
    BY <1>3b, <2>1
  <2>2. CASE Len(sent[t]) = 1 /\ TakeNoName(t)
    BY <1>3b, <2>2, <1>3a
  <2> QED
    BY <2>1, <2>2, <1>3a
<1>4. l = "stream" => asked'[t].kind = "stream" /\ sent'[t] = <<200>>
  BY <1>0, <1>1, AtAnswer
<1>5. pc'[t] = l
  BY <1>1, AtAnswer, ThreadSets
<1>6. Told(t)'
  BY <1>3, <1>4, <1>5 DEF Told
<1>7. \A u \in Conns \ {t} : pc'[u] = pc[u]
  BY <1>1, AtAnswer, ThreadSets
<1> QED
  BY AtAnswer, <1>1, <1>2, <1>6, <1>7 DEF Step, Allowed

LEMMA ThreadRead ==
  ASSUME Answered, NEW t \in Conns,
         \/ Start(t) \/ Timeout(t) \/ ReadLine(t) \/ ReadHeaders(t)
         \/ Allow(t) \/ NumberOK(t) \/ AnswerNothing(t) \/ StreamEnds(t)
         \/ Close(t)
  PROVE  Step(t)
<1>1. /\ asked \in [Conns -> ReqType] /\ pc \in [Threads -> ThreadPC]
      /\ TalkTyped /\ Told(t) /\ (pc[t] \in AtWork => Peer(t) = t)
      /\ NoReq \in ReqType /\ NoReq.kind # "malformed"
      /\ pc[t] \in AtWork => Client(t) = asked[t]
  BY AskedType, ThreadSets, ThreadsOK
     DEF Answered, Served, Typed, Own, Peer, Client, NoReq, ReqType, Kinds, Stalls
<1>2. sent' = sent /\ effects' = effects /\ UNCHANGED <<conf, asked>>
  BY DEF Start, Timeout, ReadLine, ReadHeaders, Allow, NumberOK, AnswerNothing,
         StreamEnds, Close, netvars, thrvars
<1>3. SameErrors(t) /\ Asks(t)
  BY <1>2 DEF SameErrors, Asks
<1> USE <1>1, <1>2, <1>3, ThreadSets
    DEF thrvars, Step, TalkTyped, Goto, AtWork, Told, TakeNoName, Broken, Allowed
<1>4. CASE Start(t)
  BY <1>4 DEF Start, Locals
<1>5. CASE Timeout(t)
  BY <1>5 DEF Timeout
<1>6. CASE ReadLine(t)
  BY <1>6 DEF ReadLine
<1>7. CASE ReadHeaders(t)
  BY <1>7 DEF ReadHeaders
<1>8. CASE Allow(t)
  BY <1>8 DEF Allow
<1>9. CASE NumberOK(t)
  BY <1>9 DEF NumberOK, SameRequest, InRange
<1>10. CASE AnswerNothing(t)
  BY <1>10 DEF AnswerNothing, Answering
<1>11. CASE StreamEnds(t)
  BY <1>11 DEF StreamEnds
<1>12. CASE Close(t)
  BY <1>12 DEF Close, Locals
<1> QED
  BY <1>4, <1>5, <1>6, <1>7, <1>8, <1>9, <1>10, <1>11, <1>12

LEMMA ThreadRefuse ==
  ASSUME Answered, NEW t \in Conns,
         ReadLineBad(t) \/ Deny(t) \/ NumberBad(t)
  PROVE  Step(t)
<1>1. /\ asked \in [Conns -> ReqType] /\ pc \in [Threads -> ThreadPC]
      /\ TalkTyped /\ Told(t) /\ Peer(t) = t /\ pc[t] \in {"line", "auth", "range"}
  BY AskedType, ThreadSets DEF Answered, Served, Typed, Own, Peer, AtWork, ReadLineBad, Deny,
                   NumberBad
<1>2. sent[t] = <<>> /\ Len(sent[t]) = 0 /\ (pc[t] = "range" => Allowed(t))
  BY <1>1, EmptySeq DEF Told
<1>3. Asks(t) /\ UNCHANGED <<conf, asked, effects>>
  BY DEF Asks, ReadLineBad, Deny, NumberBad, netvars
<1>4. PICK code \in Nat : code >= 400 /\ Send(t, <<code>>)
  BY DEF ReadLineBad, Deny, NumberBad, Answer
<1>5. /\ sent' \in [Conns -> Seq(Nat)] /\ Len(sent'[t]) = 1 /\ SameErrors(t)
      /\ \A u \in Conns \ {t} : sent'[u] = sent[u]
  BY <1>1, <1>2, <1>4, SentStep
<1>6. CASE ReadLineBad(t) \/ Deny(t)
  <2>1. pc' = [pc EXCEPT ![t] = "close"] /\ req' = req
    BY <1>6 DEF ReadLineBad, Deny, Answer, Goto, thrvars
  <2> QED
    BY <2>1, <1>1, <1>3, <1>5, ThreadSets DEF Step, TalkTyped, Told
<1>7. CASE NumberBad(t)
  <2>1. /\ pc[t] = "range" /\ pc' = [pc EXCEPT ![t] = "answer"]
        /\ req[t] = asked[t] /\ req' = [req EXCEPT ![t].kind = "unknown"]
    BY <1>7, <1>1 DEF NumberBad, Goto, Told
  <2>2. TalkTyped' /\ \A u \in Threads \ {t} : req'[u] = req[u]
    BY <2>1, <1>1, <1>5, OtherKind, ThreadSets DEF TalkTyped
  <2>3. SameRequest(t)' /\ Allowed(t)' /\ req'[t].kind = "unknown"
    BY <2>1, <1>1, <1>2, <1>3, OtherKind, ThreadSets
       DEF TalkTyped, SameRequest, Allowed
  <2>4. Told(t)'
    BY <2>1, <2>3, <1>1, <1>5, ThreadSets DEF Told, Suffixed
  <2> QED
    BY <2>1, <2>2, <2>4, <1>1, <1>3, <1>5, ThreadSets DEF Step
<1> QED
  BY <1>6, <1>7

LEMMA ThreadAnswer ==
  ASSUME Answered, NEW t \in Conns,
         \/ SendSnapshot(t) \/ SendStream(t) \/ SendJson(t) \/ Command(t)
         \/ CommandRefused(t) \/ CommandAstray(t) \/ FileRefused(t)
         \/ SendFile(t) \/ ExecuteCgi(t) \/ Take(t) \/ TakeNothing(t)
  PROVE  Step(t)
<1> USE DEF netvars, srvvars, thrvars, Answering, Answer
<1>1. /\ pc[t] = "answer" /\ Peer(t) = t /\ req[t].kind # "unknown"
      /\ UNCHANGED <<conf, asked>>
  BY AtAnswer DEF SendSnapshot, SendStream, SendJson, Command, CommandRefused,
                  CommandAstray, FileRefused, SendFile, ExecuteCgi, Take, TakeNothing
<1>2. /\ asked \in [Conns -> ReqType] /\ pc \in [Threads -> ThreadPC]
      /\ TalkTyped /\ Told(t) /\ Allowed(t) /\ SameRequest(t)
      /\ (req[t].kind \in Suffixed => InRange(req[t]))
      /\ (conf.credentials => asked[t].auth) /\ req[t].n \in Int
      /\ req[t].n >= 0 \/ asked[t].kind = "command"
  BY AtAnswer, <1>1 DEF ReqType
<1>a. Asks(t)
  BY CountsOK, <1>1, <1>2
     DEF SendSnapshot, SendStream, SendJson, Command, CommandRefused,
         CommandAstray, FileRefused, SendFile, ExecuteCgi, Take, TakeNothing,
         Asks, Used, Suffixed, InRange, Count
<1>b. ASSUME Replies(t), UNCHANGED req
      PROVE  Step(t)
  BY <1>1, <1>a, <1>b, Delivered
<1>3. CASE SendSnapshot(t)
  BY <1>1, <1>b, <1>3 DEF SendSnapshot, Replies
<1>4. CASE SendStream(t)
  BY <1>1, <1>b, <1>4 DEF SendStream, Replies
<1>5. CASE SendJson(t)
  BY <1>1, <1>b, <1>5 DEF SendJson, Replies
<1>6. CASE Command(t) \/ CommandRefused(t)
  BY <1>1, <1>b, <1>6 DEF Command, CommandRefused, Replies
<1>7. CASE SendFile(t) \/ FileRefused(t)
  BY <1>1, <1>b, <1>7 DEF SendFile, FileRefused, Replies
<1>7a. CASE CommandAstray(t)
  BY <1>1, <1>2, <1>a, <1>7a DEF CommandAstray, Step, TalkTyped, Told, Allowed,
     SameRequest, InRange, TakeNoName, Broken, SameErrors
<1>8. CASE ExecuteCgi(t)
  <2>1. PICK codes \in {<<404>>, <<403>>, <<>>} : Answer(t, codes)
    BY <1>8 DEF ExecuteCgi
  <2>2. CASE codes = <<>>
    <3>1. sent[t] \o <<>> = sent[t]
      BY <1>1, AtAnswer, ConcatEmptySeq
    <3>2. sent' = sent /\ req' = req /\ pc' = [pc EXCEPT ![t] = "close"]
      BY <3>1, <2>1, <2>2, <1>1, <1>8, AtAnswer DEF ExecuteCgi, TalkTyped, Send, Goto
    <3> QED
      BY <3>2, <1>1, <1>a, AtAnswer, ThreadSets
         DEF Step, TalkTyped, Told, TakeNoName, Broken, SameErrors
  <2>3. CASE codes \in {<<404>>, <<403>>}
    <3>1. Replies(t)
      BY <2>1, <2>3 DEF Replies
    <3> QED
      BY <3>1, <1>b, <1>8 DEF ExecuteCgi
  <2> QED
    BY <2>2, <2>3
<1>9. CASE Take(t)
  <2>1. CASE req' = [req EXCEPT ![t].kind = "snapshot"] /\ UNCHANGED <<pc, sent>>
    <3>1. /\ req[t].kind = "take" /\ asked[t].kind = "take" /\ sent[t] = <<>>
      BY <1>1, <1>2, <1>9 DEF Told, Take
    <3>2. /\ TalkTyped' /\ (\A u \in Threads \ {t} : req'[u] = req[u])
          /\ req'[t].kind = "snapshot" /\ req'[t].n = req[t].n
          /\ req'[t].ok = req[t].ok /\ req'[t].auth = req[t].auth
      <4>1. req \in [Threads -> ReqType] /\ \A u \in Threads : req[u].kind # "malformed"
        BY <1>2 DEF TalkTyped
      <4>2. /\ req' \in [Threads -> ReqType]
            /\ \A u \in Threads : req'[u].kind # "malformed"
            /\ \A u \in Threads \ {t} : req'[u] = req[u]
            /\ req'[t].kind = "snapshot" /\ req'[t].n = req[t].n
            /\ req'[t].ok = req[t].ok /\ req'[t].auth = req[t].auth
        BY <2>1, <4>1, OtherKind
      <4>3. sent' \in [Conns -> Seq(Nat)]
        BY <2>1, <1>2 DEF TalkTyped
      <4> QED
        BY <4>2, <4>3 DEF TalkTyped
    <3>3. SameRequest(t)' /\ Allowed(t)' /\ InRange(req[t])' /\ SameErrors(t)
      BY <2>1, <3>1, <3>2, <1>1, <1>2
         DEF SameRequest, Allowed, InRange, Suffixed, SameErrors
    <3>4. Told(t)'
      <4>1. /\ pc'[t] = "answer" /\ sent'[t] = <<>> /\ Len(sent'[t]) = 0
            /\ asked'[t].kind = "take"
        BY <2>1, <3>1, <1>1, EmptySeq
      <4>2. Len(sent'[t]) <= 2 /\ ~(Len(sent'[t]) > 1)
        BY <4>1
      <4> QED
        BY <4>1, <4>2, <3>2, <3>3 DEF Told, InRange
    <3> QED
      BY <2>1, <3>2, <3>3, <3>4, <1>1, <1>2, <1>a, ThreadSets DEF Step
  <2>2. CASE Answer(t, <<404>>) /\ UNCHANGED req
    BY <2>2, <1>b DEF Replies
  <2> QED
    BY <2>1, <2>2, <1>9 DEF Take
<1>10. CASE TakeNothing(t)
  <2>1. CASE /\ ~req[t].ok /\ Send(t, <<404>>) /\ UNCHANGED pc
             /\ req' = [req EXCEPT ![t].kind = "snapshot"]
    <3>1. /\ req[t].kind = "take" /\ asked[t].kind = "take" /\ ~asked[t].ok
          /\ Len(sent[t]) = 0
      BY <2>1, <1>1, <1>2, <1>10, EmptySeq DEF Told, TakeNothing, SameRequest
    <3>2. /\ sent' \in [Conns -> Seq(Nat)] /\ Len(sent'[t]) = 1 /\ SameErrors(t)
          /\ \A u \in Conns \ {t} : sent'[u] = sent[u]
      <4>1. PICK code \in Nat : code >= 400 /\ Send(t, <<code>>)
        BY <2>1
      <4> QED
        BY <4>1, <3>1, <1>1, <1>2, SentStep
    <3>3. /\ TalkTyped' /\ (\A u \in Threads \ {t} : req'[u] = req[u])
          /\ req'[t].kind = "snapshot" /\ req'[t].n = req[t].n
          /\ req'[t].ok = req[t].ok /\ req'[t].auth = req[t].auth
      <4>1. req \in [Threads -> ReqType] /\ \A u \in Threads : req[u].kind # "malformed"
        BY <1>2 DEF TalkTyped
      <4>2. /\ req' \in [Threads -> ReqType]
            /\ \A u \in Threads : req'[u].kind # "malformed"
            /\ \A u \in Threads \ {t} : req'[u] = req[u]
            /\ req'[t].kind = "snapshot" /\ req'[t].n = req[t].n
            /\ req'[t].ok = req[t].ok /\ req'[t].auth = req[t].auth
        BY <2>1, <4>1, OtherKind
      <4>3. sent' \in [Conns -> Seq(Nat)]
        BY <2>1, <3>2, <1>2 DEF TalkTyped
      <4> QED
        BY <4>2, <4>3 DEF TalkTyped
    <3>4. SameRequest(t)' /\ Allowed(t)' /\ InRange(req[t])'
      BY <2>1, <3>1, <3>3, <1>1, <1>2 DEF SameRequest, Allowed, InRange, Suffixed
    <3>5. Told(t)'
      BY <2>1, <3>1, <3>2, <3>3, <3>4, <1>1, <1>2 DEF Told, TakeNoName
    <3> QED
      BY <2>1, <3>2, <3>3, <3>5, <1>1, <1>2, <1>a, ThreadSets DEF Step
  <2>2. CASE Answer(t, <<404>>) /\ UNCHANGED req
    BY <2>2, <1>b DEF Replies
  <2> QED
    BY <2>1, <2>2, <1>10 DEF TakeNothing
<1> QED
  BY <1>3, <1>4, <1>5, <1>6, <1>7, <1>7a, <1>8, <1>9, <1>10

\* A frame for which there is no memory ends a stream with an error.
LEMMA ThreadNoMemory ==
  ASSUME Answered, NEW t \in Conns, StreamNoMemory(t)
  PROVE  Step(t)
<1>1. /\ asked \in [Conns -> ReqType] /\ pc \in [Threads -> ThreadPC]
      /\ TalkTyped /\ Told(t) /\ Peer(t) = t /\ pc[t] = "stream"
  BY AskedType, ThreadSets
     DEF Answered, Served, Typed, Own, Peer, AtWork, StreamNoMemory
<1>2. asked[t].kind = "stream" /\ sent[t] = <<200>>
  BY <1>1 DEF Told
<1>3. /\ pc' = [pc EXCEPT ![t] = "close"] /\ Send(t, <<500>>)
      /\ UNCHANGED <<conf, asked, req, effects>>
  BY DEF StreamNoMemory, Answer, Goto, netvars, thrvars
<1>4. /\ sent' \in [Conns -> Seq(Nat)]
      /\ \A u \in Conns \ {t} : sent'[u] = sent[u]
      /\ SameErrors(t)
  <2>1. PICK code \in Nat : code >= 400 /\ Send(t, <<code>>)
    BY <1>3
  <2> QED
    BY <1>1, <2>1, SentStep
<1>5. sent'[t] = <<200, 500>>
  <2>1. sent'[t] = sent[t] \o <<500>>
    BY <1>1, <1>3 DEF Send, TalkTyped
  <2>2. <<200>> \o <<500>> \in Seq(Nat) /\ Len(<<200>> \o <<500>>) = 2
    BY <1>2, <2>1, <1>4, SentOne DEF TalkTyped
  <2>3. /\ (<<200>> \o <<500>>)[1] = 200 /\ (<<200>> \o <<500>>)[2] = 500
        /\ <<200, 500>> \in Seq(Nat) /\ Len(<<200, 500>>) = 2
    OBVIOUS
  <2>4. \A i \in 1 .. 2 : (<<200>> \o <<500>>)[i] = <<200, 500>>[i]
    BY <2>3
  <2>5. <<200>> \o <<500>> = <<200, 500>>
    <3> DEFINE x == <<200>> \o <<500>>
               y == <<200, 500>>
    <3>1. x \in Seq(Nat) /\ y \in Seq(Nat) /\ Len(x) = 2 /\ Len(y) = 2
      BY <2>2, <2>3
    <3>2. \A i \in 1 .. 2 : x[i] = y[i]
      BY <2>4
    <3> HIDE DEF x, y
    <3>3. x = y
      BY <3>1, <3>2, SeqEqual
    <3> QED
      BY <3>3 DEF x, y
  <2> QED
    BY <1>2, <2>1, <2>5
<1>6. Len(sent'[t]) = 2 /\ asked'[t].kind = "stream" /\ pc'[t] = "close"
  BY <1>1, <1>2, <1>3, <1>5, ThreadSets
<1>7. Told(t)'
  BY <1>5, <1>6 DEF Told, Broken
<1>8. TalkTyped' /\ Asks(t)
  BY <1>1, <1>3, <1>4 DEF TalkTyped, Asks
<1> QED
  BY <1>1, <1>3, <1>4, <1>7, <1>8, ThreadSets DEF Step

LEMMA AnsweredThread ==
  ASSUME Answered, Served', NEW t \in Conns, ThreadStep(t) \/ ThreadWait(t)
  PROVE  Answered'
<1>1. Step(t)
  BY ThreadRead, ThreadRefuse, ThreadAnswer, ThreadNoMemory
     DEF ThreadStep, ThreadWait
<1>2. \A c \in Conns : Told(c)'
  <2>1. SUFFICES ASSUME NEW c \in Conns, c # t PROVE Told(c)'
    BY <1>1 DEF Step
  <2> QED
    BY <2>1, <1>1
       DEF Answered, Step, Told, Allowed, SameRequest, TakeNoName, Broken
<1>3. \A c \in Conns : Guarded(c)'
  BY <1>1 DEF Answered, Step, Guarded, Asks, SameErrors
<1>4. InCounts'
  BY <1>1 DEF Answered, Step, InCounts, Asks
<1> QED
  BY <1>1, <1>2, <1>3, <1>4 DEF Answered, Step

\* The server, the clients and stray threads send nothing.
LEMMA AnsweredOther ==
  ASSUME Answered, Served',
         \/ ServerNext \/ (\E c \in Conns : Connect(c)) \/ UNCHANGED vars
         \/ \E t \in Strays : ThreadStep(t) \/ ThreadWait(t)
  PROVE  Answered'
<1> USE ThreadSets
<1>0. ASSUME NEW t \in Strays, ThreadStep(t) \/ ThreadWait(t)
      PROVE  /\ UNCHANGED <<conf, asked, sent, effects>>
             /\ req' = req \/ req' = [req EXCEPT ![t] = NoReq]
             /\ \A c \in Conns : pc'[c] = pc[c]
  <2>1. Start(t) \/ Close(t) \/ Timeout(t)
    BY <1>0, StrayStep DEF Answered
  <2> QED
    BY <2>1 DEF Start, Close, Timeout, Locals, Goto, netvars, thrvars, Answered,
                Served, Typed
<1>1. /\ UNCHANGED <<conf, sent, effects>>
      /\ req' = req \/ \E t \in Strays : req' = [req EXCEPT ![t] = NoReq]
  BY <1>0 DEF ServerNext, Alloc, Select, Accept, AcceptNoThread, AcceptNone,
         AcceptNothing, Connect, netvars, thrvars, vars
<1>2. \A c \in Conns : \/ pc'[c] = pc[c]
                       \/ pc[c] = "none" /\ pc'[c] \in {"start", "ended"}
  BY <1>0 DEF Answered, Served, Typed, Waiting, ServerNext, Alloc, Select, Accept,
         AcceptNoThread, AcceptNone, AcceptNothing, Connect, netvars, thrvars, vars
<1>3. \A c \in Conns : \/ asked'[c] = asked[c]
                       \/ asked[c] = NoReq /\ pc[c] = "none" /\ pc'[c] = "none"
  BY <1>0 DEF Answered, Served, Typed, Waiting, ServerNext, Alloc, Select, Accept,
         AcceptNoThread, AcceptNone, AcceptNothing, Connect, netvars, thrvars, vars
<1>4. Len(<<>>) = 0
  BY EmptySeq
<1>5. TalkTyped' /\ \A c \in Conns : req'[c] = req[c]
  <2>1. NoReq \in ReqType /\ NoReq.kind # "malformed"
    BY DEF NoReq, ReqType, Kinds, Stalls
  <2> QED
    BY <1>1, <2>1 DEF Answered, TalkTyped
<1>6. \A c \in Conns : Told(c)'
  BY <1>1, <1>2, <1>3, <1>4, <1>5
     DEF Answered, Told, Allowed, SameRequest, TakeNoName, Broken
<1>7. \A c \in Conns : Guarded(c)'
  BY <1>1, <1>3 DEF Answered, Guarded, NoReq
<1>8. InCounts'
  BY <1>1, <1>3 DEF Answered, InCounts, NoReq
<1> QED
  BY <1>5, <1>6, <1>7, <1>8 DEF Answered

LEMMA AnsweredInit == Init => Answered
<1> SUFFICES ASSUME Init PROVE Answered
  OBVIOUS
<1>1. TalkTyped
  BY DEF Init, TalkTyped, NoReq, ReqType, Kinds, Stalls
<1>2. Len(<<>>) = 0
  BY EmptySeq
<1>3. InCounts /\ \A c \in Conns : Told(c) /\ Guarded(c)
  BY <1>2, ThreadSets DEF Init, InCounts, Told, Guarded
<1> QED
  BY <1>1, <1>3, ServedInit DEF Answered

\* The invariant of requests and answers holds in every state.
THEOREM AnsweredAlways ==
  ASSUME OneSocket
  PROVE  Spec => []Answered
<1>1. Answered /\ [Next]_vars => Answered'
  <2>1. SUFFICES ASSUME Answered, [Next]_vars PROVE Answered'
    OBVIOUS
  <2>2. Served'
    BY <2>1, ServedNext DEF Answered
  <2>3. CASE \E t \in Conns : ThreadStep(t) \/ ThreadWait(t)
    BY <2>1, <2>2, <2>3, AnsweredThread
  <2>4. CASE \/ ServerNext \/ (\E c \in Conns : Connect(c)) \/ UNCHANGED vars
             \/ \E t \in Strays : ThreadStep(t) \/ ThreadWait(t)
    BY <2>1, <2>2, <2>4, AnsweredOther
  <2> QED
    BY <2>1, <2>3, <2>4, ThreadSets DEF Next
<1> QED
  BY <1>1, AnsweredInit, PTL DEF Spec

\* Every variable keeps its type: no request that is malformed is read on, no
\* client is sent more than two answers, and no plugin is asked for with a
\* number too high for those that are loaded, or, but by a command, below zero.
THEOREM TypeCorrect ==
  ASSUME OneSocket
  PROVE  Spec => []TypeOK
<1>1. Answered => TypeOK
  <2> SUFFICES ASSUME Answered PROVE TypeOK
    OBVIOUS
  <2>1. PluginBounded
    BY DEF Answered, InCounts, PluginBounded
  <2> QED
    BY <2>1 DEF Answered, Served, Typed, TalkTyped, Told, TypeOK, ReqType,
                ThreadPC, AtWork
<1> QED
  BY <1>1, AnsweredAlways, PTL

\* With -c nothing but errors is sent to a client without the credentials,
\* and no plugin is asked for anything on its behalf.
THEOREM CredentialsEnforced ==
  ASSUME OneSocket
  PROVE  Spec => []Authorised
<1>1. Answered => Authorised
  BY DEF Answered, Guarded, Authorised
<1> QED
  BY <1>1, AnsweredAlways, PTL

\* No client gets a second answer but for a take without a file name, and for a
\* stream that ends for want of memory.
THEOREM AnsweredOnce ==
  ASSUME OneSocket
  PROVE  Spec => []OneAnswer
<1>1. Answered => OneAnswer
  BY DEF Answered, Told, TakeNoName, Broken, OneAnswer
<1> QED
  BY <1>1, AnsweredAlways, PTL
=============================================================================
