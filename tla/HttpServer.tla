----------------------------- MODULE HttpServer -----------------------------
(* The server of output_http: server_thread accepts connections on one      *)
(* socket for each address family and starts a detached client_thread for   *)
(* each of them; client_thread reads a request, checks the credentials,     *)
(* sends one answer and closes the descriptor.                              *)
(*                                                                          *)
(* A request is a record: its kind, the number n that follows the first `_' *)
(* of its line (or `plugin=' of a command, which may be negative), whether  *)
(* its parameters are complete, whether its credentials are right, and where*)
(* its client stalls, or that it sends headers without end.                 *)
(* What a client receives is the sequence of the status codes sent to it.   *)
(* accept may fail; the thread that is started all the same is a stray one, *)
(* whose descriptor is -1 (0 here) and which serves nobody.                 *)
EXTENDS Integers, Sequences, FiniteSets, FiniteSetsExt

CONSTANTS Socks,        \* the listening sockets: sd[0 .. sd_len-1]
          Conns,        \* connections of clients, and the threads for them
          Strays,       \* threads that may run at once without a connection
          Requests,     \* the requests that each client may send
          Cells,        \* where malloc may put a cfd structure
          MaxFd,        \* descriptors are 1 .. MaxFd, the lowest is taken
          InCnt,        \* input plugins
          OutCnt,       \* output plugins
          Configs,      \* configurations, see Config
          None

Fds == 1 .. MaxFd
Kinds == {"snapshot", "stream", "take", "input_json", "output_json",
          "program_json", "command", "file", "cgi", "malformed"}

ASSUME CountsOK == /\ MaxFd \in Nat /\ InCnt \in Nat \ {0}
                   /\ OutCnt \in Nat \ {0}
ASSUME ThreadsOK == None \notin Conns /\ Conns \cap Strays = {}
Request == [kind : Kinds, n : Int, ok : BOOLEAN, auth : BOOLEAN,
            stall : {"line", "headers", "endless", "never"}]
ASSUME RequestsOK ==
    \A c \in Conns : /\ Requests[c] \subseteq Request
                     /\ \A r \in Requests[c] : r.kind # "command" => r.n >= 0

Threads == Conns \cup Strays

\* Is output_file loaded?  Are there credentials (-c) and a folder with web
\* pages (-w)?  Are commands disabled (-n)?
Config == [file : BOOLEAN, credentials : BOOLEAN, www : BOOLEAN,
           nocommands : BOOLEAN]
ASSUME ConfigsOK == Configs \subseteq Config

VARIABLES conf,     \* what output_init has parsed
          asked,    \* what the client of a connection asks for
          backlog,  \* connections that wait to be accepted, for each socket
          server,   \* the server thread; the process may have crashed
          pcfd,     \* its pointer to the last cfd structure it allocated
          ready,    \* sockets select has found readable, not yet accepted from
          heap,     \* cfd structures: allocated or not, their descriptor
          peer,     \* connection of each open descriptor
          pc,       \* client threads, one for each connection and the strays
          arg,      \* its argument
          fd,       \* its lcfd.fd
          req,      \* its request; input is input_number
          sent,     \* status codes sent on each connection
          effects   \* ghost: what threads made plugins do, and which plugin

netvars == <<conf, asked, backlog>>
srvvars == <<server, pcfd, ready>>
thrvars == <<arg, fd, req>>
vars == <<netvars, srvvars, heap, peer, pc, thrvars, sent, effects>>

AllRequests == UNION {Requests[c] : c \in Conns}

NoReq == [kind |-> "unknown", n |-> 0, ok |-> FALSE, auth |-> FALSE,
          stall |-> "never"]

Init == /\ conf \in Configs
        /\ asked = [c \in Conns |-> NoReq]
        /\ backlog = [s \in Socks |-> {}]
        /\ server = "alloc" /\ pcfd = None /\ ready = {}
        /\ heap = [x \in Cells |-> [live |-> FALSE, fd |-> 0]]
        /\ peer = [d \in Fds |-> None]
        /\ pc = [t \in Threads |-> "none"]
        /\ arg = [t \in Threads |-> None] /\ fd = [t \in Threads |-> 0]
        /\ req = [t \in Threads |-> NoReq]
        /\ sent = [c \in Conns |-> <<>>] /\ effects = {}

----------------------------------------------------------------------------
(* Clients.                                                                 *)

Connect(c) ==
    /\ asked[c] = NoReq
    /\ \E r \in Requests[c] : asked' = [asked EXCEPT ![c] = r]
    /\ \E s \in Socks : backlog' = [backlog EXCEPT ![s] = @ \cup {c}]
    /\ UNCHANGED <<conf, srvvars, heap, peer, pc, thrvars, sent, effects>>

----------------------------------------------------------------------------
(* server_thread.                                                           *)

\* malloc a cfd structure; a structure that was freed may be handed out again.
Alloc ==
    /\ server = "alloc"
    /\ \E x \in Cells :
          /\ ~heap[x].live
          /\ heap' = [heap EXCEPT ![x] = [live |-> TRUE, fd |-> 0]]
          /\ pcfd' = x
    /\ server' = "select"
    /\ UNCHANGED <<netvars, ready, peer, pc, thrvars, sent, effects>>

Select ==
    /\ server = "select"
    /\ ready' = {s \in Socks : backlog[s] # {}}
    /\ ready' # {}
    /\ server' = "accept"
    /\ UNCHANGED <<netvars, pcfd, heap, peer, pc, thrvars, sent, effects>>

AfterAccept(s) == /\ ready' = ready \ {s}
                  /\ server' = IF ready = {s} THEN "alloc" ELSE "accept"

\* Accept one connection from a ready socket and start its thread.
Accept(s) ==
    /\ server = "accept" /\ s \in ready
    /\ \E c \in backlog[s], d \in Fds :
          /\ peer[d] = None /\ \A e \in Fds : e < d => peer[e] # None
          /\ backlog' = [backlog EXCEPT ![s] = @ \ {c}]
          /\ peer' = [peer EXCEPT ![d] = c]
          /\ heap' = [heap EXCEPT ![pcfd].fd = d]
          /\ arg' = [arg EXCEPT ![c] = pcfd]
          /\ pc' = [pc EXCEPT ![c] = "start"]
    /\ AfterAccept(s)
    /\ UNCHANGED <<conf, asked, pcfd, fd, req, sent, effects>>

\* pthread_create fails: the descriptor is closed and the structure freed.
AcceptNoThread(s) ==
    /\ server = "accept" /\ s \in ready
    /\ \E c \in backlog[s] :
          /\ backlog' = [backlog EXCEPT ![s] = @ \ {c}]
          /\ pc' = [pc EXCEPT ![c] = "ended"]
    /\ heap' = [heap EXCEPT ![pcfd] = [live |-> FALSE, fd |-> 0]]
    /\ AfterAccept(s)
    /\ UNCHANGED <<conf, asked, pcfd, peer, thrvars, sent, effects>>

\* accept fails, for want of a descriptor or because the client has gone
\* (its connection is then no longer in the backlog), and nothing checks it:
\* a thread is started for descriptor -1.
AcceptNone(s) ==
    /\ server = "accept" /\ s \in ready
    /\ \/ UNCHANGED backlog
       \/ \E c \in backlog[s] : backlog' = [backlog EXCEPT ![s] = @ \ {c}]
    /\ heap' = [heap EXCEPT ![pcfd].fd = 0]
    /\ \E t \in Strays :
          /\ pc[t] \in {"none", "ended"}
          /\ pc' = [pc EXCEPT ![t] = "start"]
          /\ arg' = [arg EXCEPT ![t] = pcfd]
    /\ AfterAccept(s)
    /\ UNCHANGED <<conf, asked, pcfd, peer, fd, req, sent, effects>>

\* The same when pthread_create fails: close(-1) does nothing.
AcceptNothing(s) ==
    /\ server = "accept" /\ s \in ready
    /\ heap' = [heap EXCEPT ![pcfd] = [live |-> FALSE, fd |-> 0]]
    /\ AfterAccept(s)
    /\ UNCHANGED <<netvars, pcfd, peer, pc, thrvars, sent, effects>>

----------------------------------------------------------------------------
(* client_thread.                                                           *)

Goto(t, l) == pc' = [pc EXCEPT ![t] = l]
Peer(t)    == IF fd[t] = 0 THEN None ELSE peer[fd[t]]
Locals(t, a, d, r) == /\ arg' = [arg EXCEPT ![t] = a]
                      /\ fd'  = [fd EXCEPT ![t] = d]
                      /\ req' = [req EXCEPT ![t] = r]

\* Nothing is sent when the client has closed the connection; the model's
\* clients stay until they are answered.
Send(t, codes) == sent' = [sent EXCEPT ![Peer(t)] = @ \o codes]
Answer(t, codes) == Goto(t, "close") /\ Send(t, codes)

\* memcpy(&lcfd, arg, sizeof(cfd)); free(arg)
Start(t) ==
    /\ pc[t] = "start"
    /\ Locals(t, None, heap[arg[t]].fd, NoReq)
    /\ heap' = [heap EXCEPT ![arg[t]] = [live |-> FALSE, fd |-> 0]]
    /\ Goto(t, "line")
    /\ UNCHANGED <<netvars, srvvars, peer, sent, effects>>

\* What the client of a thread does, if it has one.
Client(t) == IF Peer(t) = None THEN NoReq ELSE asked[Peer(t)]

\* The client sends nothing more, or there is none: _readline gives up after
\* five seconds.
Timeout(t) ==
    /\ \/ pc[t] = "line" /\ (Peer(t) = None \/ Client(t).stall = "line")
       \/ pc[t] = "headers" /\ Client(t).stall = "headers"
    /\ Goto(t, "close")
    /\ UNCHANGED <<netvars, srvvars, heap, peer, thrvars, sent, effects>>

\* The request line says what to deliver.
ReadLine(t) ==
    /\ pc[t] = "line" /\ Client(t).stall # "line"
    /\ Client(t).kind \in Kinds \ {"malformed"}
    /\ req' = [req EXCEPT ![t] = Client(t)]
    /\ Goto(t, "headers")
    /\ UNCHANGED <<netvars, srvvars, heap, peer, arg, fd, sent, effects>>

\* It is not a GET, or the parameters of take or command cannot be unescaped.
ReadLineBad(t) ==
    /\ pc[t] = "line" /\ Client(t).stall # "line"
    /\ Client(t).kind = "malformed"
    /\ \E code \in {400, 500} : Answer(t, <<code>>)
    /\ UNCHANGED <<netvars, srvvars, heap, peer, thrvars, effects>>

\* As long as the client sends headers they are read.
ReadHeaders(t) ==
    /\ pc[t] = "headers" /\ Client(t).stall \notin {"headers", "endless"}
    /\ Goto(t, "auth")
    /\ UNCHANGED <<netvars, srvvars, heap, peer, thrvars, sent, effects>>

Allowed(t) == conf.credentials => req[t].auth

\* Mutated form: credentials that are not there count as right.
AllowNot(t) ==
    /\ pc[t] = "auth"
    /\ Goto(t, "range")
    /\ UNCHANGED <<netvars, srvvars, heap, peer, thrvars, sent, effects>>

Allow(t) ==
    /\ pc[t] = "auth" /\ Allowed(t)
    /\ Goto(t, "range")
    /\ UNCHANGED <<netvars, srvvars, heap, peer, thrvars, sent, effects>>

\* Mutated form: the descriptor is closed here and again at the end.
DenyClosed(t) ==
    /\ pc[t] = "auth" /\ ~Allowed(t)
    /\ Answer(t, <<401>>)
    /\ peer' = [peer EXCEPT ![fd[t]] = None]
    /\ UNCHANGED <<netvars, srvvars, heap, thrvars, effects>>


Deny(t) ==
    /\ pc[t] = "auth" /\ ~Allowed(t)
    /\ Answer(t, <<401>>)
    /\ UNCHANGED <<netvars, srvvars, heap, peer, thrvars, effects>>

Suffixed == {"snapshot", "stream", "take", "input_json", "output_json"}
InRange(r) == r.n < IF r.kind = "output_json" THEN OutCnt ELSE InCnt

\* Mutated form: the number of an output is compared with that of inputs.
NumberOKInput(t) ==
    /\ pc[t] = "range" /\ (req[t].kind \in Suffixed => req[t].n < InCnt)
    /\ Goto(t, "answer")
    /\ UNCHANGED <<netvars, srvvars, heap, peer, thrvars, sent, effects>>

NumberOK(t) ==
    /\ pc[t] = "range" /\ (req[t].kind \in Suffixed => InRange(req[t]))
    /\ Goto(t, "answer")
    /\ UNCHANGED <<netvars, srvvars, heap, peer, thrvars, sent, effects>>

NumberBad(t) ==
    /\ pc[t] = "range" /\ req[t].kind \in Suffixed /\ ~InRange(req[t])
    /\ Send(t, <<404>>)
    /\ req' = [req EXCEPT ![t].kind = "unknown"]
    /\ Goto(t, "answer")
    /\ UNCHANGED <<netvars, srvvars, heap, peer, arg, fd, effects>>

Answering(t, kinds) == pc[t] = "answer" /\ req[t].kind \in kinds

Used(t, what) == [who |-> Peer(t), what |-> what, plugin |-> req[t].n]

\* send_snapshot waits for a frame, and may not have the memory for it.
SendSnapshot(t) ==
    /\ Answering(t, {"snapshot"})
    /\ \/ Answer(t, <<200>>) /\ effects' = effects \cup {Used(t, "input")}
       \/ Answer(t, <<500>>) /\ UNCHANGED effects
    /\ UNCHANGED <<netvars, srvvars, heap, peer, thrvars>>

SendStream(t) ==
    /\ Answering(t, {"stream"})
    /\ Goto(t, "stream") /\ Send(t, <<200>>)
    /\ effects' = effects \cup {Used(t, "input")}
    /\ UNCHANGED <<netvars, srvvars, heap, peer, thrvars>>

\* A frame is larger than any before it, and realloc fails: an error is sent
\* on top of the answer that has begun.
StreamNoMemory(t) ==
    /\ pc[t] = "stream"
    /\ Answer(t, <<500>>)
    /\ UNCHANGED <<netvars, srvvars, heap, peer, thrvars, effects>>

\* The client leaves and a write fails, or global.stop is set.
StreamEnds(t) ==
    /\ pc[t] = "stream"
    /\ Goto(t, "close")
    /\ UNCHANGED <<netvars, srvvars, heap, peer, thrvars, sent, effects>>

SendJson(t) ==
    /\ Answering(t, {"input_json", "output_json", "program_json"})
    /\ Answer(t, <<200>>)
    /\ effects' = IF req[t].kind = "program_json" THEN effects
                  ELSE effects \cup {Used(t, IF req[t].kind = "input_json"
                                             THEN "input" ELSE "output")}
    /\ UNCHANGED <<netvars, srvvars, heap, peer, thrvars>>

\* The plugins that are loaded.
Count(what) == IF what = "output" THEN OutCnt ELSE InCnt

\* Commands are disabled, parameters are missing, or memory is.
CommandRefused(t) ==
    /\ Answering(t, {"command"})
    /\ \/ conf.nocommands /\ Answer(t, <<501>>)
       \/ ~conf.nocommands /\ Answer(t, <<IF req[t].ok THEN 500 ELSE 400>>)
    /\ UNCHANGED <<netvars, srvvars, heap, peer, thrvars, effects>>

\* A command to a plugin with too high a number is not executed, and is
\* answered like one that was.  One with a number below zero is executed.
Command(t) ==
    /\ Answering(t, {"command"}) /\ ~conf.nocommands /\ req[t].ok
    /\ Answer(t, <<200>>)
    /\ \E dest \in {"input", "output", "program"} :
          effects' = IF dest = "program" \/ req[t].n >= Count(dest)
                     THEN effects ELSE effects \cup {Used(t, dest)}
    /\ UNCHANGED <<netvars, srvvars, heap, peer, thrvars>>

\* What lies in front of the table of plugins is no function to call.
CommandAstray(t) ==
    /\ Answering(t, {"command"}) /\ ~conf.nocommands /\ req[t].ok
    /\ req[t].n < 0
    /\ server' = "crashed"
    /\ \E dest \in {"input", "output"} : effects' = effects \cup {Used(t, dest)}
    /\ UNCHANGED <<netvars, pcfd, ready, heap, peer, pc, thrvars, sent>>

\* send_file: without a known extension the file is refused.
FileRefused(t) ==
    /\ Answering(t, {"file"})
    /\ \/ ~conf.www /\ Answer(t, <<501>>)
       \/ conf.www /\ ~req[t].ok /\ \E code \in {400, 404} : Answer(t, <<code>>)
    /\ UNCHANGED <<netvars, srvvars, heap, peer, thrvars, effects>>

SendFile(t) ==
    /\ Answering(t, {"file"}) /\ conf.www /\ req[t].ok
    /\ \E code \in {404, 200} : Answer(t, <<code>>)
    /\ UNCHANGED <<netvars, srvvars, heap, peer, thrvars, effects>>

\* execute_cgi: what the script prints is the whole answer.
ExecuteCgi(t) ==
    /\ Answering(t, {"cgi"})
    /\ \E codes \in {<<404>>, <<403>>, <<>>} : Answer(t, codes)
    /\ UNCHANGED <<netvars, srvvars, heap, peer, thrvars, effects>>

\* take: let output_file save a frame, then send one.  Without `filename='
\* an error is sent, and a frame after it.
Take(t) ==
    /\ Answering(t, {"take"}) /\ conf.file /\ req[t].ok
    /\ effects' = effects \cup {Used(t, "take")}
    /\ \/ req' = [req EXCEPT ![t].kind = "snapshot"] /\ UNCHANGED <<pc, sent>>
       \/ Answer(t, <<404>>) /\ UNCHANGED req
    /\ UNCHANGED <<netvars, srvvars, heap, peer, arg, fd>>

\* Mutated form: after the error that there is no output_file it goes on.
TakeNothingGoesOn(t) ==
    /\ Answering(t, {"take"})
    /\ ~conf.file \/ ~req[t].ok
    /\ Send(t, <<404>>)
    /\ req' = [req EXCEPT ![t].kind = "snapshot"]
    /\ UNCHANGED <<netvars, srvvars, heap, peer, pc, arg, fd, effects>>

TakeNothing(t) ==
    /\ Answering(t, {"take"})
    /\ \/ ~conf.file /\ Answer(t, <<404>>) /\ UNCHANGED req
       \/ /\ conf.file /\ ~req[t].ok /\ Send(t, <<404>>)
          /\ req' = [req EXCEPT ![t].kind = "snapshot"] /\ UNCHANGED pc
    /\ UNCHANGED <<netvars, srvvars, heap, peer, arg, fd, effects>>

AnswerNothing(t) ==
    /\ Answering(t, {"unknown"})
    /\ Goto(t, "close")
    /\ UNCHANGED <<netvars, srvvars, heap, peer, thrvars, sent, effects>>

\* close(lcfd.fd); free_request(&req)
Close(t) ==
    /\ pc[t] = "close"
    /\ peer' = IF fd[t] = 0 THEN peer ELSE [peer EXCEPT ![fd[t]] = None]
    /\ Goto(t, "ended")
    /\ Locals(t, None, 0, NoReq)
    /\ UNCHANGED <<netvars, srvvars, heap, sent, effects>>

----------------------------------------------------------------------------
ServerNext == \/ Alloc \/ Select
              \/ \E s \in Socks : \/ Accept(s) \/ AcceptNoThread(s)
                                  \/ AcceptNone(s) \/ AcceptNothing(s)

\* What a thread does without waiting for anything that may never come: a read
\* ends by its timeout, and a short answer fits into the socket's buffer.
ThreadStep(t) ==
    \/ Start(t) \/ Timeout(t) \/ ReadLine(t) \/ ReadLineBad(t)
    \/ ReadHeaders(t) \/ Allow(t) \/ Deny(t) \/ NumberOK(t) \/ NumberBad(t)
    \/ SendStream(t) \/ CommandRefused(t) \/ Command(t) \/ FileRefused(t)
    \/ TakeNothing(t) \/ AnswerNothing(t) \/ Close(t)

\* What waits for a frame, for a script, or for the client to read; and what
\* may happen instead.
ThreadWait(t) ==
    \/ SendSnapshot(t) \/ SendJson(t) \/ SendFile(t) \/ ExecuteCgi(t) \/ Take(t)
    \/ StreamEnds(t) \/ StreamNoMemory(t) \/ CommandAstray(t)

Next == /\ server # "crashed"
        /\ \/ \E c \in Conns : Connect(c)
           \/ ServerNext
           \/ \E t \in Threads : ThreadStep(t) \/ ThreadWait(t)

Spec == Init /\ [][Next]_vars

\* Threads are scheduled.
FairSpec == Spec /\ \A t \in Threads :
                       WF_vars(server # "crashed" /\ ThreadStep(t))

----------------------------------------------------------------------------
\* No plugin is asked for with a number too high for those that are loaded,
\* whichever of the two counts it is compared with; and none with one below
\* zero but by a command.
PluginBounded ==
    \A e \in effects : /\ e.plugin < Count(e.what)
                       /\ e.plugin >= 0 \/ asked[e.who].kind = "command"

\* Every variable has its type, and plugins are asked for within their bounds.
TypeOK ==
    /\ conf \in Configs
    /\ asked \in [Conns -> AllRequests \cup {NoReq}]
    /\ backlog \in [Socks -> SUBSET Conns]
    /\ server \in {"alloc", "select", "accept", "crashed"}
    /\ pcfd \in Cells \cup {None} /\ ready \subseteq Socks
    /\ heap \in [Cells -> [live : BOOLEAN, fd : Fds \cup {0}]]
    /\ peer \in [Fds -> Conns \cup {None}]
    /\ pc \in [Threads -> {"none", "start", "line", "headers", "auth", "range",
                           "answer", "stream", "close", "ended"}]
    /\ arg \in [Threads -> Cells \cup {None}] /\ fd \in [Threads -> Fds \cup {0}]
    /\ \A t \in Threads : req[t].kind \in (Kinds \ {"malformed"}) \cup {"unknown"}
    /\ \A c \in Conns : Len(sent[c]) <= 2
    /\ PluginBounded

Serving == {t \in Conns : pc[t] \notin {"none", "start", "ended"}}

\* Each connection is served by the thread that was started for it: no two
\* threads use one descriptor, no thread uses one that is closed, and none
\* reads a structure that another thread has freed.  A thread that was started
\* although accept had failed has no descriptor, and gets no further than to
\* the request line that nobody sends it.
OwnConnection ==
    /\ \A t \in Serving : fd[t] # 0 /\ Peer(t) = t
    /\ \A t \in Conns : pc[t] = "start" =>
           heap[arg[t]].live /\ heap[arg[t]].fd # 0 /\ peer[heap[arg[t]].fd] = t
    /\ \A t \in Strays :
           /\ pc[t] = "start" => heap[arg[t]].live /\ heap[arg[t]].fd = 0
           /\ pc[t] \in {"none", "start", "line", "close", "ended"} /\ fd[t] = 0

\* With -c nothing but errors is sent to a client without the credentials,
\* and no plugin is asked for anything on its behalf.
Authorised ==
    \A c \in Conns : conf.credentials /\ ~asked[c].auth =>
        /\ \A i \in 1 .. Len(sent[c]) : sent[c][i] >= 400
        /\ \A e \in effects : e.who # c

\* A client gets one answer, except for a take without a file name, which is
\* answered with an error and a picture, and for a stream that ends for want of
\* memory with an error in the middle of it.
OneAnswer ==
    \A c \in Conns : Len(sent[c]) > 1 =>
        \/ asked[c].kind = "take" /\ ~asked[c].ok
        \/ asked[c].kind = "stream" /\ sent[c] = <<200, 500>>

\* The client sends headers without end; or a frame, a script or the client
\* has to do something that it never need do.
Held(t) == \/ pc[t] = "headers" /\ Client(t).stall = "endless"
           \/ pc[t] = "stream"
           \/ Answering(t, {"snapshot", "take", "cgi", "file", "input_json",
                            "output_json", "program_json"})

=============================================================================
