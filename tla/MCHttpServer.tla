---------------------------- MODULE MCHttpServer ----------------------------
(* Requests for TLC: each kind once with right credentials, number 0 and    *)
(* complete parameters, and those that differ from it in one thing; and two *)
(* configurations that differ in everything.                                *)
EXTENDS HttpServer

Plain(k) == [kind |-> k, n |-> 0, ok |-> TRUE, auth |-> TRUE, stall |-> "never"]

SomeRequests ==
    {Plain(k) : k \in Kinds \ {"input_json"}}
    \cup {[Plain(k) EXCEPT !.ok = FALSE] : k \in {"command", "take"}}
    \cup {[Plain(k) EXCEPT !.n = 1] : k \in {"output_json", "command"}}
    \cup {[Plain("command") EXCEPT !.auth = FALSE],
          [Plain("command") EXCEPT !.n = -1],
          [Plain("file") EXCEPT !.stall = "endless"],
          [Plain("file") EXCEPT !.stall = "line"],
          [Plain("file") EXCEPT !.stall = "headers"]}

\* Those with which a thread stays, stalls, and brings the server down.
Others == {Plain("stream"), [Plain("file") EXCEPT !.stall = "line"],
           [Plain("command") EXCEPT !.n = -1]}

\* One client asks for anything, beside it the others for those three.
Anyone == CHOOSE c \in Conns : TRUE
EachAsks == [c \in Conns |-> IF c = Anyone THEN SomeRequests ELSE Others]

SomeConfigs ==
    {[file |-> b, credentials |-> b, www |-> b, nocommands |-> ~b] :
        b \in BOOLEAN}
=============================================================================
