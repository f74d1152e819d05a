-------------------------------- MODULE Mmal --------------------------------
(* The part of MMAL that input_raspicam uses: one output port (the one of   *)
(* the JPEG encoder) with its pool of buffer headers, the action thread     *)
(* that runs the callbacks of the component, and the client that exchanges  *)
(* messages with VideoCore, the other processor, over VCHIQ.                *)
(*                                                                          *)
(* Three threads of the program meet here: the worker of the plugin, the    *)
(* action thread, and the one in which VCHIQ calls the client.  Only the    *)
(* worker sends messages that are replied to, so it never waits for one of  *)
(* the client's waiters.  A lock that is taken, used and released without   *)
(* waiting for anything else is one step.                                   *)
EXTENDS Naturals, Sequences, FiniteSets, SequencesExt

CONSTANTS Headers,      \* buffer headers there may be
          Recommended,  \* those the pool may have: VideoCore recommends how many
          MaxParts,     \* bound: buffers that one picture fills
          Overtakes,    \* does VideoCore put short data into a message while
                        \* a transfer is pending?
          MaxTrouble    \* bound: calls and transfers that fail

ASSUME HeadersOK == IsFiniteSet(Headers) /\ Headers # {}
ASSUME RecommendedOK == Recommended \subseteq SUBSET Headers
ASSUME OvertakesOK == Overtakes \in BOOLEAN
ASSUME MmalBoundsOK == MaxParts \in Nat \ {0} /\ MaxTrouble \in Nat

VARIABLES toVC,     \* messages on their way to VideoCore
          toHost,   \* messages on their way back
          bulks,    \* bulk transfers to the host that have been queued
          vc,       \* VideoCore: the headers it holds, whether it captures,
                    \* the picture and part it encodes next, and whether it
                    \* is disabling the port
          reply,    \* of the call the worker has sent: "none", "sent", "ok"
                    \* or "failed"
          port,     \* is_enabled, has_pool, is_paused, the headers queued
                    \* while it is paused, the number of those in transit
          callbackQueue,  \* headers whose callback has not begun
          action,   \* the action thread: its semaphore, who has its mutex
          pool,     \* the queue of free headers
          lost,     \* ghost: headers that nobody has any more
          trouble   \* ghost: calls and transfers that have failed

wirevars == <<toVC, toHost, bulks>>
portvars == <<port, callbackQueue, action>>
poolvars == <<pool, lost>>
mmalvars == <<wirevars, vc, reply, portvars, poolvars, trouble>>

NoData == <<>>          \* buffer->length = 0
Header(b, data, end) == [header |-> b, data |-> data, end |-> end,
                         failed |-> FALSE]
CallMsg(what, x) == [msg |-> "call", what |-> what, of |-> x]
BufferMsg(b)     == [msg |-> "buffer", header |-> b]
PartMsg(h)       == [msg |-> "part", header |-> h.header, part |-> h]
ReplyMsg(status) == [msg |-> "reply", status |-> status]
IsBuffer(m)      == m.msg \in {"buffer", "part"}
DisablesPort(m)  == m.msg = "call" /\ m.what = "port_disable" /\ m.of = "output"

MmalInit ==
    /\ toVC = <<>> /\ toHost = <<>> /\ bulks = <<>>
    /\ vc = [held |-> <<>>, captures |-> FALSE, frame |-> 0, part |-> 1,
             disables |-> FALSE]
    /\ reply = "none"
    /\ port = [isEnabled |-> FALSE, hasPool |-> FALSE, isPaused |-> FALSE,
               queue |-> <<>>, transit |-> 0]
    /\ callbackQueue = <<>>
    /\ action = [sema |-> 0, mutex |-> "none"]
    /\ pool = <<>> /\ lost = {} /\ trouble = 0

MayFail == trouble < MaxTrouble

----------------------------------------------------------------------------
(* VideoCore and its encoder.                                               *)

\* The encoder fills one buffer after the other; a picture ends with any of
\* them.  In stills mode it stops after one.
Encodes(stills) ==
    /\ vc.captures /\ vc.held # <<>>
    /\ \E end \in {FALSE, TRUE} :
         /\ vc.part = MaxParts => end
         /\ toHost' = Append(toHost,
                        PartMsg(Header(Head(vc.held),
                                       <<<<vc.frame, vc.part, end>>>>, end)))
         /\ vc' = [vc EXCEPT !.held = Tail(@),
                             !.part = IF end THEN 1 ELSE @ + 1,
                             !.frame = IF end THEN 1 - @ ELSE @,
                             !.captures = ~(end /\ stills)]
    /\ UNCHANGED <<toVC, bulks, reply, portvars, poolvars, trouble>>

\* It takes a message: a buffer, or a call, which may fail.  The port is
\* disabled when all transfers are over.  It can connect all its own ports.
VCReceives ==
    /\ toVC # <<>> /\ toVC' = Tail(toVC)
    /\ LET m == Head(toVC)
       IN  \/ /\ m.msg = "buffer"
              /\ vc' = [vc EXCEPT !.held = Append(@, m.header)]
              /\ UNCHANGED <<toHost, trouble>>
           \/ /\ m.msg = "call" /\ ~DisablesPort(m)
              /\ toHost' = Append(toHost, ReplyMsg("ok"))
              /\ vc' = [vc EXCEPT !.captures = @ \/ m.what = "capture"]
              /\ UNCHANGED trouble
           \/ /\ DisablesPort(m)
              /\ vc' = [vc EXCEPT !.captures = FALSE, !.disables = TRUE]
              /\ UNCHANGED <<toHost, trouble>>
           \/ /\ m.msg = "call" /\ m.what # "port_connect" /\ MayFail
              /\ toHost' = Append(toHost, ReplyMsg("failed"))
              /\ trouble' = trouble + 1
              /\ UNCHANGED vc
    /\ UNCHANGED <<bulks, reply, portvars, poolvars>>

\* "MMAL server should make sure that all buffers are sent back before it
\* disables the port."
VCDisables ==
    /\ vc.disables /\ bulks = <<>>
    /\ \A i \in DOMAIN toHost : toHost[i].msg # "part"
    /\ toHost' = toHost
         \o [i \in DOMAIN vc.held |-> PartMsg(Header(vc.held[i], NoData, FALSE))]
         \o <<ReplyMsg("ok")>>
    /\ vc' = [vc EXCEPT !.held = <<>>, !.disables = FALSE, !.part = 1]
    /\ UNCHANGED <<toVC, bulks, reply, portvars, poolvars, trouble>>

----------------------------------------------------------------------------
(* The thread of VCHIQ.                                                     *)

\* mmal_vc_port_send_callback: the header goes to the action thread.
SendCallback(h) ==
    /\ callbackQueue' = Append(callbackQueue, h)
    /\ action' = [action EXCEPT !.sema = @ + 1]
    /\ UNCHANGED port

\* mmal_vc_vchiq_callback on MESSAGE_AVAILABLE.  Data are in the message when
\* they are short, or come by a bulk transfer; when that cannot be queued the
\* length becomes 0.  Data in the message go past a transfer that is pending.
VchiqMessage ==
    /\ toHost # <<>> /\ toHost' = Tail(toHost)
    /\ LET m == Head(toHost)
       IN  \/ /\ m.msg = "reply" /\ reply' = m.status
              /\ UNCHANGED <<bulks, portvars, trouble>>
           \/ /\ m.msg = "part" /\ m.part.data # NoData
              /\ bulks' = Append(bulks, m.part)
              /\ UNCHANGED <<reply, portvars, trouble>>
           \/ /\ m.msg = "part"
              /\ m.part.data = NoData \/ bulks = <<>> \/ Overtakes
              /\ SendCallback(m.part)
              /\ UNCHANGED <<reply, bulks, trouble>>
           \/ /\ m.msg = "part" /\ m.part.data # NoData /\ MayFail
              /\ SendCallback([m.part EXCEPT !.data = NoData])
              /\ trouble' = trouble + 1
              /\ UNCHANGED <<reply, bulks>>
    /\ UNCHANGED <<toVC, vc, poolvars>>

\* BULK_RECEIVE_DONE and BULK_RECEIVE_ABORTED
VchiqBulk ==
    /\ bulks # <<>> /\ bulks' = Tail(bulks)
    /\ \/ /\ SendCallback(Head(bulks)) /\ UNCHANGED trouble
       \/ /\ MayFail /\ trouble' = trouble + 1
          /\ SendCallback([Head(bulks) EXCEPT !.failed = TRUE])
    /\ UNCHANGED <<toVC, toHost, vc, reply, poolvars>>

----------------------------------------------------------------------------
(* What the worker and the callbacks call.                                  *)

\* mmal_vc_sendwait_message sends; the caller goes on when reply is there.
SendWait(what, x) ==
    /\ reply = "none"
    /\ toVC' = Append(toVC, CallMsg(what, x)) /\ reply' = "sent"
    /\ UNCHANGED <<toHost, bulks, vc, portvars, poolvars, trouble>>

\* Mutated form: a failed send leaves the header counted as in transit.
NotSentCounted(b) ==
    /\ MayFail /\ trouble' = trouble + 1 /\ lost' = lost \cup {b}
    /\ port' = [port EXCEPT !.transit = @ + 1]
    /\ UNCHANGED toVC

\* Mutated form: mmal_vc_port_send and its caller both undo the count.
NotSentUndoneTwice(b) ==
    /\ MayFail /\ trouble' = trouble + 1 /\ lost' = lost \cup {b}
    /\ port' = [port EXCEPT !.transit = @ - 1]
    /\ UNCHANGED toVC

\* IN_TRANSIT_INCREMENT is undone when the message cannot be queued.
NotSent(b) ==
    /\ MayFail /\ trouble' = trouble + 1 /\ lost' = lost \cup {b}
    /\ UNCHANGED <<toVC, port>>

\* mmal_port_send_buffer and mmal_vc_port_send.  Neither these nor their
\* callers put a header back that could not be sent.  There is a context for
\* every header, so this cannot fail for want of one.
SendBuffer(b) ==
    \/ /\ port.isEnabled /\ port.isPaused
       /\ port' = [port EXCEPT !.transit = @ + 1, !.queue = Append(@, b)]
       /\ UNCHANGED <<toVC, lost, trouble>>
    \/ /\ port.isEnabled /\ ~port.isPaused /\ port.hasPool
       /\ \/ /\ toVC' = Append(toVC, BufferMsg(b))
             /\ port' = [port EXCEPT !.transit = @ + 1]
             /\ UNCHANGED <<lost, trouble>>
          \/ NotSent(b)
    \/ /\ ~port.isEnabled \/ ~(port.isPaused \/ port.hasPool)
       /\ lost' = lost \cup {b} /\ UNCHANGED <<toVC, port, trouble>>

\* mmal_component_action_lock and unlock
ActionLock(t)   == /\ action.mutex = "none"
                   /\ action' = [action EXCEPT !.mutex = t]
ActionUnlock    == action' = [action EXCEPT !.mutex = "none"]

\* mmal_component_action_deregister joins the thread.
ActionQuits == /\ action.mutex # "action"
               /\ action' = [action EXCEPT !.mutex = "deleted"]

\* mmal_pool_create, and mmal_queue_get and mmal_queue_put on its queue
PoolCreate(H) == pool' = SetToSeq(H)
QueueGet      == /\ pool # <<>> /\ pool' = Tail(pool)
Release(b)    == pool' = Append(pool, b)

\* IN_TRANSIT_DECREMENT and IN_TRANSIT_WAIT
TransitDecrement == port' = [port EXCEPT !.transit = @ - 1]
TransitWait      == port.transit = 0

----------------------------------------------------------------------------
HeadersOf(q) == {q[i].header : i \in DOMAIN q}
BuffersIn(q) == {i \in DOMAIN q : IsBuffer(q[i])}
OnTheWire == UNION {{toVC[i].header : i \in BuffersIn(toVC)}, Range(vc.held),
                    {toHost[i].header : i \in BuffersIn(toHost)}, HeadersOf(bulks)}

HeaderTypeOK(h) == /\ h.header \in Headers
                   /\ h.data = NoData \/ Head(h.data) \in (0 .. 1) \X (1 .. MaxParts) \X BOOLEAN
                   /\ {h.end, h.failed} \subseteq BOOLEAN

MmalTypeOK ==
    /\ \A h \in Range(bulks) \cup Range(callbackQueue) : HeaderTypeOK(h)
    /\ Range(vc.held) \subseteq Headers /\ vc.part \in 1 .. MaxParts
    /\ reply \in {"none", "sent", "ok", "failed"}
    /\ {port.isEnabled, port.hasPool, port.isPaused} \subseteq BOOLEAN
    /\ port.transit \in Nat
    /\ action.sema \in Nat /\ action.mutex \in {"none", "worker", "action", "deleted"}
    /\ Range(pool) \cup lost \subseteq Headers
    /\ trouble \in 0 .. MaxTrouble
=============================================================================
