------------------------------ MODULE RaspiCam ------------------------------
(* input_raspicam: a worker thread sets up the camera, the preview and the  *)
(* JPEG encoder of VideoCore, feeds buffers to the encoder's output port    *)
(* and takes everything down when the program stops.  The encoder's         *)
(* callback copies what comes back into the picture buffer of mjpg_streamer *)
(* and holds db from the first to the last part of a picture.               *)
EXTENDS Mmal

CONSTANT Options   \* the sets of options that the plugin is started with

ASSUME OptionsOK == Options \subseteq SUBSET {"stills", "preview"}

VARIABLES stills,   \* -usestills
          preview,  \* -preview
          todo,     \* the steps the worker has left
          life,     \* "runs", or how the worker ended: "ended" when it
                    \* returned, "exited" and "crashed" with the process
          stop,     \* pglobal->stop
          complete, \* complete_semaphore, which is waited for with stills
          cb,       \* the callback that each thread runs
          db,       \* is the mutex of the picture buffer locked?
          buf,      \* in->buf, the parts that were copied there
          offset,   \* callback_data.offset, in parts
          size,     \* in->size, in parts
          created,  \* components that exist
          links,    \* tunnels between ports that are connected
          enabled,  \* ports that are enabled
          payloads  \* references that payloads hold on the encoder's port

workervars  == <<stills, preview, todo, life, stop>>
picturevars == <<db, buf, offset, size>>
setupvars   == <<created, links, enabled, payloads>>
vars == <<mmalvars, workervars, complete, cb, picturevars, setupvars>>

Threads == {"worker", "action"}

----------------------------------------------------------------------------
(* worker_thread, as a list of steps.                                       *)

Do(what, x) == [do |-> what, arg |-> x]
Call(what, x, then, else) ==
    [do |-> "call", what |-> what, arg |-> x, then |-> then, else |-> else]
Exit == Do("exit", "")
Must(what, x) == Call(what, x, <<>>, <<Exit>>)
Try(what, x)  == Call(what, x, <<>>, <<>>)

\* mmal_component_create: the component, then what each port is like.
Create(c) == <<Must("component_create", c), Must("port_info_get", c)>>

\* mmal_vc_port_set_format reads the settings of the port back.
Format(p, then, else) ==
    <<Call("port_info_set", p, <<Call("port_info_get", p, then, else)>>, else)>>

\* The camera and its preview.  A refused configuration, parameter or format
\* of a port that is not used goes unnoticed.
OpenCamera ==
    Create("camera")
    \o <<Must("port_enable", "control"), Try("config", "camera"),
         Try("parameters", "camera")>> \o Format("camera_preview", <<>>, <<>>)
    \o Create("preview") \o <<Call("displayregion", "preview_input", <<>>,
                                <<Do("unless_ENOSYS", "")>>)>>
    \o (IF stills THEN <<>> ELSE Format("camera_video", <<>>, <<>>))
    \o Format("camera_still", <<>>, <<Exit>>)
    \o <<Must("component_enable", "camera"), Must("component_enable", "preview")>>

OpenEncoder ==
    Create("encoder") \o Format("output", <<>>, <<Exit>>)
    \o <<Must("quality", "output"), Must("component_enable", "encoder"),
         Do("pool_create", "")>>

\* The two ends of a tunnel, named for the component they lead to.
Tunnels == {"preview", "encoder"}
Out(x) == IF x = "preview" THEN "camera_preview" ELSE "camera_picture"
In(x)  == IF x = "preview" THEN "preview_input" ELSE "encoder_input"
TunnelOf(p) == CHOOSE x \in Tunnels : p \in {Out(x), In(x)}

\* mmal_connection_create of a tunnel
ConnectionCreate(x, then, else) ==
    Format(In(x), <<Call("port_connect", x, then, else)>>, else)

\* mmal_vc_port_enable of an end of a tunnel asks for the buffers of the peer
\* first and gets its settings afterwards.
EnableEnd(p, peer, then, else) ==
    <<Call("requirements_set", peer,
           <<Call("port_enable", p, <<Try("port_info_get", peer)>> \o then, else)>>,
           else)>>

\* mmal_vc_port_disable of an end of a tunnel
DisableEnd(p, peer, then, else) ==
    <<Call("port_disable", p, <<Try("port_info_get", peer)>> \o then,
           <<Try("port_info_get", peer)>> \o else)>>

\* mmal_port_enable of the output port of a tunnel, the input port first
ConnectionEnable(x, else) ==
    EnableEnd(In(x), Out(x),
              EnableEnd(Out(x), In(x), <<>>,
                        DisableEnd(In(x), Out(x), <<>>, <<>>) \o else),
              else)

\* connect_ports; what has been created is destroyed again.
Connect(x, failure) ==
    ConnectionCreate(x, ConnectionEnable(x, <<Do("disconnect", Out(x))>> \o failure),
                     failure)

\* The two modes.  The first buffer that is sent asks for a version.
StartEncoding ==
    (IF preview THEN Connect("preview", <<>>) ELSE <<>>)
    \o Connect("encoder", <<Exit>>)
    \o <<Must("port_enable", "output"), Do("is_enabled", ""), Try("version", "client")>>
    \o (IF stills THEN <<Do("while", "")>>
        ELSE <<Do("count", ""), Try("capture", "camera"), Do("poll", "")>>)

\* Mutated form: the semaphore is waited for also when the capture fails.
StillsRoundAlwaysAwaits ==
    <<Do("count", ""), Try("capture", "camera"), Do("await", ""), Do("while", "")>>

\* while(!pglobal->stop) in stills mode.  All the headers that are free are
\* counted, then sent; the semaphore is waited for if the capture starts.
StillsRound == <<Do("count", ""), Call("capture", "camera", <<Do("await", "")>>, <<>>),
                 Do("while", "")>>

\* Mutated form: the reply of VideoCore is all that is waited for.
DisablePortEarly ==
    <<Do("not_enabled", ""), Call("port_disable", "output", <<Do("no_pool", "")>>,
      <<Do("no_pool", ""), Do("enabled_again", "")>>)>>

\* mmal_port_disable of the encoder's output port: no more sends, no more
\* callbacks by the action thread, the call, the callbacks that are left, and
\* the headers that are in transit.
DisablePort ==
    <<Do("not_enabled", ""), Do("action_lock", ""),
      Call("port_disable", "output",
           <<Do("no_pool", ""), Do("drain", ""), Do("action_unlock", ""),
             Do("flush", ""), Do("transit_wait", "")>>,
           <<Do("no_pool", ""), Do("drain", ""), Do("action_unlock", ""),
             Do("enabled_again", "")>>)>>

\* mmal_port_disable of a tunnel that has ends enabled, the output port first
DisableTunnel(x, then) ==
    LET input == IF In(x) \in enabled THEN DisableEnd(In(x), Out(x), then, <<>>)
                 ELSE then
    IN  IF Out(x) \in enabled THEN DisableEnd(Out(x), In(x), input, <<>>) ELSE input

\* mmal_connection_destroy gives up when a port cannot be disabled.
ConnectionDestroy(x) == DisableTunnel(x, <<Do("disconnect", Out(x))>>)

\* mmal_port_disconnect of one end
Disconnect(p) ==
    LET x == TunnelOf(p)
        disconnect == <<Try("port_disconnect", x)>>
    IN  CASE x \notin links  -> <<>>
          [] p \in enabled   -> DisableTunnel(x, disconnect)
          [] OTHER -> disconnect

\* mmal_component_destroy, which disables and disconnects what still is not,
\* and is put off while payloads are left
Destroy(c) == <<Do("cleanup", c), Do("unless_referenced", c)>>

\* mmal_component_destroy_internal joins the action thread first.
DestroyInternal(c) == <<Do("action_deregister", c), Try("component_destroy", c)>>

\* The tunnel to the preview is there if connect_ports succeeded.
Teardown ==
    <<Do("semaphore_delete", "")>>
    \o (IF Out("preview") \in enabled THEN ConnectionDestroy("preview") ELSE <<>>)
    \o DisablePort \o ConnectionDestroy("encoder")
    \o <<Try("component_disable", "encoder"), Try("component_disable", "preview"),
         Try("component_disable", "camera"),
         Do("disable_output", ""), Do("pool_destroy", "")>>
    \o Destroy("encoder") \o Destroy("preview") \o Destroy("camera")
    \o <<Do("end", "")>>

\* mmal_component_release_internal: the ports of a component, the input port
\* first, its control port last, and then the connections.
Cleanup(c) ==
    LET ends == IF c = "camera" THEN <<Out("preview"), Out("encoder")>> ELSE <<In(c)>>
        each(do) == [i \in DOMAIN ends |-> Do(do, ends[i])]
    IN  each("disable")
        \o (IF c = "encoder" THEN <<Do("disable_output", "")>> ELSE <<>>)
        \o (IF c = "camera" THEN <<Try("port_disable", "control")>> ELSE <<>>)
        \o each("disconnect")

NoCallback == [at |-> "idle", of |-> [header |-> "none", data |-> NoData,
                                     end |-> FALSE, failed |-> FALSE],
               next |-> "none"]

Init ==
    /\ MmalInit
    /\ \E given \in Options : /\ stills = ("stills" \in given)
                              /\ preview = ("preview" \in given)
    /\ todo = OpenCamera \o OpenEncoder \o <<Do("start", "")>>
    /\ life = "runs" /\ stop = FALSE /\ complete = 0
    /\ cb = [t \in Threads |-> NoCallback]
    /\ db = FALSE /\ buf = <<>> /\ offset = 0 /\ size = 0
    /\ created = {} /\ links = {} /\ enabled = {} /\ payloads = 0

----------------------------------------------------------------------------
(* The worker.                                                              *)

Is(what)  == life = "runs" /\ todo # <<>> /\ Head(todo).do = what
Then(more) == todo' = more \o Tail(todo) /\ UNCHANGED <<stills, preview, stop>>
Arg == Head(todo).arg

\* A call is sent; then its reply is there.
WorkerCalls ==
    /\ Is("call") /\ SendWait(Head(todo).what, Arg)
    /\ UNCHANGED <<workervars, complete, cb, picturevars, setupvars>>

\* What the caller notes: a set that one call adds to and one takes from.
Noted(set, adds, removes) ==
    IF reply # "ok" THEN set
    ELSE CASE Head(todo).what = adds    -> set \cup {Arg}
           [] Head(todo).what = removes -> set \ {Arg}
           [] OTHER -> set

\* mmal_component_disable pauses the ports of the component.
WorkerReturns ==
    /\ Is("call") /\ reply \in {"ok", "failed"} /\ reply' = "none"
    /\ Then(IF reply = "ok" THEN Head(todo).then ELSE Head(todo).else)
    /\ created' = Noted(created, "component_create", "component_destroy")
    /\ links' = Noted(links, "port_connect", "port_disconnect")
    /\ enabled' = Noted(enabled, "port_enable", "port_disable")
    /\ port' = [port EXCEPT !.isPaused = @ \/ "encoder" \in
                  Noted({}, "component_disable", "component_enable")]
    /\ UNCHANGED <<life, wirevars, vc, callbackQueue, action, poolvars, trouble,
                   complete, cb, picturevars, payloads>>

\* mmal_port_pool_create and mmal_port_pool_destroy, which disables the port
\* if it still is enabled: each payload is a reference to the port.
WorkerPool ==
    /\ \/ /\ Is("pool_create")
          /\ \E H \in Recommended : PoolCreate(H) /\ payloads' = Cardinality(H)
       \/ Is("pool_destroy") /\ pool' = <<>> /\ payloads' = 0
    /\ Then(<<>>)
    /\ UNCHANGED <<life, wirevars, vc, reply, portvars, lost, trouble, complete,
                   cb, picturevars, created, links, enabled>>

\* Steps that only choose what comes next.
WorkerChooses ==
    /\ \/ Is("start") /\ Then(StartEncoding)
       \/ Is("unless_ENOSYS") /\ (Then(<<>>) \/ Then(<<Exit>>))
       \/ Is("while") /\ Then(IF stop THEN Teardown ELSE StillsRound)
       \/ Is("poll") /\ stop /\ Then(Teardown)
       \/ Is("count") /\ Then([i \in DOMAIN pool |-> Do("send", "")])
       \/ Is("disable_output") /\ Then(IF port.isEnabled THEN DisablePort ELSE <<>>)
       \/ Is("disable") /\ Then(IF Arg \in enabled THEN DisableTunnel(TunnelOf(Arg), <<>>)
                                ELSE <<>>)
       \/ Is("disconnect") /\ Then(Disconnect(Arg))
       \/ Is("cleanup") /\ Then(Cleanup(Arg))
       \/ /\ Is("unless_referenced")
          /\ Then(IF Arg = "encoder" /\ payloads > 0 THEN <<>>
                  ELSE DestroyInternal(Arg))
       \/ Is("semaphore_delete") /\ Then(<<>>)
    /\ UNCHANGED <<life, mmalvars, complete, cb, picturevars, setupvars>>

\* The end of the worker or of the program.
WorkerEnds ==
    /\ \/ Is("exit") /\ life' = "exited"
       \/ Is("end")  /\ life' = "ended"
    /\ Then(<<>>)
    /\ UNCHANGED <<mmalvars, complete, cb, picturevars, setupvars>>

\* A header from the pool is sent.  There may be fewer than were counted;
\* mmal_port_send_buffer is then called with a null pointer.
WorkerSends ==
    /\ Is("send") /\ Then(<<>>)
    /\ IF pool = <<>>
         THEN life' = "crashed" /\ UNCHANGED <<toVC, port, lost, trouble, pool>>
         ELSE QueueGet /\ SendBuffer(Head(pool)) /\ UNCHANGED life
    /\ UNCHANGED <<toHost, bulks, vc, reply, callbackQueue, action, complete, cb,
                   picturevars, setupvars>>

\* vcos_semaphore_wait(&callback_data.complete_semaphore)
WorkerAwaits ==
    /\ Is("await") /\ complete > 0 /\ complete' = complete - 1 /\ Then(<<>>)
    /\ UNCHANGED <<life, mmalvars, cb, picturevars, setupvars>>

\* is_enabled and has_pool; mmal_port_disable_internal flushes what was
\* queued while the port was paused.
WorkerPort ==
    /\ \/ /\ Is("is_enabled")
          /\ port' = [port EXCEPT !.isEnabled = TRUE, !.hasPool = TRUE]
          /\ UNCHANGED pool
       \/ Is("enabled_again") /\ port' = [port EXCEPT !.isEnabled = TRUE]
          /\ UNCHANGED pool
       \/ Is("not_enabled") /\ port' = [port EXCEPT !.isEnabled = FALSE]
          /\ UNCHANGED pool
       \/ Is("no_pool") /\ port' = [port EXCEPT !.hasPool = FALSE]
          /\ UNCHANGED pool
       \/ /\ Is("flush") /\ pool' = pool \o port.queue
          /\ port' = [port EXCEPT !.transit = @ - Len(port.queue), !.queue = <<>>]
       \/ Is("transit_wait") /\ TransitWait /\ UNCHANGED <<port, pool>>
    /\ Then(<<>>)
    /\ UNCHANGED <<life, wirevars, vc, reply, callbackQueue, action, lost, trouble,
                   complete, cb, picturevars, setupvars>>

WorkerLocks ==
    /\ \/ Is("action_lock") /\ ActionLock("worker")
       \/ Is("action_unlock") /\ ActionUnlock
       \/ /\ Is("action_deregister")
          /\ IF Arg = "encoder" THEN ActionQuits ELSE UNCHANGED action
    /\ Then(<<>>)
    /\ UNCHANGED <<life, wirevars, vc, reply, port, callbackQueue, poolvars, trouble,
                   complete, cb, picturevars, setupvars>>

\* while (mmal_queue_length(callback_queue)) mmal_vc_do_callback
WorkerDrained ==
    /\ Is("drain") /\ cb["worker"].at = "idle" /\ callbackQueue = <<>> /\ Then(<<>>)
    /\ UNCHANGED <<life, mmalvars, complete, cb, picturevars, setupvars>>

----------------------------------------------------------------------------
(* mmal_vc_do_callback, mmal_port_buffer_header_callback and                *)
(* encoder_buffer_callback, in the thread t.                                *)

At(t, where) == cb[t].at = where
Goes(t, where) == cb' = [cb EXCEPT ![t].at = where]
Buffer(t)    == cb[t].of
IsComplete(t) == Buffer(t).end \/ Buffer(t).failed

\* mmal_component_action_thread_func
ActionWakes ==
    /\ At("action", "idle") /\ action.sema > 0 /\ action.mutex = "none"
    /\ action' = [sema |-> action.sema - 1, mutex |-> "action"]
    /\ Goes("action", "begin")
    /\ UNCHANGED <<wirevars, vc, reply, port, callbackQueue, poolvars, trouble,
                   workervars, complete, picturevars, setupvars>>

\* Is there a header whose callback can begin?  The queue may be empty.
CallbackBegins(t) ==
    /\ CASE t = "action" -> At(t, "begin") [] t = "worker" -> Is("drain") /\ At(t, "idle")
    /\ t = "worker" => callbackQueue # <<>>
    /\ IF callbackQueue = <<>>
         THEN Goes(t, "idle") /\ ActionUnlock /\ UNCHANGED callbackQueue
         ELSE /\ cb' = [cb EXCEPT ![t].at = "copy", ![t].of = Head(callbackQueue)]
              /\ callbackQueue' = Tail(callbackQueue)
              /\ UNCHANGED action
    /\ UNCHANGED <<wirevars, vc, reply, port, poolvars, trouble, workervars,
                   complete, picturevars, setupvars>>

\* memcpy after the parts that are there; what is left of an older picture
\* cannot be read and is dropped.
CopiedTo(at, data) == IF data = NoData THEN buf ELSE SubSeq(buf, 1, at) \o data

\* Mutated form: the size that is published is the one of the last part.
CopyLastSize(t) ==
    LET data == Buffer(t).data
        sum  == offset + Len(data)
    IN  /\ At(t, "copy") /\ Goes(t, "release")
        /\ data # NoData /\ offset = 0 => ~db
        /\ buf' = CopiedTo(offset, data)
        /\ IF IsComplete(t)
             THEN size' = Len(data) /\ offset' = 0 /\ db' = FALSE
             ELSE size' = size /\ offset' = sum /\ db' = (db \/ data # NoData)
        /\ UNCHANGED <<mmalvars, workervars, complete, setupvars>>

\* The first part of a picture locks db.  The last one, or one whose transfer
\* failed, publishes the size and unlocks it, whether it was locked or not.
Copy(t) ==
    LET data == Buffer(t).data
        sum  == offset + Len(data)
    IN  /\ At(t, "copy") /\ Goes(t, "release")
        /\ data # NoData /\ offset = 0 => ~db
        /\ buf' = CopiedTo(offset, data)
        /\ IF IsComplete(t)
             THEN size' = sum /\ offset' = 0 /\ db' = FALSE
             ELSE size' = size /\ offset' = sum /\ db' = (db \/ data # NoData)
        /\ UNCHANGED <<mmalvars, workervars, complete, setupvars>>

\* mmal_buffer_header_release puts the header into the pool's queue.
CallbackReleases(t) ==
    /\ At(t, "release") /\ Goes(t, "resend") /\ Release(Buffer(t).header)
    /\ UNCHANGED <<wirevars, vc, reply, portvars, lost, trouble, workervars, complete,
                   picturevars, setupvars>>

\* is_enabled is read without a lock; it is read again before the send.
CallbackGets(t) ==
    /\ At(t, "resend")
    /\ IF port.isEnabled /\ pool # <<>>
         THEN /\ QueueGet
              /\ cb' = [cb EXCEPT ![t].at = "send", ![t].next = Head(pool)]
         ELSE Goes(t, "post") /\ UNCHANGED pool
    /\ UNCHANGED <<wirevars, vc, reply, portvars, lost, trouble, workervars, complete,
                   picturevars, setupvars>>

\* Only in the action thread: the worker drains when the port is disabled.
CallbackSends ==
    /\ At("action", "send") /\ SendBuffer(cb["action"].next)
    /\ cb' = [cb EXCEPT !["action"].at = "post", !["action"].next = "none"]
    /\ UNCHANGED <<toHost, bulks, vc, reply, callbackQueue, action, pool, workervars,
                   complete, picturevars, setupvars>>

\* Nobody waits for the semaphore in video mode, and it is not counted then.
CallbackPosts(t) ==
    /\ At(t, "post") /\ Goes(t, "done")
    /\ complete' = IF IsComplete(t) /\ stills THEN complete + 1 ELSE complete
    /\ UNCHANGED <<mmalvars, workervars, picturevars, setupvars>>

CallbackEnds(t) ==
    /\ At(t, "done") /\ cb' = [cb EXCEPT ![t] = NoCallback]
    /\ TransitDecrement
    /\ IF t = "action" THEN ActionUnlock ELSE UNCHANGED action
    /\ UNCHANGED <<wirevars, vc, reply, callbackQueue, poolvars, trouble, workervars,
                   complete, picturevars, setupvars>>

----------------------------------------------------------------------------
Callback(t) ==
    \/ CallbackBegins(t) \/ Copy(t) \/ CallbackReleases(t) \/ CallbackGets(t)
    \/ CallbackPosts(t) \/ CallbackEnds(t)

Worker ==
    \/ WorkerCalls \/ WorkerReturns \/ WorkerPool \/ WorkerChooses
    \/ WorkerEnds \/ WorkerSends \/ WorkerAwaits \/ WorkerPort \/ WorkerLocks
    \/ WorkerDrained \/ Callback("worker")

Alive  == life \in {"runs", "ended"}
rest   == <<workervars, complete, cb, picturevars, setupvars>>
Action == Alive /\ (ActionWakes \/ Callback("action") \/ CallbackSends)
Vchiq  == Alive /\ (VchiqMessage \/ VchiqBulk) /\ UNCHANGED rest
Encoder == Alive /\ Encodes(stills) /\ UNCHANGED rest
Server  == Alive /\ (VCReceives \/ VCDisables) /\ UNCHANGED rest

\* signal_handler of mjpg_streamer
Stop == /\ life = "runs" /\ ~stop /\ stop' = TRUE
        /\ UNCHANGED <<mmalvars, stills, preview, todo, life, complete, cb, picturevars,
                       setupvars>>

Next == Worker \/ Action \/ Vchiq \/ Encoder \/ Server \/ Stop

Spec == Init /\ [][Next]_vars

\* Threads run on, VideoCore answers and an encoder that has buffers fills
\* them.
FairSpec == /\ Spec
            /\ WF_vars(Worker) /\ WF_vars(Action) /\ WF_vars(Vchiq)
            /\ WF_vars(Encoder) /\ WF_vars(Server)

----------------------------------------------------------------------------
TypeOK ==
    /\ MmalTypeOK
    /\ {stills, preview, stop, db} \subseteq BOOLEAN
    /\ life \in {"runs", "ended", "exited", "crashed"}
    /\ complete \in Nat /\ offset \in Nat /\ size \in Nat
    /\ cb \in [Threads -> [at : {"idle", "begin", "copy", "release", "resend",
                                "send", "post", "done"},
                          of : {cb[t].of : t \in Threads},
                          next : Headers \cup {"none"}]]
    /\ created \subseteq {"camera", "preview", "encoder"} /\ links \subseteq Tunnels
    /\ enabled \subseteq {"control", "output"} \cup UNION {{Out(x), In(x)} : x \in Tunnels}
    /\ payloads \in {0} \cup {Cardinality(H) : H \in Recommended}

\* No header is used twice: one that is in the pool's queue is neither with
\* VideoCore nor waiting for its callback, and the count of headers in transit,
\* which mmal_port_disable waits for, is that of the headers which are out.
Conserved ==
    LET out == OnTheWire \cup HeadersOf(callbackQueue) \cup Range(port.queue)
        callbacks == Cardinality({t \in Threads : ~At(t, "idle") /\ ~At(t, "begin")})
    IN  /\ Cardinality(Range(pool)) = Len(pool)
        /\ out \cap (Range(pool) \cup lost) = {}
        /\ port.transit = Cardinality(out) + callbacks

\* When the pool is destroyed and when the worker has returned, with
\* callback_data on its stack, VideoCore has no header and no callback runs
\* or is left, unless VideoCore refused to disable the port.
Quiet ==
    (trouble = 0 /\ (life = "ended" \/ Is("pool_destroy")))
        => /\ OnTheWire \cup HeadersOf(callbackQueue) = {}
           /\ \A t \in Threads : cb[t].at \in {"idle", "begin"}

\* What a reader finds in the picture buffer when db is free is one whole
\* picture, unless a transfer has failed.
PictureWhole ==
    (~db /\ trouble = 0 /\ size > 0)
        => \A i \in 1 .. size : buf[i] = <<buf[1][1], i, i = size>>

\* The worker ends after a stop, and then the components are gone, also when
\* calls or transfers failed; unless, in stills mode, it waits for a picture
\* and all the headers of the pool are lost that VideoCore could put one into.
StopEnds == stop ~> \/ life \in {"exited", "crashed"}
                    \/ /\ life = "ended"
                       /\ trouble = 0 => created \cup links \cup enabled = {}
                    \/ Is("await") /\ Cardinality(lost) = payloads
=============================================================================
