------------------------------ MODULE FrameBus ------------------------------
(* The global picture buffer of mjpg_streamer: in[0] of struct _globals,    *)
(* its mutex db and its condition variable db_update.                       *)
(*                                                                          *)
(* The camera thread of input_uvc fills the buffer.  The worker thread of   *)
(* output_file and the client threads of output_http (send_stream,          *)
(* send_snapshot) wait for db_update, copy the buffer while they hold db,   *)
(* and use their copy without the lock.  The main thread sits in pause();   *)
(* SIGINT runs signal_handler on it.                                        *)
(*                                                                          *)
(* A frame is its number.  A memcpy is two steps, so that a buffer and a    *)
(* copy have a low and a high half and can be torn.                         *)
EXTENDS Naturals, FiniteSets

CONSTANTS Workers,           \* worker threads of output plugins
          Clients,           \* slots for threads that serve one http client
          FirstOuts,         \* what may be output plugin 0: workers, Http
          MaxFrame,          \* bound: frames the camera delivers
          CamFails,          \* may the camera time out or fail?
          MayInterrupt,      \* may SIGINT arrive?
          SpuriousWakeups,   \* may pthread_cond_wait return on its own?
          Cam, Http, None

Readers == Workers \cup Clients
Threads == Readers \cup {Cam}

ASSUME ThreadsDistinct == /\ Cam \notin Readers
                          /\ None \notin Threads
                          /\ Workers \cap Clients = {}
                          /\ Http \notin Threads
ASSUME FirstOutKnown   == FirstOuts \subseteq Workers \cup {Http}
ASSUME MaxFrameIsNat   == MaxFrame \in Nat
ASSUME SwitchesAreBool == /\ CamFails \in BOOLEAN
                          /\ MayInterrupt \in BOOLEAN
                          /\ SpuriousWakeups \in BOOLEAN

VARIABLES owner,    \* holder of the mutex db
          mem,      \* in[0].buf: "live", "freed" (dangling) or "null"
          lo, hi,   \* frame in each half of the picture buffer
          size,     \* in[0].size, as the frame it is the size of; 0 is 0
          stamp,    \* in[0].timestamp, as the frame it is the time of
          frame,    \* last frame in the camera's tmpbuffer
          pc,       \* where each thread is
          mode,     \* "stream" loops; "snapshot" serves one frame
          got,      \* a reader's copy: size, timestamp and both halves
          since,    \* ghost: frame in the buffer when the reader waited
          stop,     \* global.stop
          proc,     \* the main thread: pause(), or a step of the handler
          cancel,   \* threads with a pending pthread_cancel
          server    \* "up" while the http server thread accepts clients

bufvars  == <<mem, lo, hi, size, stamp>>
mainvars == <<stop, proc, cancel>>
vars == <<owner, bufvars, frame, pc, mode, got, since, mainvars, server>>

NoCopy == [size |-> 0, stamp |-> 0, lo |-> 0, hi |-> 0]

CamPC    == {"top", "select", "lock", "copyLo", "copyHi", "stamp", "unlock",
             "free", "null", "done"}
ReaderPC == {"idle", "top", "lock", "wait", "relock", "copyLo", "copyHi",
             "deliver", "reap", "dead", "gone"}
Proc     == {"pause", "grace", "outputs", "destroy", "blocked", "unload",
             "exited", "crashed"}

\* Threads run until the handler destroys the mutex and the condition
\* variable: what locking a destroyed mutex does is undefined, and from there
\* the process only ends.
Running == proc \in {"pause", "grace", "outputs", "destroy", "blocked"}

\* input_run allocates the buffer and starts the camera; output_run starts
\* the workers and the http server.
Init == /\ owner = None
        /\ mem = "live" /\ lo = 0 /\ hi = 0 /\ size = 0 /\ stamp = 0
        /\ frame = 0
        /\ pc = [t \in Threads |-> IF t \in Clients THEN "idle" ELSE "top"]
        /\ mode = [r \in Readers |-> "stream"]
        /\ got = [r \in Readers |-> NoCopy]
        /\ since = [r \in Readers |-> 0]
        /\ stop = FALSE /\ proc = "pause" /\ cancel = {}
        /\ server = IF Clients = {} THEN "down" ELSE "up"

Goto(t, l) == pc' = [pc EXCEPT ![t] = l]

----------------------------------------------------------------------------
(* The camera: cam_thread of input_uvc.                                     *)

CamTop ==
    /\ pc[Cam] = "top"
    /\ Goto(Cam, IF stop THEN "free" ELSE "select")
    /\ UNCHANGED <<owner, bufvars, frame, mode, got, since, mainvars, server>>

\* uvcGrab has a frame.  every, minimum_size and soft_framedrop may drop it.
CamGrab ==
    /\ pc[Cam] = "select" /\ Cam \notin cancel /\ frame < MaxFrame
    /\ frame' = frame + 1
    /\ \E l \in {"lock", "top"} : Goto(Cam, l)
    /\ UNCHANGED <<owner, bufvars, mode, got, since, mainvars, server>>

\* select or uvcGrab fails, or select times out: goto endloop.  A pending
\* cancellation acts in select and runs the same cleanup handler.
CamLeave ==
    /\ pc[Cam] = "select"
    /\ CamFails \/ Cam \in cancel
    /\ Goto(Cam, "free")
    /\ UNCHANGED <<owner, bufvars, frame, mode, got, since, mainvars, server>>

\* Mutated form: the frame is copied whether the mutex was free or not.
CamLockTry ==
    /\ pc[Cam] = "lock"
    /\ owner' = IF owner = None THEN Cam ELSE owner
    /\ Goto(Cam, "copyLo")
    /\ UNCHANGED <<bufvars, frame, mode, got, since, mainvars, server>>

CamLock ==
    /\ pc[Cam] = "lock" /\ owner = None
    /\ owner' = Cam
    /\ Goto(Cam, "copyLo")
    /\ UNCHANGED <<bufvars, frame, mode, got, since, mainvars, server>>

CamCopyLo ==
    /\ pc[Cam] = "copyLo"
    /\ lo' = frame
    /\ Goto(Cam, "copyHi")
    /\ UNCHANGED <<owner, mem, hi, size, stamp, frame, mode, got, since,
                   mainvars, server>>

\* size is what memcpy_picture returns, assigned when the copy is complete.
CamCopyHi ==
    /\ pc[Cam] = "copyHi"
    /\ hi' = frame /\ size' = frame
    /\ Goto(Cam, "stamp")
    /\ UNCHANGED <<owner, mem, lo, stamp, frame, mode, got, since, mainvars,
                   server>>

\* Mutated form: pthread_cond_signal wakes one of the waiting threads.
CamStampSignal ==
    /\ pc[Cam] = "stamp"
    /\ stamp' = frame
    /\ LET waiting == {t \in Readers : pc[t] = "wait"}
       IN  \E t \in waiting \cup (IF waiting = {} THEN {Cam} ELSE {}) :
               pc' = [[pc EXCEPT ![t] = "relock"] EXCEPT ![Cam] = "unlock"]
    /\ UNCHANGED <<owner, mem, lo, hi, size, frame, mode, got, since,
                   mainvars, server>>

\* Set the timestamp, then pthread_cond_broadcast: every thread in
\* pthread_cond_wait goes on to take the mutex again.
CamStamp ==
    /\ pc[Cam] = "stamp"
    /\ stamp' = frame
    /\ pc' = [t \in Threads |-> IF t = Cam THEN "unlock"
                                ELSE IF pc[t] = "wait" THEN "relock"
                                ELSE pc[t]]
    /\ UNCHANGED <<owner, mem, lo, hi, size, frame, mode, got, since,
                   mainvars, server>>

CamUnlock ==
    /\ pc[Cam] = "unlock"
    /\ owner' = None
    /\ Goto(Cam, "top")
    /\ UNCHANGED <<bufvars, frame, mode, got, since, mainvars, server>>

\* cam_cleanup frees the picture buffer without taking db ...
CamFree ==
    /\ pc[Cam] = "free"
    /\ mem' = "freed"
    /\ Goto(Cam, "null")
    /\ UNCHANGED <<owner, lo, hi, size, stamp, frame, mode, got, since,
                   mainvars, server>>

\* ... and clears buf and size; it does not broadcast.
CamNull ==
    /\ pc[Cam] = "null"
    /\ mem' = "null" /\ size' = 0
    /\ Goto(Cam, "done")
    /\ UNCHANGED <<owner, lo, hi, stamp, frame, mode, got, since, mainvars,
                   server>>

CamNext == \/ CamTop \/ CamGrab \/ CamLeave \/ CamLock \/ CamCopyLo
           \/ CamCopyHi \/ CamStamp \/ CamUnlock \/ CamFree \/ CamNull

----------------------------------------------------------------------------
(* A reader: worker_thread of output_file, or a client thread of            *)
(* output_http in send_stream or send_snapshot.                             *)

\* Mutated form: the worker is marked as if it were the camera.
LeaveDone(r) == Goto(r, IF r \in Workers THEN "done" ELSE "idle")

\* A thread that returns: a worker is gone, a client's slot is free again.
Leave(r) == Goto(r, IF r \in Workers THEN "gone" ELSE "idle")

\* server_thread accepts a connection and starts a thread for it.  It tests
\* stop only between two connections.
Connect(r) ==
    /\ pc[r] = "idle" /\ server = "up"
    /\ \E m \in {"stream", "snapshot"} : mode' = [mode EXCEPT ![r] = m]
    /\ got' = [got EXCEPT ![r] = NoCopy]
    /\ since' = [since EXCEPT ![r] = 0]
    /\ server' = IF stop THEN "down" ELSE "up"
    /\ Goto(r, "top")
    /\ UNCHANGED <<owner, bufvars, frame, mainvars>>

\* The loops test stop; send_snapshot does not.
ReaderTop(r) ==
    /\ pc[r] = "top"
    /\ IF stop /\ mode[r] = "stream" THEN Leave(r) ELSE Goto(r, "lock")
    /\ UNCHANGED <<owner, bufvars, frame, mode, got, since, mainvars, server>>

\* Mutated form: the reader takes the mutex and does not wait for db_update.
ReaderWaitNot(r) ==
    /\ pc[r] = "lock" /\ owner = None
    /\ since' = [since EXCEPT ![r] = stamp]
    /\ Goto(r, "relock")
    /\ UNCHANGED <<owner, bufvars, frame, mode, got, mainvars, server>>

\* pthread_mutex_lock, then pthread_cond_wait, which releases the mutex and
\* waits in one step.
ReaderWait(r) ==
    /\ pc[r] = "lock" /\ owner = None
    /\ since' = [since EXCEPT ![r] = stamp]
    /\ Goto(r, "wait")
    /\ UNCHANGED <<owner, bufvars, frame, mode, got, mainvars, server>>

SpuriousWakeup(r) ==
    /\ SpuriousWakeups /\ pc[r] = "wait"
    /\ Goto(r, "relock")
    /\ UNCHANGED <<owner, bufvars, frame, mode, got, since, mainvars, server>>

\* Mutated form: the buffer is read without the mutex.
ReaderRelockNot(r) ==
    /\ pc[r] = "relock"
    /\ owner' = owner
    /\ got' = [got EXCEPT ![r].size = size, ![r].stamp = stamp]
    /\ Goto(r, "copyLo")
    /\ UNCHANGED <<bufvars, frame, mode, since, mainvars, server>>

\* pthread_cond_wait returns with the mutex held; the reader notes the size
\* and the timestamp.
ReaderRelock(r) ==
    /\ pc[r] = "relock" /\ owner = None
    /\ owner' = r
    /\ got' = [got EXCEPT ![r].size = size, ![r].stamp = stamp]
    /\ Goto(r, "copyLo")
    /\ UNCHANGED <<bufvars, frame, mode, since, mainvars, server>>

\* Mutated form: the error path returns with the mutex held.
ReaderNoMemoryLocked(r) ==
    /\ pc[r] = "copyLo"
    /\ owner' = owner
    /\ Leave(r)
    /\ UNCHANGED <<bufvars, frame, mode, got, since, mainvars, server>>

\* malloc or realloc fails: unlock and return.
ReaderNoMemory(r) ==
    /\ pc[r] = "copyLo"
    /\ owner' = None
    /\ Leave(r)
    /\ UNCHANGED <<bufvars, frame, mode, got, since, mainvars, server>>

\* What memcpy finds in a half of the buffer holding frame f: nothing when
\* the size is 0; the half of a live buffer; in a freed one the stale frame
\* or what the heap put there.
Found(r, f) == IF got[r].size = 0 THEN {0}
               ELSE IF mem = "live" THEN {f}
               ELSE IF mem = "freed" THEN {0, f}
               ELSE {}

ReaderCopyLo(r) ==
    /\ pc[r] = "copyLo"
    /\ \E f \in Found(r, lo) : got' = [got EXCEPT ![r].lo = f]
    /\ Goto(r, "copyHi")
    /\ UNCHANGED <<owner, bufvars, frame, mode, since, mainvars, server>>

\* The copy is complete: unlock.
ReaderCopyHi(r) ==
    /\ pc[r] = "copyHi"
    /\ \E f \in Found(r, hi) : got' = [got EXCEPT ![r].hi = f]
    /\ owner' = None
    /\ Goto(r, "deliver")
    /\ UNCHANGED <<bufvars, frame, mode, since, mainvars, server>>

\* memcpy from a freed or null buffer may be a segmentation fault.
ReaderFault(r) ==
    /\ pc[r] \in {"copyLo", "copyHi"} /\ got[r].size > 0 /\ mem # "live"
    /\ proc' = "crashed"
    /\ UNCHANGED <<owner, bufvars, frame, pc, mode, got, since, stop, cancel,
                   server>>

\* Write the frame to the socket or the file.  A failed write ends the
\* reader, and so does a pending cancellation.
ReaderDeliver(r) ==
    /\ pc[r] = "deliver"
    /\ \/ r \notin cancel /\ mode[r] = "stream" /\ Goto(r, "top")
       \/ Leave(r)
    /\ UNCHANGED <<owner, bufvars, frame, mode, got, since, mainvars, server>>

\* A cancelled thread leaves pthread_cond_wait through its cancellation
\* handler, which takes the mutex again.  worker_cleanup does not unlock it.
ReaderCancelled(r) ==
    /\ pc[r] = "wait" /\ r \in cancel
    /\ Goto(r, "reap")
    /\ UNCHANGED <<owner, bufvars, frame, mode, got, since, mainvars, server>>

ReaderReap(r) ==
    /\ pc[r] = "reap" /\ owner = None
    /\ owner' = r
    /\ Goto(r, "dead")
    /\ UNCHANGED <<bufvars, frame, mode, got, since, mainvars, server>>

\* What a reader does between waiting and the end of its critical section.
ReaderLocked(r) == \/ ReaderTop(r) \/ ReaderWait(r) \/ ReaderRelock(r)
                   \/ ReaderCopyLo(r) \/ ReaderCopyHi(r) \/ ReaderFault(r)
                   \/ ReaderCancelled(r) \/ ReaderReap(r)

ReaderNext(r) == \/ Connect(r) \/ SpuriousWakeup(r) \/ ReaderNoMemory(r)
                 \/ ReaderDeliver(r) \/ ReaderLocked(r)

----------------------------------------------------------------------------
(* The main thread: signal_handler of mjpg_streamer.c.                      *)

Waiters == {r \in Readers : pc[r] = "wait"}
Alive   == {r \in Readers : pc[r] \notin {"idle", "gone", "dead"}}

Sigint ==
    /\ MayInterrupt /\ proc = "pause"
    /\ stop' = TRUE /\ proc' = "grace"
    /\ UNCHANGED <<owner, bufvars, frame, pc, mode, got, since, cancel, server>>

\* After one second: input_stop cancels the camera thread.
StopInput ==
    /\ proc = "grace"
    /\ cancel' = cancel \cup {Cam} /\ proc' = "outputs"
    /\ UNCHANGED <<owner, bufvars, frame, pc, mode, got, since, stop, server>>

\* Mutated form: output_stop does not cancel the worker.
StopFirstOutputNot ==
    /\ proc = "outputs"
    /\ server' = server /\ cancel' = cancel
    /\ proc' = "destroy"
    /\ UNCHANGED <<owner, bufvars, frame, pc, mode, got, since, stop>>

\* output_stop of output 0, which is chosen here, as nothing depends on it
\* before.  No output_stop reaches a client thread.
StopFirstOutput ==
    /\ proc = "outputs"
    /\ \/ Http \in FirstOuts /\ server' = "down" /\ cancel' = cancel
       \/ \E w \in FirstOuts \ {Http} :
              cancel' = cancel \cup {w} /\ server' = server
    /\ proc' = "destroy"
    /\ UNCHANGED <<owner, bufvars, frame, pc, mode, got, since, stop>>

\* pthread_cond_destroy(&in[0].db_update), still in the round of output 0.
\* With a thread waiting it is undefined: it waits for the waiter to leave
\* (glibc 2.25 and later) or returns EBUSY (earlier).
Destroy ==
    /\ proc = "destroy"
    /\ \/ proc' = "unload"
       \/ Waiters # {} /\ proc' = "blocked"
    /\ UNCHANGED <<owner, bufvars, frame, pc, mode, got, since, stop, cancel,
                   server>>

Unblock ==
    /\ proc = "blocked" /\ Waiters = {}
    /\ proc' = "unload"
    /\ UNCHANGED <<owner, bufvars, frame, pc, mode, got, since, stop, cancel,
                   server>>

\* The other outputs, then dlclose of every plugin, then exit(0).  A thread
\* that still runs in an unmapped plugin may fault first.
Unload ==
    /\ proc = "unload"
    /\ \/ proc' = "exited"
       \/ Alive # {} /\ proc' = "crashed"
    /\ UNCHANGED <<owner, bufvars, frame, pc, mode, got, since, stop, cancel,
                   server>>

HandlerNext == \/ Sigint \/ StopInput \/ StopFirstOutput \/ Destroy
               \/ Unblock \/ Unload

----------------------------------------------------------------------------
Next == \/ Running /\ CamNext
        \/ \E r \in Readers : Running /\ ReaderNext(r)
        \/ HandlerNext

Spec == Init /\ [][Next]_vars

\* Threads are scheduled, and a mutex that stays free is taken.  Nothing is
\* assumed of deliveries: a client may stop reading its socket for ever.
Fairness == /\ WF_vars(Running /\ CamNext)
            /\ \A r \in Readers : WF_vars(Running /\ ReaderLocked(r))
\* The signal handler only sleeps for fixed times.
FairSpec == /\ Spec /\ Fairness
            /\ WF_vars(StopInput \/ StopFirstOutput \/ Destroy \/ Unblock
                       \/ Unload)

----------------------------------------------------------------------------
(* Properties.                                                              *)

\* Every variable has its type.
TypeOK ==
    /\ owner \in Threads \cup {None}
    /\ mem \in {"live", "freed", "null"}
    /\ lo \in Nat /\ hi \in Nat /\ size \in Nat /\ stamp \in Nat
    /\ frame \in 0 .. MaxFrame
    /\ pc \in [Threads -> CamPC \cup ReaderPC]
    /\ pc[Cam] \in CamPC
    /\ \A r \in Readers : pc[r] \in ReaderPC
    /\ mode \in [Readers -> {"stream", "snapshot"}]
    /\ got \in [Readers -> [size : Nat, stamp : Nat, lo : Nat, hi : Nat]]
    /\ since \in [Readers -> Nat]
    /\ stop \in BOOLEAN /\ proc \in Proc
    /\ cancel \in SUBSET Threads /\ server \in {"up", "down"}

\* The steps of a thread between taking db and releasing it.
CamHolds       == pc[Cam] \in {"copyLo", "copyHi", "stamp", "unlock"}
ReaderHolds(r) == pc[r] \in {"copyLo", "copyHi", "dead"}

\* A frame that a reader is about to write out is one frame and carries its
\* own size and timestamp, as long as the camera has not given its buffer
\* up: what send_stream puts in Content-Length and X-Timestamp belongs to
\* the picture that follows, and the picture is not half of another one.
FramesWhole ==
    \A r \in Readers :
        pc[r] = "deliver" /\ mem = "live" =>
            got[r].lo = got[r].hi /\ got[r].hi = got[r].size
            /\ got[r].size = got[r].stamp

\* "wait for a fresh frame": what a reader writes out was published after it
\* began to wait, so no reader writes the same frame twice.
Fresh ==
    \A r \in Readers : pc[r] = "deliver" => got[r].stamp > since[r]

\* "this mutex and the conditional variable are used to synchronize access to
\* the global picture buffer": no reader copies picture data from memory
\* that the camera has freed.
NoUseAfterFree ==
    \A r \in Readers :
        pc[r] \in {"copyLo", "copyHi"} /\ got[r].size > 0 => mem = "live"

\* The mutex is lost with a thread that died holding it only in a shutdown,
\* and then the camera is not kept from its last frame: it is never left
\* waiting for a mutex whose holder is gone unless it has been cancelled too.
LockLostOnlyAtEnd ==
    owner # None /\ pc[owner] \in {"dead", "gone", "done", "idle"} =>
        stop /\ Cam \in cancel

\* A consumer that does not read its data never stalls the camera: a frame
\* waiting for the mutex gets it, whatever the deliveries do.
CameraNotStalled ==
    pc[Cam] = "lock" ~> (pc[Cam] # "lock" \/ stop \/ ~Running)

\* Every reader that waits when the camera comes with a frame to publish is
\* served: it gets a frame to deliver, or has left for want of memory.
WaitersServed ==
    \A r \in Readers :
        (pc[r] = "wait" /\ pc[Cam] = "lock") ~>
            (pc[r] \in {"deliver", "idle", "gone"} \/ stop \/ ~Running)

\* The camera and its readers get their turn, whatever the others do.
NobodyStarves == CameraNotStalled /\ WaitersServed

\* After SIGINT the process ends.
Ended == proc \in {"exited", "crashed"}
ShutdownCompletes == stop ~> Ended

\* What keeps the process from ending is a thread that waits for a frame when
\* the condition variable is destroyed and that nothing has cancelled: an
\* http client, which no output_stop reaches, or the worker of an output after
\* the first, whose turn would have come next.  Never the first output, which
\* has been stopped by then whatever step it was at, and never a delivery that
\* does not end.
FirstStopped == server = "down" \/ cancel \cap Workers # {}
LeftWaiting  == {r \in Waiters \ cancel : r \in Clients \/ FirstStopped}
EndsUnlessLeftWaiting ==
    stop ~> (Ended \/ (proc = "blocked" /\ LeftWaiting # {}))

----------------------------------------------------------------------------
(* The inductive invariant behind FramesWhole, Fresh and IsRegister.        *)

\* db is held by exactly the thread that is between taking and releasing it.
LockInv == /\ owner = Cam <=> CamHolds
           /\ \A r \in Readers : owner = r <=> ReaderHolds(r)

\* Outside the camera's critical section both halves, the size and the
\* timestamp are of one frame; in it they change in the order of the code.
BufInv ==
    /\ stamp <= frame
    /\ pc[Cam] \in {"lock", "copyLo", "copyHi", "stamp"} => stamp < frame
    /\ mem = "live" <=> pc[Cam] \notin {"null", "done"}
    /\ pc[Cam] \notin {"copyHi", "stamp"} =>
           lo = stamp /\ hi = stamp /\ (mem = "live" => size = stamp)
    /\ pc[Cam] = "copyHi" => lo = frame /\ hi = stamp /\ size = stamp
    /\ pc[Cam] = "stamp"  => lo = frame /\ hi = frame /\ size = frame

\* A copy is of the frame in the buffer while it is made, whole when done.
CopyInv ==
    \A r \in Readers :
        /\ pc[r] \in {"copyLo", "copyHi"} /\ mem = "live" =>
               got[r].size = stamp /\ got[r].stamp = stamp
        /\ pc[r] = "copyHi" /\ mem = "live" => got[r].lo = stamp
        /\ pc[r] = "deliver" /\ mem = "live" =>
               got[r].lo = got[r].hi /\ got[r].hi = got[r].size
               /\ got[r].size = got[r].stamp

\* A reader that was woken by a broadcast finds a later frame than the one
\* it began to wait on, which is not older than the one it had copied.
FreshInv ==
    \A r \in Readers :
        /\ got[r].hi <= stamp /\ since[r] <= stamp
        /\ pc[r] \in {"wait", "relock", "copyLo", "copyHi"} =>
               got[r].hi <= since[r]
        /\ pc[r] \in {"relock", "copyLo", "copyHi"} => since[r] < stamp
        /\ pc[r] \in {"copyLo", "copyHi"} => got[r].stamp = stamp
        /\ pc[r] = "deliver" => since[r] < got[r].stamp

\* The handler sets stop before it cancels, and cancels the camera first.
ShutInv ==
    /\ proc \in {"grace", "outputs", "destroy", "blocked", "unload"} => stop
    /\ proc \in {"outputs", "destroy", "blocked", "unload"} => Cam \in cancel
    /\ cancel # {} => stop /\ Cam \in cancel
    /\ \A r \in Readers : pc[r] \in {"reap", "dead"} => r \in cancel

IInv == TypeOK /\ LockInv /\ BufInv /\ CopyInv /\ ShutInv

\* The picture buffer is a FrameRegister: the frame published is the one with
\* the newest timestamp, and what a reader holds is the last half it copied.
Register == INSTANCE FrameRegister WITH
                latest <- stamp,
                held   <- [r \in Readers |-> got[r].hi],
                open   <- mem = "live"
IsRegister == Register!RegSpec
=============================================================================
