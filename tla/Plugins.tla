------------------------------- MODULE Plugins -------------------------------
(* The plugins that mjpg-streamer has besides those that ViaMyBox loads: an  *)
(* input that makes pictures and an output that delivers them, one of each.  *)
(*                                                                           *)
(* They share the picture buffer with the protocol of FrameBus; copies are   *)
(* made under db and are one step here.  What is new is where pictures come  *)
(* from and where they go: the http input takes them out of the stream of    *)
(* another mjpg_streamer (output_http, send_stream), the file input out of a *)
(* folder that inotify watches, the ptp2 input out of a photo camera under a *)
(* second mutex; the zmq output sends them in packages, the udp output when  *)
(* a message asks for one.                                                   *)
(*                                                                           *)
(* A picture is a sequence of tokens: its number and what follows it.  The   *)
(* other tokens are those that the http input tells apart in the stream.     *)
EXTENDS Naturals, Sequences

CONSTANTS Loaded,      \* pairs of an input and an output
          MaxPicture,  \* bound: the last picture comes again and again
          Rest,        \* what follows the number of each picture
          Room,        \* BUFFER_SIZE - 1 of the http input
          Files,       \* number of names in the folder
          ZmqSize,     \* zmqBufferSize: pictures in a package
          Restarts,    \* 3: how often the ptp2 input restarts its camera
          MaxCloses,   \* bound: connections that break
          MaxTrouble,  \* bound: calls that fail
          CrLf, Ok, Text, Dash, Word, None

Inputs  == {"testpicture", "opencv", "ptp2", "file", "existing", "http"}
Outputs == {"viewer", "udp", "zmq"}
Folders == {"file", "existing"}     \* input_file, and with -e

ASSUME LoadedOK == Loaded \subseteq Inputs \X Outputs
ASSUME TokensOK ==
    /\ CrLf \notin {Ok, Text, Dash, Word, None} /\ Ok \notin {Text, Dash, Word, None}
    /\ Text \notin {Dash, Word, None} /\ Dash \notin {Word, None} /\ Word # None
    /\ \A t \in {CrLf, Ok, Text, Dash, Word, None} : t \notin Nat /\ t # <<>>
ASSUME PicturesOK ==
    /\ MaxPicture \in Nat \ {0} /\ Len(Rest) = MaxPicture
    /\ Rest \in Seq(Seq({CrLf, Ok, Text, Dash, Word}))
ASSUME NumbersOK ==
    /\ {Room, Files, ZmqSize, Restarts, MaxCloses, MaxTrouble} \subseteq Nat
    /\ ZmqSize > 0 /\ Files > 0

Names == 1 .. Files     \* in alphabetical order

Picture(n) == <<n>> \o Rest[n]
Pictures   == {Picture(n) : n \in 1 .. MaxPicture}
Null  == <<>>           \* no buffer, or one of size 0
Freed == <<None>>       \* what is found where a buffer was
Half  == <<None, None>> \* a part of a picture, as much as has been written

\* The stream of send_stream: "HTTP/1.0 200 OK", the header with the name of
\* the boundary, a boundary; then pictures, each with its header before and a
\* boundary after it.
Boundary   == <<Dash, Dash, Word>>
Header     == <<Text, Ok, CrLf, Text, Word, CrLf, CrLf>> \o Boundary \o <<CrLf>>
HeaderText == <<Text, Word, CrLf>>
Part(n)    == <<Text, CrLf, CrLf>> \o Picture(n) \o <<CrLf>> \o Boundary \o <<CrLf>>

\* Pictures that go through the http input do not hold the boundary.
ASSUME UnbrokenOK ==
    \A p \in Loaded, n \in 1 .. MaxPicture : p[1] = "http" =>
        \A i \in 1 .. Len(Picture(n)) - 2 :
            ~ (/\ Picture(n)[i] = Dash /\ Picture(n)[i + 1] = Dash
               /\ Picture(n)[i + 2] = Word)

VARIABLES input, output,  \* the plugins that are loaded
          filter, remove, \* -n of the file input (a name, or None), and -r
          stop,           \* global.stop
          db,             \* holder of the mutex db: None, "in" or "out"
          control,        \* control_mutex of ptp2: None, "in" or "zoom"
          buf,            \* in[0].buf
          ipc,            \* the input's thread
          pic,            \* the picture it has got
          made,           \* number of the newest picture there is
          folder, events, \* files, and the events not yet read
          name,           \* the file input's buffer, or currentFileNumber
          net, closes,    \* tokens on the connection, or None without one
          state,          \* struct extractor_state of the http input
          zeros,          \* i of the ptp2 input
          zoom,           \* a zoom command on an http client's thread
          opc,            \* the output's thread
          frame,          \* its frame
          package,        \* pbPackage.frame[0 .. zmqBufferPos - 1]
          sent,           \* ghost: what was delivered last, a sequence
          trouble         \* ghost: calls that have failed

plugvars == <<input, output, filter, remove>>
invars   == <<ipc, pic, name, state, zeros>>
envvars  == <<made, folder, events, net, closes>>
outvars  == <<opc, frame, package, sent>>
vars == <<plugvars, stop, db, control, buf, invars, envvars, zoom, outvars,
          trouble>>

InitState == [part |-> "header", last |-> <<None, None>>, data |-> <<>>,
              matched |-> 0]

Init == /\ \E p \in Loaded : input = p[1] /\ output = p[2]
        /\ filter \in IF input = "file" THEN {None, 1} ELSE {None}
        /\ remove \in IF input \in Folders THEN BOOLEAN ELSE {FALSE}
        /\ stop = FALSE /\ db = None /\ control = None /\ buf = Null
        /\ ipc = "top" /\ pic = Null
        /\ made = IF input = "existing" THEN 1 ELSE 0
        /\ folder = [n \in Names |-> IF input = "existing" THEN Picture(1)
                                     ELSE Null]
        /\ events = <<>> /\ name = None
        /\ net = None /\ closes = 0 /\ state = InitState
        /\ zeros = 0 /\ zoom = "idle"
        /\ opc = "top" /\ frame = Null /\ package = <<>> /\ sent = <<>>
        /\ trouble = 0

\* Bound: a folder sees as many pictures as it has names, and then the last
\* one again and again.
MayCome == made < MaxPicture /\ (input \in Folders => made < Files)
Newer   == IF MayCome THEN made + 1 ELSE made
Fails == trouble < MaxTrouble /\ trouble' = trouble + 1

----------------------------------------------------------------------------
(* What the input plugins have in common.                                   *)

\* Without the lock: the buffer is freed, and the pointer kept.
Cleanup == /\ ipc' = "gone"
           /\ buf' = IF buf = Null THEN Null ELSE Freed

Leave == /\ Cleanup
         /\ UNCHANGED <<plugvars, stop, db, control, pic, name, state, zeros,
                        envvars, zoom, outvars>>

\* `return NULL' in the middle: db stays locked if it is.
Abandon == /\ ipc' = "gone"
           /\ UNCHANGED <<plugvars, stop, db, buf, pic, name, state, zeros,
                          envvars, zoom, outvars>>

InputTop ==
    /\ ipc = "top"
    /\ \/ stop /\ Leave /\ UNCHANGED trouble
       \/ /\ ~stop
          /\ input = "ptp2" => control = None
          /\ control' = IF input = "ptp2" THEN "in" ELSE control
          /\ ipc' = "get"
          /\ UNCHANGED <<plugvars, stop, db, buf, pic, name, state, zeros,
                         envvars, zoom, outvars, trouble>>

InputLock ==
    /\ ipc = "lock" /\ db = None
    /\ db' = "in" /\ ipc' = "copy"
    /\ UNCHANGED <<plugvars, stop, control, buf, pic, name, state, zeros,
                   envvars, zoom, outvars, trouble>>

\* cond_broadcast.
Woken == IF opc = "wait" THEN "woken" ELSE opc

\* No preview had any bytes for a number of times.
TooOften == pic = Null /\ zeros > Restarts + 1

\* Mutated form: nobody is told.
InputCopyMute ==
    /\ ipc = "copy" /\ ~TooOften
    /\ buf' = pic
    /\ control' = IF input = "ptp2" THEN None ELSE control
    /\ zeros' = IF pic = Null THEN zeros ELSE 0
    /\ ipc' = "unlock"
    /\ UNCHANGED <<plugvars, stop, db, pic, name, state, envvars, zoom,
                   outvars, trouble>>

\* The copy, the size, and the broadcast.  The ptp2 input gives up
\* control_mutex as soon as it has its copy.
InputCopy ==
    /\ ipc = "copy" /\ ~TooOften
    /\ buf' = pic
    /\ control' = IF input = "ptp2" THEN None ELSE control
    /\ zeros' = IF pic = Null THEN zeros ELSE 0
    /\ opc' = Woken
    /\ ipc' = "unlock"
    /\ UNCHANGED <<plugvars, stop, db, pic, name, state, envvars, zoom, frame,
                   package, sent, trouble>>

InputUnlock ==
    /\ ipc = "unlock"
    /\ db' = None /\ ipc' = "rest"
    /\ UNCHANGED <<plugvars, stop, control, buf, pic, name, state, zeros,
                   envvars, zoom, outvars, trouble>>

\* input_stop cancels the thread where it sleeps or waits: also in read, and
\* while the camera is restarted, which is done with db held.
Cancellable ==
    \/ ipc \in {"get", "rest", "open"}
    \/ ipc = "copy" /\ (input \in Folders \/ pic = Null)

InputCancelled == stop /\ Cancellable /\ Leave /\ UNCHANGED trouble

Got(p) == pic' = p /\ ipc' = "lock"

\* The process aborts, and all its threads are gone.
Aborts == /\ ipc' = "gone" /\ opc' = "gone"
          /\ UNCHANGED <<plugvars, stop, db, control, buf, pic, name, state,
                         zeros, envvars, zoom, frame, package, sent>>

----------------------------------------------------------------------------
(* input_testpicture, input_opencv and input_ptp2.                          *)

Take(i) ==
    /\ ipc = "get" /\ input = i
    /\ made' = Newer /\ Got(Picture(made'))
    /\ UNCHANGED <<plugvars, stop, db, control, buf, name, state, zeros,
                   folder, events, net, closes, zoom, outvars, trouble>>

\* The next picture of the animation.
TestGet == Take("testpicture")

\* capture.read and the filter; a read that fails ends the thread.
OpencvGet == Take("opencv")
OpencvFails == ipc = "get" /\ input = "opencv" /\ Fails /\ Leave

\* "TODO: what to do if imencode returns an error?"  Nothing, or what it has
\* encoded, is published; an exception that it throws ends the process.
OpencvEncodes ==
    /\ ipc = "get" /\ input = "opencv" /\ Fails
    /\ \/ Aborts
       \/ /\ Got(Null) \/ Got(Half)
          /\ UNCHANGED <<plugvars, stop, db, control, buf, name, state, zeros,
                         envvars, zoom, outvars>>

\* gp_camera_capture_preview.
Ptp2Get == Take("ptp2")

\* The preview has no bytes: the camera is restarted, and what it gave is
\* published all the same, unless it has happened too often.
Ptp2GetsNothing ==
    /\ ipc = "get" /\ input = "ptp2" /\ Fails
    /\ Got(Null) /\ zeros' = zeros + 1
    /\ UNCHANGED <<plugvars, stop, db, control, buf, name, state, envvars,
                   zoom, outvars>>

\* CAMERA_CHECK_GP, or a realloc that fails: before the copy with
\* control_mutex and maybe db, after it with db.
Ptp2Fails ==
    /\ input = "ptp2" /\ Fails
    /\ \/ ipc \in {"get", "copy"} /\ UNCHANGED control
       \/ ipc = "copy" /\ control' = None
    /\ Abandon

\* "Restarted too many times; giving up"
Ptp2GivesUp == /\ ipc = "copy" /\ TooOften
               /\ Abandon /\ UNCHANGED <<control, trouble>>

ZoomStarts == /\ input = "ptp2" /\ zoom = "idle" /\ zoom' = "lock"
              /\ UNCHANGED <<plugvars, stop, db, control, buf, invars, envvars,
                             outvars, trouble>>

\* input_cmd: camera_set under control_mutex.
Zooms == /\ \/ zoom = "lock" /\ control = None
               /\ control' = "zoom" /\ zoom' = "set"
            \/ zoom = "set" /\ control' = None /\ zoom' = "idle"
         /\ UNCHANGED <<plugvars, stop, db, buf, invars, envvars, outvars,
                        trouble>>

----------------------------------------------------------------------------
(* input_file.                                                              *)

\* IN_MOVED_TO and IN_CLOSE_WRITE, if the folder is watched.
Notified(n) == events' = IF input = "file" THEN Append(events, n) ELSE events

\* A newer picture is moved to a name in the folder.
Arrives ==
    /\ input \in Folders /\ Len(events) < 2
    /\ made' = Newer
    /\ \E n \in Names : /\ folder' = [folder EXCEPT ![n] = Picture(made')]
                        /\ Notified(n)
    /\ UNCHANGED <<plugvars, stop, db, control, buf, invars, net, closes, zoom,
                   outvars, trouble>>

\* Has the input opened the file that the name n stands for, or one that holds
\* the same?  It knows the size and has yet to read it.
Opened(n) == ipc \in {"lock", "copy"} /\ name = n /\ pic = folder[n]

\* A file is written in place, from its beginning: who reads it now reads a
\* part of it.
Overwrites ==
    /\ input \in Folders
    /\ \E n \in Names : /\ folder[n] # Half
                        /\ folder' = [folder EXCEPT ![n] = Half]
                        /\ pic' = IF Opened(n) THEN Half ELSE pic
    /\ UNCHANGED <<plugvars, stop, db, control, buf, ipc, name, state, zeros,
                   made, events, net, closes, zoom, outvars, trouble>>

\* It is whole and closed.  Whoever has it open reads it up to the size that
\* fstat found.
Written ==
    /\ input \in Folders /\ Len(events) < 2
    /\ made' = Newer
    /\ \E n \in Names :
          /\ folder[n] = Half /\ folder' = [folder EXCEPT ![n] = Picture(made')]
          /\ Notified(n)
          /\ pic' \in IF Opened(n) THEN {Half, Picture(made')} ELSE {pic}
    /\ UNCHANGED <<plugvars, stop, db, control, buf, ipc, name, state, zeros,
                   net, closes, zoom, outvars, trouble>>

\* read returns all events there are; only the first one is looked at.
FileEvent ==
    /\ ipc = "get" /\ input = "file" /\ events # <<>>
    /\ events' = <<>>
    /\ IF filter \notin {None, events[1]}
       THEN ipc' = "top" /\ UNCHANGED name
       ELSE ipc' = "open" /\ name' = events[1]
    /\ UNCHANGED <<plugvars, stop, db, control, buf, pic, state, zeros, made,
                   folder, net, closes, zoom, outvars, trouble>>

\* -e: one existing file after the other, as long as they are there.
ExistingNext ==
    /\ ipc = "get" /\ input = "existing"
    /\ name' = IF name = None THEN 1 ELSE (name % Files) + 1
    /\ ipc' = "open"
    /\ UNCHANGED <<plugvars, stop, db, control, buf, pic, state, zeros,
                   envvars, zoom, outvars, trouble>>

FileOpen ==
    /\ ipc = "open" /\ folder[name] # Null
    /\ Got(folder[name])
    /\ UNCHANGED <<plugvars, stop, db, control, buf, name, state, zeros,
                   envvars, zoom, outvars, trouble>>

\* The file is gone: removed, after a first event, before this one was read.
FileGone == /\ ipc = "open" /\ folder[name] = Null
            /\ Leave /\ UNCHANGED trouble

\* malloc fails: the thread leaves with the lock.
FileNoMemory ==
    /\ ipc = "copy" /\ input \in Folders /\ Fails
    /\ ipc' = "gone" /\ buf' = Null
    /\ UNCHANGED <<plugvars, stop, db, control, pic, name, state, zeros,
                   envvars, zoom, outvars>>

\* The read fails: no buffer is left, and the lock is given back.
FileReadFails ==
    /\ ipc = "copy" /\ input \in Folders /\ Fails
    /\ ipc' = "gone" /\ buf' = Null /\ db' = None
    /\ UNCHANGED <<plugvars, stop, control, pic, name, state, zeros,
                   envvars, zoom, outvars>>

\* After its loop the thread frees fileList, which only -e has set.
FileAborts ==
    /\ input = "file" /\ Aborts
    /\ \/ ipc = "top" /\ stop /\ UNCHANGED trouble
       \/ ipc = "open" /\ folder[name] = Null /\ UNCHANGED trouble
       \/ ipc = "copy" /\ Fails

\* usleep, and unlink with -r: of the name, whatever it holds by now.
Rests ==
    /\ ipc = "rest" /\ input # "http"
    /\ folder' = IF remove THEN [folder EXCEPT ![name] = Null] ELSE folder
    /\ ipc' = "top"
    /\ UNCHANGED <<plugvars, stop, db, control, buf, pic, name, state, zeros,
                   made, events, net, closes, zoom, outvars, trouble>>

----------------------------------------------------------------------------
(* input_http: mjpg-proxy.c, and the server it is connected to.             *)

\* Mutated form: a new connection goes on where the last one ended.
ConnectOn ==
    /\ ipc = "get" /\ input = "http" /\ net = None
    /\ net' = Header
    /\ UNCHANGED <<plugvars, stop, db, control, buf, invars, made, folder,
                   events, closes, zoom, outvars, trouble>>

\* The server accepts; the state of the extractor is new.
Connect ==
    /\ ipc = "get" /\ input = "http" /\ net = None
    /\ net' = Header /\ state' = InitState
    /\ UNCHANGED <<plugvars, stop, db, control, buf, ipc, pic, name, zeros,
                   made, folder, events, closes, zoom, outvars, trouble>>

\* send_stream of the other mjpg_streamer writes its next frame.
Serve ==
    /\ net = <<>>
    /\ made' = Newer /\ net' = Part(made')
    /\ UNCHANGED <<plugvars, stop, db, control, buf, invars, folder, events,
                   closes, zoom, outvars, trouble>>

\* The connection breaks, anywhere.
Closes ==
    /\ net # None /\ closes < MaxCloses
    /\ closes' = closes + 1 /\ net' = None
    /\ UNCHANGED <<plugvars, stop, db, control, buf, invars, made, folder,
                   events, zoom, outvars, trouble>>

\* is_crlf looks at some bits of each byte only: `OK' has them as well.
IsCrLf(t) == t \in {CrLf, Ok}

\* push_byte, and is_crlfcrlf, which ends a header.
InHeader(s, t) ==
    LET two == <<s.last[2], t>>
    IN  [s EXCEPT !.last = two,
                  !.part = IF IsCrLf(two[1]) /\ IsCrLf(two[2]) THEN "content"
                           ELSE "header"]

\* search_pattern_compare: after a mismatch the search starts again, with the
\* next character.
Compared(m, t) == IF t = Boundary[m + 1] THEN m + 1 ELSE 0

\* Mutated form: the size of the buffer is not looked at.
InContentAll(s, t) ==
    [s EXCEPT !.data = Append(@, t), !.matched = Compared(@, t)]

\* A buffer that is full takes nothing more, and is not searched.
InContent(s, t) ==
    IF Len(s.data) >= Room THEN s
    ELSE [s EXCEPT !.data = Append(@, t), !.matched = Compared(@, t)]

Extracted(s, t) == IF s.part = "header" THEN InHeader(s, t) ELSE InContent(s, t)
Matches(s) == s.matched = Len(Boundary)

\* The boundary and the line end before it are taken off.
Length(s) == Len(s.data) - (Len(Boundary) + 1)

\* One token of extract_data; when it completes the boundary the picture is
\* handed to on_image_received.
Extract ==
    /\ ipc = "get" /\ input = "http" /\ ~stop
    /\ net # None /\ net # <<>>
    /\ net' = Tail(net)
    /\ state' = Extracted(state, Head(net))
    /\ IF Matches(state') THEN Got(SubSeq(state'.data, 1, Length(state')))
       ELSE UNCHANGED <<ipc, pic>>
    /\ UNCHANGED <<plugvars, stop, db, control, buf, name, zeros, made, folder,
                   events, closes, zoom, outvars, trouble>>

\* on_image_received is over: "reset fsm".
Received ==
    /\ ipc = "rest" /\ input = "http"
    /\ state' = InitState
    /\ ipc' = "get"
    /\ UNCHANGED <<plugvars, stop, db, control, buf, pic, name, zeros, envvars,
                   zoom, outvars, trouble>>

----------------------------------------------------------------------------
(* The outputs.                                                             *)

OutputTop ==
    /\ opc = "top"
    /\ opc' = IF stop THEN "gone" ELSE IF output = "udp" THEN "ask" ELSE "lock"
    /\ UNCHANGED <<plugvars, stop, db, control, buf, invars, envvars, zoom,
                   frame, package, sent, trouble>>

\* The udp output: recvfrom.
Asked ==
    /\ opc = "ask" /\ opc' = "lock"
    /\ UNCHANGED <<plugvars, stop, db, control, buf, invars, envvars, zoom,
                   frame, package, sent, trouble>>

\* pthread_mutex_lock and pthread_cond_wait.
OutputWait ==
    /\ opc = "lock" /\ db = None /\ opc' = "wait"
    /\ UNCHANGED <<plugvars, stop, db, control, buf, invars, envvars, zoom,
                   frame, package, sent, trouble>>

OutputRelock ==
    /\ opc = "woken" /\ db = None
    /\ db' = "out" /\ opc' = "copy"
    /\ UNCHANGED <<plugvars, stop, control, buf, invars, envvars, zoom, frame,
                   package, sent, trouble>>

OutputCopy ==
    /\ opc = "copy"
    /\ frame' = buf
    /\ db' = None /\ opc' = "use"
    /\ UNCHANGED <<plugvars, stop, control, buf, invars, envvars, zoom,
                   package, sent, trouble>>

\* realloc fails; the viewer has a buffer of one size.
OutputNoMemory ==
    /\ opc = "copy" /\ output # "viewer" /\ Fails
    /\ db' = None /\ opc' = "gone"
    /\ UNCHANGED <<plugvars, stop, control, buf, invars, envvars, zoom, frame,
                   package, sent>>

Use(o) == /\ opc = "use" /\ output = o /\ opc' = "top"
          /\ UNCHANGED <<plugvars, stop, db, control, buf, invars, envvars,
                         zoom, frame>>

\* What decompress_jpeg takes for a picture is shown, the rest passed over.
View == /\ Use("viewer")
        /\ \/ frame \in Pictures \cup {Freed, Half} /\ sent' = <<frame>>
           \/ frame \notin Pictures /\ UNCHANGED sent
        /\ UNCHANGED <<package, trouble>>

\* To the file that the message names, if it names one.
Save == /\ Use("udp")
        /\ sent' = <<frame>> \/ UNCHANGED sent
        /\ UNCHANGED <<package, trouble>>

\* A write that is cut short is none that failed.
SaveShort == /\ Use("udp") /\ frame # Null /\ Fails
             /\ sent' = <<Half>> /\ UNCHANGED package

SaveFails ==
    /\ opc = "use" /\ output = "udp" /\ Fails /\ opc' = "gone"
    /\ UNCHANGED <<plugvars, stop, db, control, buf, invars, envvars, zoom,
                   frame, package, sent>>

\* A package that is full is sent.
Pack == /\ Use("zmq")
        /\ LET p == Append(package, frame)
           IN  IF Len(p) = ZmqSize THEN sent' = p /\ package' = <<>>
               ELSE package' = p /\ UNCHANGED sent
        /\ UNCHANGED trouble

\* output_stop: in pthread_cond_wait, which takes db again.
OutputCancelled ==
    /\ stop /\ opc' = "gone"
    /\ \/ opc \in {"ask", "use"} /\ UNCHANGED db
       \/ opc \in {"wait", "woken"} /\ db = None /\ db' = "out"
    /\ UNCHANGED <<plugvars, stop, control, buf, invars, envvars, zoom, frame,
                   package, sent, trouble>>

\* SIGINT.
Stop == /\ ~stop /\ stop' = TRUE
        /\ UNCHANGED <<plugvars, db, control, buf, invars, envvars, zoom,
                       outvars, trouble>>

----------------------------------------------------------------------------
InputWork ==
    \/ InputTop \/ InputLock \/ InputCopy \/ InputUnlock \/ Rests
    \/ TestGet \/ OpencvGet \/ Ptp2Get \/ Ptp2GivesUp
    \/ FileEvent \/ ExistingNext \/ FileOpen \/ FileGone
    \/ Connect \/ Extract \/ Received
OutputWork ==
    \/ OutputTop \/ OutputWait \/ OutputRelock \/ OutputCopy
    \/ View \/ Save \/ Pack

InputFails == \/ OpencvFails \/ OpencvEncodes \/ Ptp2GetsNothing \/ Ptp2Fails
              \/ FileNoMemory \/ FileReadFails \/ FileAborts
OutputFails == OutputNoMemory \/ SaveFails \/ SaveShort

Next == \/ InputWork \/ InputFails \/ InputCancelled
        \/ OutputWork \/ OutputFails \/ OutputCancelled \/ Asked
        \/ ZoomStarts \/ Zooms \/ Arrives \/ Overwrites \/ Written
        \/ Serve \/ Closes \/ Stop

Spec == Init /\ [][Next]_vars

\* Threads are scheduled and get a mutex that is free again and again, the
\* camera answers, and the other mjpg_streamer sends.  Files need not arrive,
\* nor messages that ask for a picture.
FairSpec == /\ Spec
            /\ SF_vars(InputWork) /\ SF_vars(OutputWork) /\ SF_vars(Zooms)
            /\ WF_vars(Serve)

----------------------------------------------------------------------------
(* Properties.                                                              *)

\* Every variable has its type; the http input does not write past its
\* buffer, and a package is sent when it is full.
TypeOK ==
    /\ <<input, output>> \in Loaded /\ stop \in BOOLEAN
    /\ db \in {None, "in", "out"} /\ control \in {None, "in", "zoom"}
    /\ \A p \in {buf, frame} \cup {folder[n] : n \in Names} :
           p \in Pictures \cup {Null, Freed, Half, HeaderText}
    /\ ipc \in {"top", "get", "open", "lock", "copy", "unlock", "rest", "gone"}
    /\ name \in Names \cup {None} /\ Len(state.data) <= Room
    /\ state.part \in {"header", "content"}
    /\ opc \in {"top", "ask", "lock", "wait", "woken", "copy", "use", "gone"}
    /\ Len(package) < ZmqSize /\ zeros <= Restarts + 2
    /\ zoom \in {"idle", "lock", "set"} /\ trouble \in 0 .. MaxTrouble

\* What may be delivered: a picture, whole, as its source gave it.  Besides,
\* the ptp2 input publishes a preview without bytes, and the http input,
\* before the first picture of a connection, the part of the header from
\* where it takes `OK' for a line end; the viewer shows neither.  Parts of
\* pictures come out of files that are written in place and of an encoder that
\* failed.  Whatever the input is, it leaves freed memory behind.
Deliverable(p) ==
    \/ p \in Pictures
    \/ input = "ptp2" /\ output # "viewer" /\ p = Null
    \/ input = "http" /\ output # "viewer" /\ p = HeaderText
    \/ input \in Folders /\ p = Half
    \/ /\ input = "opencv" /\ trouble > 0
       /\ p = Half \/ (output # "viewer" /\ p = Null)
    \/ ipc = "gone" /\ p \in {Null, Freed}

\* A part is what a write has delivered that was cut short.
CutShort == output = "udp" /\ trouble' > trouble /\ sent' = <<Half>>

NotOlder(p, q) == {p, q} \subseteq Pictures => p[1] <= q[1]

\* Only what is deliverable is delivered, and nothing older than before: not
\* after a connection that breaks in a picture, and not in a package.  (Files
\* are read in another order than they came in.)
Shown ==
    [][/\ \A i \in DOMAIN sent' : Deliverable(sent'[i]) \/ CutShort
       /\ input \notin Folders =>
              /\ \A i \in DOMAIN sent, j \in DOMAIN sent' :
                     NotOlder(sent[i], sent'[j])
              /\ \A i, j \in DOMAIN sent' :
                     i < j => NotOlder(sent'[i], sent'[j])]_sent

\* The input has nothing to publish: it has ended, no file that it looks at
\* has arrived, or what comes over the connection does not fit its buffer.
Dry == \/ stop \/ ipc = "gone"
       \/ /\ input = "file" /\ ipc = "get"
          /\ events = <<>> \/ filter \notin {None, events[1]}
       \/ input = "http" /\ Len(state.data) >= Room

\* An output that waits gets a picture, if there is one to be had; and a
\* zoom command gets the camera, unless the input has left with it, or waits
\* for an output that was cancelled and left with db.
Flows == /\ opc = "wait" ~> (opc # "wait" \/ Dry)
         /\ zoom = "lock" ~> (zoom # "lock" \/ (control = "in" /\ (ipc = "gone" \/ stop)))
=============================================================================
