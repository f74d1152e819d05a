----------------------------- MODULE OutputFile -----------------------------
(* The output_file plugin of mjpg_streamer: a worker thread that saves each *)
(* frame it gets as a picture in a folder it keeps as a ring buffer, and    *)
(* the TAKE command, which http client threads run to save one frame.       *)
(*                                                                          *)
(* The frames come from a FrameRegister: FrameBus shows that the picture    *)
(* buffer is one, so a copy made under the mutex db is one step here.  The  *)
(* plugin's own buffer `frame' and its size max_frame_size are static and   *)
(* shared by all these threads; it is written to the file without a lock,   *)
(* in two halves.                                                           *)
(*                                                                          *)
(* A picture is named after the local time and a counter.  The clock may be *)
(* set, or go back at the end of summer time; a process that dies may be    *)
(* started again within the same second.  A name and the fixed name are     *)
(* hard links: a file is its inode, and what is written to it is seen under *)
(* both.                                                                    *)
EXTENDS Naturals, FiniteSets

CONSTANTS Takers,        \* threads that run the TAKE command
          RingSize,      \* ringbuffer_size, when -s is given
          Exceed,        \* ringbuffer_exceed
          Size,          \* Size[f]: bytes of frame f, in some unit
          Slack,         \* what realloc adds (1 << 16)
          MaxFrame,      \* bound: frames the camera publishes
          MaxTrouble,    \* bound: the same, in a time of trouble
          MaxClock,      \* bound: times of the clock
          ClockBack,     \* may the clock go back?
          MemFails,      \* may realloc fail?
          Worker

ASSUME RingIsNat   == RingSize \in Nat /\ Exceed \in Nat
ASSUME BoundsNat   == /\ MaxFrame \in Nat /\ MaxTrouble \in 0 .. MaxFrame
                      /\ MaxClock \in Nat /\ Slack \in Nat
ASSUME SizeOK      == Size \in [0 .. MaxFrame -> Nat] /\ Size[0] = 0
ASSUME NotATaker   == Worker \notin Takers
ASSUME FailsBool   == MemFails \in BOOLEAN /\ ClockBack \in BOOLEAN

VARIABLES trouble,  \* do TAKE commands come, may open, write, link, scandir
                    \* or unlink fail, or write only a part?
          latest, held, open,  \* the register the frames come from
          base,     \* latest when the process started
          clock,    \* time(NULL), in seconds
          buf,      \* frame: bytes allocated, max_frame_size, where, content
          pc,       \* the worker and the takers
          ptr,      \* the address that write() was called with
          counter,  \* pictures saved since the worker started
          name,     \* time and counter in the worker's file name
          files,    \* the pictures in the folder: the inode of each name
          disk,     \* what is in each inode
          link,     \* the inode that linkFileName names, or 0
          victims,  \* maintain_ringbuffer: names still to be removed
          spared,   \* ghost: names that a failing call of the last
                    \* maintenance left in the folder
          timely,   \* ghost: has the clock named the pictures in their order?
          shot      \* the file each taker wrote

Register == INSTANCE FrameRegister WITH Readers <- {Worker}
regvars == <<latest, held, open>>
folder  == <<files, disk, link, victims, spared>>
naming  == <<counter, name, timely>>
vars == <<trouble, regvars, base, clock, buf, pc, ptr, naming, folder, shot>>

\* A file: the frame it is to hold and what each half of it holds.  Junk is
\* what is read from memory that realloc has given back.  An inode has the
\* number of the frame that it was created for.
Junk   == MaxFrame + 1
NoFile == [no |-> 0, lo |-> 0, hi |-> 0]
Empty(f) == [no |-> f, lo |-> 0, hi |-> 0]
Whole(file) == file.lo = file.no /\ file.hi = file.no

Init == /\ trouble \in BOOLEAN /\ Register!RegInit
        /\ base = 0 /\ clock = 0
        /\ buf = [alloc |-> 0, room |-> 0, at |-> 0, lo |-> 0, hi |-> 0]
        /\ pc = [t \in Takers \cup {Worker} |-> IF t = Worker THEN "wait"
                                                ELSE "off"]
        /\ ptr = [t \in Takers \cup {Worker} |-> 0]
        /\ counter = 0 /\ name = <<0, 0>>
        /\ files = [n \in {} |-> 0]
        /\ disk = [i \in 0 .. MaxFrame |-> NoFile]
        /\ link = 0 /\ victims = {} /\ spared = {} /\ timely = TRUE
        /\ shot = [t \in Takers |-> NoFile]

Goto(t, l) == pc' = [pc EXCEPT ![t] = l]

\* The camera publishes; time passes.
CamPublish ==
    /\ latest < IF trouble THEN MaxTrouble ELSE MaxFrame
    /\ latest' = latest + 1
    /\ Register!Publish
    /\ UNCHANGED <<base, clock, buf, pc, ptr, naming, folder, shot>>

\* Time passes, or the clock is set.
Tick ==
    /\ \E now \in 0 .. MaxClock :
           /\ now > clock \/ ClockBack
           /\ clock' = now
    /\ UNCHANGED <<regvars, base, buf, pc, ptr, naming, folder, shot>>

----------------------------------------------------------------------------
(* The static buffer.                                                       *)

TooSmall(f) == Size[f] > buf.room

\* realloc where needed (it may move the buffer), then memcpy.
Fill(f) ==
    IF TooSmall(f)
      THEN \E moved \in {0, 1} :
             buf' = [alloc |-> Size[f] + Slack, room |-> Size[f] + Slack,
                     at |-> buf.at + moved, lo |-> f, hi |-> f]
      ELSE buf' = [buf EXCEPT !.lo = f, !.hi = f]

\* realloc fails: max_frame_size has its new value, the buffer its old size.
Refuse(f) ==
    /\ MemFails /\ TooSmall(f)
    /\ buf' = [buf EXCEPT !.room = Size[f] + Slack]

\* What write() reads from the address it was given.
ReadLo(t) == IF ptr[t] = buf.at THEN buf.lo ELSE Junk
ReadHi(t) == IF ptr[t] = buf.at THEN buf.hi ELSE Junk

----------------------------------------------------------------------------
(* worker_thread.                                                           *)

\* Is the next picture named after all that there are?  The first one of a
\* process starts the counter over.
InTime == IF counter = 0 THEN \A n \in DOMAIN files : n[1] < clock
                         ELSE name[1] <= clock

\* Mutated form: the worker goes to a state that only takers have.
GrabStuck ==
    /\ pc[Worker] = "wait"
    /\ Register!Read(Worker)
    /\ Fill(latest)
    /\ name' = <<clock, counter>>
    /\ counter' = counter + 1
    /\ timely' = (timely /\ InTime)
    /\ Goto(Worker, "off")
    /\ UNCHANGED <<base, clock, ptr, folder, shot>>

\* Mutated form: the counter is not advanced.
GrabSame ==
    /\ pc[Worker] = "wait"
    /\ Register!Read(Worker)
    /\ Fill(latest)
    /\ name' = <<clock, counter>>
    /\ counter' = counter
    /\ timely' = (timely /\ InTime)
    /\ Goto(Worker, "open")
    /\ UNCHANGED <<base, clock, ptr, folder, shot>>

\* Wait for a fresh frame, copy it, unlock, make the file name.
Grab ==
    /\ pc[Worker] = "wait"
    /\ Register!Read(Worker)
    /\ Fill(latest)
    /\ name' = <<clock, counter>>
    /\ counter' = counter + 1
    /\ timely' = (timely /\ InTime)
    /\ Goto(Worker, "open")
    /\ UNCHANGED <<base, clock, ptr, folder, shot>>

\* Not enough memory: return NULL.
GrabFails ==
    /\ pc[Worker] = "wait"
    /\ Register!Read(Worker)
    /\ Refuse(latest)
    /\ Goto(Worker, "ended")
    /\ UNCHANGED <<base, clock, ptr, naming, folder, shot>>

\* open(O_CREAT | O_TRUNC), then the call of write().  A picture that is
\* there under this name is overwritten where it is.
Open ==
    /\ pc[Worker] = "open"
    /\ LET inode == IF name \in DOMAIN files THEN files[name]
                                             ELSE held[Worker]
       IN  /\ files' = [n \in DOMAIN files \cup {name} |->
                            IF n = name THEN inode ELSE files[n]]
           /\ disk' = [disk EXCEPT ![inode] = Empty(held[Worker])]
    /\ ptr' = [ptr EXCEPT ![Worker] = buf.at]
    /\ Goto(Worker, "writeLo")
    /\ UNCHANGED <<regvars, base, clock, buf, naming, link, victims, spared,
                   shot>>

\* Mutated form: the picture is linked before it is complete.
WriteLoFirst ==
    /\ pc[Worker] = "writeLo"
    /\ disk' = [disk EXCEPT ![files[name]].lo = ReadLo(Worker)]
    /\ Goto(Worker, "unlink")
    /\ UNCHANGED <<regvars, base, clock, buf, ptr, naming, files, link, victims,
                   spared, shot>>

WriteLo ==
    /\ pc[Worker] = "writeLo"
    /\ disk' = [disk EXCEPT ![files[name]].lo = ReadLo(Worker)]
    /\ Goto(Worker, "writeHi")
    /\ UNCHANGED <<regvars, base, clock, buf, ptr, naming, files, link, victims,
                   spared, shot>>

WriteHi ==
    /\ pc[Worker] = "writeHi"
    /\ disk' = [disk EXCEPT ![files[name]].hi = ReadHi(Worker)]
    /\ Goto(Worker, "unlink")
    /\ UNCHANGED <<regvars, base, clock, buf, ptr, naming, files, link, victims,
                   spared, shot>>

\* The disk fills up in the middle: write returns less than frame_size, which
\* is not below 0.
WriteShort ==
    /\ trouble
    /\ pc[Worker] = "writeHi"
    /\ Goto(Worker, "unlink")
    /\ UNCHANGED <<regvars, base, clock, buf, ptr, naming, folder, shot>>

\* open or write fails: the thread returns, the file stays, no trimming.
WriteFails ==
    /\ trouble
    /\ pc[Worker] \in {"open", "writeLo"}
    /\ Goto(Worker, "ended")
    /\ UNCHANGED <<regvars, base, clock, buf, ptr, naming, folder, shot>>

\* The fixed name is removed and then given to the new picture.  Whether
\* either call fails is not looked at.
Unlink ==
    /\ pc[Worker] = "unlink"
    /\ \/ link' = 0
       \/ trouble /\ link' = link
    /\ Goto(Worker, "link")
    /\ UNCHANGED <<regvars, base, clock, buf, ptr, naming, files, disk, victims,
                   spared, shot>>

\* Mutated form: the folder is not maintained after the first picture.
MaintainNow0 == counter % (Exceed + 1) = 0

\* Is the ring buffer maintained after this picture?
MaintainNow == Exceed = 0 \/ counter = 1 \/ counter % (Exceed + 1) = 0

Link ==
    /\ pc[Worker] = "link"
    /\ \/ link' = files[name]
       \/ trouble /\ link' = link
    /\ Goto(Worker, IF MaintainNow THEN "scan" ELSE "wait")
    /\ UNCHANGED <<regvars, base, clock, buf, ptr, naming, files, disk, victims,
                   spared, shot>>

\* alphasort: names hold the time, then the counter with leading zeros.
Before(a, b) == a[1] < b[1] \/ (a[1] = b[1] /\ a[2] < b[2])
Later(n) == {m \in DOMAIN files : Before(n, m)}

\* The first n - size of the sorted list: those with size later ones.
Excess == {n \in DOMAIN files : Cardinality(Later(n)) >= RingSize}

\* maintain_ringbuffer: list the folder.
Scan ==
    /\ pc[Worker] = "scan"
    /\ victims' = Excess /\ spared' = {}
    /\ Goto(Worker, IF Excess = {} THEN "wait" ELSE "trim")
    /\ UNCHANGED <<regvars, base, clock, buf, ptr, naming, files, disk, link,
                   shot>>

\* scandir fails: nothing is removed.
ScanFails ==
    /\ trouble
    /\ pc[Worker] = "scan"
    /\ spared' = DOMAIN files
    /\ Goto(Worker, "wait")
    /\ UNCHANGED <<regvars, base, clock, buf, ptr, naming, files, disk, link,
                   victims, shot>>

First(S) == CHOOSE n \in S : \A m \in S \ {n} : Before(n, m)

\* One turn of the loop: the oldest on the list goes.
Trim ==
    /\ pc[Worker] = "trim"
    /\ files' = [n \in DOMAIN files \ {First(victims)} |-> files[n]]
    /\ victims' = victims \ {First(victims)}
    /\ Goto(Worker, IF victims' = {} THEN "wait" ELSE "trim")
    /\ UNCHANGED <<regvars, base, clock, buf, ptr, naming, disk, link, spared,
                   shot>>

\* unlink fails: the picture stays, and the loop goes on.
TrimFails ==
    /\ trouble
    /\ pc[Worker] = "trim"
    /\ spared' = spared \cup {First(victims)}
    /\ victims' = victims \ {First(victims)}
    /\ Goto(Worker, IF victims' = {} THEN "wait" ELSE "trim")
    /\ UNCHANGED <<regvars, base, clock, buf, ptr, naming, files, disk, link,
                   shot>>

\* The process dies anywhere and is started again, perhaps within the same
\* second: the files stay, everything static starts over.
Restart ==
    /\ buf' = [alloc |-> 0, room |-> 0, at |-> 0, lo |-> 0, hi |-> 0]
    /\ pc' = [t \in Takers \cup {Worker} |-> IF t = Worker THEN "wait"
                                             ELSE "off"]
    /\ ptr' = [t \in Takers \cup {Worker} |-> 0]
    /\ counter' = 0 /\ name' = <<0, 0>>
    /\ victims' = {} /\ spared' = {}
    /\ base' = latest
    /\ held' = [held EXCEPT ![Worker] = latest]
    /\ UNCHANGED <<latest, open, clock, timely, files, disk, link, shot>>

WorkerNext == \/ Grab \/ GrabFails \/ Open \/ WriteLo \/ WriteHi
              \/ WriteShort \/ WriteFails \/ Unlink \/ Link \/ Scan
              \/ ScanFails \/ Trim \/ TrimFails

----------------------------------------------------------------------------
(* output_cmd with OUT_FILE_CMD_TAKE, on the thread of an http client.      *)

\* The picture buffer of a new process is empty.
InBuffer == IF latest > base THEN latest ELSE 0

\* Copy the frame in the register, whatever its age; open the file.
TakeCopy(t) ==
    /\ pc[t] = "off"
    /\ Fill(InBuffer)
    /\ shot' = [shot EXCEPT ![t] = Empty(InBuffer)]
    /\ Goto(t, "open")
    /\ UNCHANGED <<regvars, base, clock, ptr, naming, folder>>

TakeCopyFails(t) ==
    /\ pc[t] = "off"
    /\ Refuse(InBuffer)
    /\ UNCHANGED <<regvars, base, clock, pc, ptr, naming, folder, shot>>

TakeOpen(t) ==
    /\ pc[t] = "open"
    /\ ptr' = [ptr EXCEPT ![t] = buf.at]
    /\ Goto(t, "writeLo")
    /\ UNCHANGED <<regvars, base, clock, buf, naming, folder, shot>>

TakeWriteLo(t) ==
    /\ pc[t] = "writeLo"
    /\ shot' = [shot EXCEPT ![t].lo = ReadLo(t)]
    /\ Goto(t, "writeHi")
    /\ UNCHANGED <<regvars, base, clock, buf, ptr, naming, folder>>

TakeWriteHi(t) ==
    /\ pc[t] = "writeHi"
    /\ shot' = [shot EXCEPT ![t].hi = ReadHi(t)]
    /\ Goto(t, "off")
    /\ UNCHANGED <<regvars, base, clock, buf, ptr, naming, folder>>

TakeFails(t) ==
    /\ trouble
    /\ pc[t] \in {"open", "writeLo"}
    /\ Goto(t, "off")
    /\ UNCHANGED <<regvars, base, clock, buf, ptr, naming, folder, shot>>

Take(t) == \/ TakeCopy(t) \/ TakeCopyFails(t) \/ TakeOpen(t)
           \/ TakeWriteLo(t) \/ TakeWriteHi(t) \/ TakeFails(t)

Next == /\ \/ CamPublish \/ Tick \/ WorkerNext \/ Restart
           \/ \E t \in Takers : trouble /\ Take(t)
        /\ UNCHANGED trouble
Spec == Init /\ [][Next]_vars

----------------------------------------------------------------------------
(* Properties.                                                              *)

\* Every variable has its type.
Files == [no : 0 .. MaxFrame, lo : 0 .. Junk, hi : 0 .. Junk]
TypeOK ==
    /\ trouble \in BOOLEAN /\ latest \in 0 .. MaxFrame
    /\ held \in [{Worker} -> 0 .. MaxFrame]
    /\ open = TRUE /\ base \in 0 .. MaxFrame /\ clock \in 0 .. MaxClock
    /\ buf \in [alloc : Nat, room : Nat, at : Nat, lo : Nat, hi : Nat]
    /\ pc[Worker] \in {"wait", "open", "writeLo", "writeHi", "unlink", "link",
                       "scan", "trim", "ended"}
    /\ \A t \in Takers : pc[t] \in {"off", "open", "writeLo", "writeHi"}
    /\ ptr \in [Takers \cup {Worker} -> Nat]
    /\ counter \in 0 .. MaxFrame /\ timely \in BOOLEAN
    /\ DOMAIN files \subseteq (0 .. MaxClock) \X (0 .. MaxFrame)
    /\ files \in [DOMAIN files -> 0 .. MaxFrame]
    /\ disk \in [0 .. MaxFrame -> Files] /\ link \in 0 .. MaxFrame
    /\ victims \subseteq DOMAIN files
    /\ shot \in [Takers -> Files]

\* A picture that this process has saved and closed holds one frame, the one
\* the worker copied: "copy frame to our local buffer now".  And the fixed name
\* never names a picture that is not complete, whenever the process dies: it
\* is linked after the picture is closed.  A TAKE command may put another
\* frame into the same buffer, and a full disk cut a picture short.  Where a
\* name comes again, the picture that the fixed name names is written over.
Writing == pc[Worker] \in {"writeLo", "writeHi"}
Picture(n) == disk[files[n]]
PicturesWhole ==
    ~trouble =>
        /\ \A n \in DOMAIN files :
               Picture(n).no > base /\ ~(n = name /\ Writing) => Whole(Picture(n))
        /\ timely => Whole(disk[link])

\* "allow ringbuffer to exceed limit by this amount": between two pictures
\* the folder holds at most RingSize + Exceed of them, also after crashes
\* that skipped the maintenance, and however the clock runs; not counting
\* what the last maintenance could not list or remove.
RingBounded ==
    pc[Worker] = "wait" /\ counter > 0 =>
        Cardinality(DOMAIN files \ spared) <= RingSize + Exceed

\* Frame n was taken before frame m.
Taken(n) == Picture(n).no

\* Maintenance never leaves fewer than RingSize pictures, and no picture is
\* replaced by a later one of the same process: whatever the clock does.  As
\* long as it has named the pictures in their order, no picture is replaced
\* at all, and one that is removed was taken before every one that stays,
\* those whose unlink failed apart.
OldestGoes ==
    [][/\ DOMAIN files \ DOMAIN files' # {} =>
              Cardinality(DOMAIN files') >= RingSize
       /\ \A n \in DOMAIN files \ DOMAIN files' :
              timely => \A m \in DOMAIN files' \ spared : Taken(n) < Taken(m)'
       /\ \A n \in DOMAIN files \cap DOMAIN files' :
              Taken(n)' # Taken(n) => Taken(n) <= base /\ ~timely]_vars
=============================================================================
