--------------------------- MODULE FrameRegister ---------------------------
(* What the global picture buffer of mjpg_streamer promises to the threads  *)
(* that read it: a register holding one frame.  Frames carry the number the *)
(* camera gave them.  A reader that asks for a frame gets the newest one,   *)
(* and one that it has not had before.  Frames may be skipped: a slow       *)
(* reader misses the ones published meanwhile.  Nothing is promised once    *)
(* the camera has left and taken its buffer with it.                        *)
EXTENDS Naturals

CONSTANT Readers        \* threads that read the register

VARIABLES latest,       \* number of the frame in the register
          held,         \* held[r]: number of the last frame r took
          open          \* FALSE once the camera has left

regvars == <<latest, held, open>>

RegInit == /\ latest = 0
           /\ held = [r \in Readers |-> 0]
           /\ open = TRUE

\* The camera replaces the frame by a later one.
Publish == /\ latest' \in Nat
           /\ latest' > latest
           /\ UNCHANGED <<held, open>>

\* A reader takes the newest frame, which is new to it.
Read(r) == /\ open
           /\ latest > held[r]
           /\ held' = [held EXCEPT ![r] = latest]
           /\ UNCHANGED <<latest, open>>

\* After the camera has left, what a reader copies is not specified.
ReadAny(r) == /\ ~open
              /\ \E f \in 0 .. latest : held' = [held EXCEPT ![r] = f]
              /\ UNCHANGED <<latest, open>>

\* A new http client takes the slot of an old one.
Forget(r) == /\ held' = [held EXCEPT ![r] = 0]
             /\ UNCHANGED <<latest, open>>

Close == /\ open
         /\ open' = FALSE
         /\ UNCHANGED <<latest, held>>

RegNext == \/ Publish
           \/ Close
           \/ \E r \in Readers : Read(r) \/ ReadAny(r) \/ Forget(r)

RegSpec == RegInit /\ [][RegNext]_regvars
=============================================================================
