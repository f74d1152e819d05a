--------------------------- MODULE FrameBusProofs ---------------------------
(* Proofs about FrameBus, for every set of threads and every number of      *)
(* frames.                                                                  *)
EXTENDS FrameBus, TLAPS

USE DEF Threads, Readers

LEMMA TypeInit ==
  ASSUME Init
  PROVE  TypeOK
<1> USE ThreadsDistinct, MaxFrameIsNat DEF Init
<1>0. 0 \in Nat /\ 0 \in 0 .. MaxFrame
  OBVIOUS
<1>1. /\ owner \in Threads \cup {None} /\ mem \in {"live", "freed", "null"}
      /\ lo \in Nat /\ hi \in Nat /\ size \in Nat /\ stamp \in Nat
      /\ frame \in 0 .. MaxFrame
      /\ stop \in BOOLEAN /\ proc \in Proc
      /\ cancel \in SUBSET Threads /\ server \in {"up", "down"}
  BY <1>0 DEF Proc
<1>2. /\ pc \in [Threads -> CamPC \cup ReaderPC]
      /\ pc[Cam] \in CamPC
      /\ \A r \in Readers : pc[r] \in ReaderPC
  BY DEF CamPC, ReaderPC
<1>3. /\ mode \in [Readers -> {"stream", "snapshot"}]
      /\ got \in [Readers -> [size : Nat, stamp : Nat, lo : Nat, hi : Nat]]
      /\ since \in [Readers -> Nat]
  BY DEF NoCopy
<1> QED
  BY <1>1, <1>2, <1>3 DEF TypeOK

LEMMA TypeCam ==
  ASSUME TypeOK, CamNext
  PROVE  TypeOK'
<1> USE ThreadsDistinct, MaxFrameIsNat
<1>1. CASE CamTop
  BY <1>1 DEF CamTop, TypeOK, Goto, CamPC, bufvars, mainvars
<1>2. CASE CamGrab
  BY <1>2 DEF CamGrab, TypeOK, Goto, CamPC, bufvars, mainvars
<1>3. CASE CamLeave
  BY <1>3 DEF CamLeave, TypeOK, Goto, CamPC, bufvars, mainvars
<1>4. CASE CamLock
  BY <1>4 DEF CamLock, TypeOK, Goto, CamPC, bufvars, mainvars
<1>5. CASE CamCopyLo
  BY <1>5 DEF CamCopyLo, TypeOK, Goto, CamPC, mainvars
<1>6. CASE CamCopyHi
  BY <1>6 DEF CamCopyHi, TypeOK, Goto, CamPC, mainvars
<1>7. CASE CamStamp
  BY <1>7 DEF CamStamp, TypeOK, CamPC, ReaderPC, mainvars
<1>8. CASE CamUnlock
  BY <1>8 DEF CamUnlock, TypeOK, Goto, CamPC, bufvars, mainvars
<1>9. CASE CamFree
  BY <1>9 DEF CamFree, TypeOK, Goto, CamPC, mainvars
<1>10. CASE CamNull
  BY <1>10 DEF CamNull, TypeOK, Goto, CamPC, mainvars
<1> QED
  BY <1>1, <1>2, <1>3, <1>4, <1>5, <1>6, <1>7, <1>8, <1>9, <1>10 DEF CamNext

LEMMA TypeReader ==
  ASSUME TypeOK, NEW r \in Readers, ReaderNext(r)
  PROVE  TypeOK'
<1> USE ThreadsDistinct
<1>1. CASE Connect(r)
  BY <1>1 DEF Connect, TypeOK, Goto, ReaderPC, NoCopy, bufvars, mainvars
<1>2. CASE ReaderTop(r)
  BY <1>2 DEF ReaderTop, TypeOK, Goto, Leave, ReaderPC, bufvars, mainvars
<1>3. CASE ReaderWait(r)
  BY <1>3 DEF ReaderWait, TypeOK, Goto, ReaderPC, bufvars, mainvars
<1>4. CASE SpuriousWakeup(r)
  BY <1>4 DEF SpuriousWakeup, TypeOK, Goto, ReaderPC, bufvars, mainvars
<1>5. CASE ReaderRelock(r)
  BY <1>5 DEF ReaderRelock, TypeOK, Goto, ReaderPC, bufvars, mainvars
<1>6. CASE ReaderNoMemory(r)
  BY <1>6 DEF ReaderNoMemory, TypeOK, Goto, Leave, ReaderPC, bufvars, mainvars
<1>7. CASE ReaderCopyLo(r)
  BY <1>7 DEF ReaderCopyLo, Found, TypeOK, Goto, ReaderPC, bufvars, mainvars
<1>8. CASE ReaderCopyHi(r)
  BY <1>8 DEF ReaderCopyHi, Found, TypeOK, Goto, ReaderPC, bufvars, mainvars
<1>9. CASE ReaderFault(r)
  BY <1>9 DEF ReaderFault, TypeOK, Proc, bufvars
<1>10. CASE ReaderDeliver(r)
  BY <1>10 DEF ReaderDeliver, TypeOK, Goto, Leave, ReaderPC, bufvars, mainvars
<1>11. CASE ReaderCancelled(r)
  BY <1>11 DEF ReaderCancelled, TypeOK, Goto, ReaderPC, bufvars, mainvars
<1>12. CASE ReaderReap(r)
  BY <1>12 DEF ReaderReap, TypeOK, Goto, ReaderPC, bufvars, mainvars
<1> QED
  BY <1>1, <1>2, <1>3, <1>4, <1>5, <1>6, <1>7, <1>8, <1>9, <1>10, <1>11,
     <1>12 DEF ReaderNext, ReaderLocked

LEMMA TypeHandler ==
  ASSUME TypeOK, HandlerNext
  PROVE  TypeOK'
<1> USE ThreadsDistinct, FirstOutKnown DEF TypeOK, Proc, bufvars
<1>1. CASE Sigint          BY <1>1 DEF Sigint
<1>2. CASE StopInput       BY <1>2 DEF StopInput
<1>3. CASE StopFirstOutput BY <1>3 DEF StopFirstOutput
<1>4. CASE Destroy         BY <1>4 DEF Destroy
<1>5. CASE Unblock         BY <1>5 DEF Unblock
<1>6. CASE Unload          BY <1>6 DEF Unload
<1> QED
  BY <1>1, <1>2, <1>3, <1>4, <1>5, <1>6 DEF HandlerNext

\* Every variable keeps its type.
THEOREM TypeCorrect == Spec => []TypeOK
<1>1. TypeOK /\ [Next]_vars => TypeOK'
  <2>1. CASE UNCHANGED vars
    BY <2>1 DEF vars, bufvars, mainvars, TypeOK
  <2> QED
    BY <2>1, TypeCam, TypeReader, TypeHandler DEF Next
<1> QED
  BY <1>1, TypeInit, PTL DEF Spec

LEMMA LockCam ==
  ASSUME IInv, CamNext
  PROVE  LockInv'
<1> USE ThreadsDistinct, MaxFrameIsNat DEF IInv, TypeOK, LockInv, CamHolds, ReaderHolds, Goto,
      bufvars, mainvars, CamPC, ReaderPC
<1>1. CASE CamTop
  BY <1>1 DEF CamTop
<1>2. CASE CamGrab
  BY <1>2 DEF CamGrab
<1>3. CASE CamLeave
  BY <1>3 DEF CamLeave
<1>4. CASE CamLock
  BY <1>4 DEF CamLock
<1>5. CASE CamCopyLo
  BY <1>5 DEF CamCopyLo
<1>6. CASE CamCopyHi
  BY <1>6 DEF CamCopyHi
<1>7. CASE CamStamp
  BY <1>7 DEF CamStamp
<1>8. CASE CamUnlock
  BY <1>8 DEF CamUnlock
<1>9. CASE CamFree
  BY <1>9 DEF CamFree
<1>10. CASE CamNull
  BY <1>10 DEF CamNull
<1> QED
  BY <1>1, <1>2, <1>3, <1>4, <1>5, <1>6, <1>7, <1>8, <1>9, <1>10
     DEF CamNext

LEMMA LockReader ==
  ASSUME IInv, NEW r \in Readers, ReaderNext(r)
  PROVE  LockInv'
<1> USE ThreadsDistinct DEF IInv, TypeOK, LockInv, CamHolds, ReaderHolds, Goto, Leave,
      Found, bufvars, mainvars, CamPC, ReaderPC, NoCopy
<1>1. CASE Connect(r)
  BY <1>1 DEF Connect
<1>2. CASE ReaderTop(r)
  BY <1>2 DEF ReaderTop
<1>3. CASE ReaderWait(r)
  BY <1>3 DEF ReaderWait
<1>4. CASE SpuriousWakeup(r)
  BY <1>4 DEF SpuriousWakeup
<1>5. CASE ReaderRelock(r)
  BY <1>5 DEF ReaderRelock
<1>6. CASE ReaderNoMemory(r)
  BY <1>6 DEF ReaderNoMemory
<1>7. CASE ReaderCopyLo(r)
  BY <1>7 DEF ReaderCopyLo
<1>8. CASE ReaderCopyHi(r)
  BY <1>8 DEF ReaderCopyHi
<1>9. CASE ReaderFault(r)
  BY <1>9 DEF ReaderFault
<1>10. CASE ReaderDeliver(r)
  BY <1>10 DEF ReaderDeliver
<1>11. CASE ReaderCancelled(r)
  BY <1>11 DEF ReaderCancelled
<1>12. CASE ReaderReap(r)
  BY <1>12 DEF ReaderReap
<1> QED
  BY <1>1, <1>2, <1>3, <1>4, <1>5, <1>6, <1>7, <1>8, <1>9, <1>10, <1>11, <1>12
     DEF ReaderNext, ReaderLocked

LEMMA BufCam ==
  ASSUME IInv, CamNext
  PROVE  BufInv'
<1> USE ThreadsDistinct, MaxFrameIsNat DEF IInv, TypeOK, LockInv, CamHolds, ReaderHolds, BufInv, Goto,
      bufvars, mainvars, CamPC, ReaderPC
<1>1. CASE CamTop
  BY <1>1 DEF CamTop
<1>2. CASE CamGrab
  BY <1>2 DEF CamGrab
<1>3. CASE CamLeave
  BY <1>3 DEF CamLeave
<1>4. CASE CamLock
  BY <1>4 DEF CamLock
<1>5. CASE CamCopyLo
  BY <1>5 DEF CamCopyLo
<1>6. CASE CamCopyHi
  BY <1>6 DEF CamCopyHi
<1>7. CASE CamStamp
  BY <1>7 DEF CamStamp
<1>8. CASE CamUnlock
  BY <1>8 DEF CamUnlock
<1>9. CASE CamFree
  BY <1>9 DEF CamFree
<1>10. CASE CamNull
  BY <1>10 DEF CamNull
<1> QED
  BY <1>1, <1>2, <1>3, <1>4, <1>5, <1>6, <1>7, <1>8, <1>9, <1>10
     DEF CamNext

LEMMA BufReader ==
  ASSUME IInv, NEW r \in Readers, ReaderNext(r)
  PROVE  BufInv'
<1> USE ThreadsDistinct DEF IInv, TypeOK, LockInv, CamHolds, ReaderHolds, BufInv, Goto, Leave,
      Found, bufvars, mainvars, CamPC, ReaderPC, NoCopy
<1>1. CASE Connect(r)
  BY <1>1 DEF Connect
<1>2. CASE ReaderTop(r)
  BY <1>2 DEF ReaderTop
<1>3. CASE ReaderWait(r)
  BY <1>3 DEF ReaderWait
<1>4. CASE SpuriousWakeup(r)
  BY <1>4 DEF SpuriousWakeup
<1>5. CASE ReaderRelock(r)
  BY <1>5 DEF ReaderRelock
<1>6. CASE ReaderNoMemory(r)
  BY <1>6 DEF ReaderNoMemory
<1>7. CASE ReaderCopyLo(r)
  BY <1>7 DEF ReaderCopyLo
<1>8. CASE ReaderCopyHi(r)
  BY <1>8 DEF ReaderCopyHi
<1>9. CASE ReaderFault(r)
  BY <1>9 DEF ReaderFault
<1>10. CASE ReaderDeliver(r)
  BY <1>10 DEF ReaderDeliver
<1>11. CASE ReaderCancelled(r)
  BY <1>11 DEF ReaderCancelled
<1>12. CASE ReaderReap(r)
  BY <1>12 DEF ReaderReap
<1> QED
  BY <1>1, <1>2, <1>3, <1>4, <1>5, <1>6, <1>7, <1>8, <1>9, <1>10, <1>11, <1>12
     DEF ReaderNext, ReaderLocked

LEMMA CopyCam ==
  ASSUME IInv, CamNext
  PROVE  CopyInv'
<1> USE ThreadsDistinct, MaxFrameIsNat DEF IInv, TypeOK, LockInv, CamHolds, ReaderHolds, BufInv, CopyInv, Goto,
      bufvars, mainvars, CamPC, ReaderPC
<1>1. CASE CamTop
  BY <1>1 DEF CamTop
<1>2. CASE CamGrab
  BY <1>2 DEF CamGrab
<1>3. CASE CamLeave
  BY <1>3 DEF CamLeave
<1>4. CASE CamLock
  BY <1>4 DEF CamLock
<1>5. CASE CamCopyLo
  BY <1>5 DEF CamCopyLo
<1>6. CASE CamCopyHi
  BY <1>6 DEF CamCopyHi
<1>7. CASE CamStamp
  BY <1>7 DEF CamStamp
<1>8. CASE CamUnlock
  BY <1>8 DEF CamUnlock
<1>9. CASE CamFree
  BY <1>9 DEF CamFree
<1>10. CASE CamNull
  BY <1>10 DEF CamNull
<1> QED
  BY <1>1, <1>2, <1>3, <1>4, <1>5, <1>6, <1>7, <1>8, <1>9, <1>10
     DEF CamNext

LEMMA CopyReader ==
  ASSUME IInv, NEW r \in Readers, ReaderNext(r)
  PROVE  CopyInv'
<1> USE ThreadsDistinct DEF IInv, TypeOK, LockInv, CamHolds, ReaderHolds, BufInv, CopyInv, Goto, Leave,
      Found, bufvars, mainvars, CamPC, ReaderPC, NoCopy
<1>1. CASE Connect(r)
  BY <1>1 DEF Connect
<1>2. CASE ReaderTop(r)
  BY <1>2 DEF ReaderTop
<1>3. CASE ReaderWait(r)
  BY <1>3 DEF ReaderWait
<1>4. CASE SpuriousWakeup(r)
  BY <1>4 DEF SpuriousWakeup
<1>5. CASE ReaderRelock(r)
  BY <1>5 DEF ReaderRelock
<1>6. CASE ReaderNoMemory(r)
  BY <1>6 DEF ReaderNoMemory
<1>7. CASE ReaderCopyLo(r)
  BY <1>7 DEF ReaderCopyLo
<1>8. CASE ReaderCopyHi(r)
  BY <1>8 DEF ReaderCopyHi
<1>9. CASE ReaderFault(r)
  BY <1>9 DEF ReaderFault
<1>10. CASE ReaderDeliver(r)
  BY <1>10 DEF ReaderDeliver
<1>11. CASE ReaderCancelled(r)
  BY <1>11 DEF ReaderCancelled
<1>12. CASE ReaderReap(r)
  BY <1>12 DEF ReaderReap
<1> QED
  BY <1>1, <1>2, <1>3, <1>4, <1>5, <1>6, <1>7, <1>8, <1>9, <1>10, <1>11, <1>12
     DEF ReaderNext, ReaderLocked

LEMMA FreshCam ==
  ASSUME IInv, FreshInv, ~SpuriousWakeups, CamNext
  PROVE  FreshInv'
<1> USE ThreadsDistinct, MaxFrameIsNat DEF IInv, TypeOK, LockInv, CamHolds, ReaderHolds, BufInv, FreshInv, Goto,
      bufvars, mainvars, CamPC, ReaderPC
<1>1. CASE CamTop
  BY <1>1 DEF CamTop
<1>2. CASE CamGrab
  BY <1>2 DEF CamGrab
<1>3. CASE CamLeave
  BY <1>3 DEF CamLeave
<1>4. CASE CamLock
  BY <1>4 DEF CamLock
<1>5. CASE CamCopyLo
  BY <1>5 DEF CamCopyLo
<1>6. CASE CamCopyHi
  BY <1>6 DEF CamCopyHi
<1>7. CASE CamStamp
  BY <1>7 DEF CamStamp
<1>8. CASE CamUnlock
  BY <1>8 DEF CamUnlock
<1>9. CASE CamFree
  BY <1>9 DEF CamFree
<1>10. CASE CamNull
  BY <1>10 DEF CamNull
<1> QED
  BY <1>1, <1>2, <1>3, <1>4, <1>5, <1>6, <1>7, <1>8, <1>9, <1>10
     DEF CamNext

LEMMA FreshReader ==
  ASSUME IInv, FreshInv, ~SpuriousWakeups, NEW r \in Readers, ReaderNext(r)
  PROVE  FreshInv'
<1> USE ThreadsDistinct DEF IInv, TypeOK, LockInv, CamHolds, ReaderHolds, BufInv, FreshInv, Goto, Leave,
      Found, bufvars, mainvars, CamPC, ReaderPC, NoCopy
<1>1. CASE Connect(r)
  BY <1>1 DEF Connect
<1>2. CASE ReaderTop(r)
  BY <1>2 DEF ReaderTop
<1>3. CASE ReaderWait(r)
  BY <1>3 DEF ReaderWait
<1>4. CASE SpuriousWakeup(r)
  BY <1>4 DEF SpuriousWakeup
<1>5. CASE ReaderRelock(r)
  BY <1>5 DEF ReaderRelock
<1>6. CASE ReaderNoMemory(r)
  BY <1>6 DEF ReaderNoMemory
<1>7. CASE ReaderCopyLo(r)
  BY <1>7 DEF ReaderCopyLo
<1>8. CASE ReaderCopyHi(r)
  BY <1>8 DEF ReaderCopyHi
<1>9. CASE ReaderFault(r)
  BY <1>9 DEF ReaderFault
<1>10. CASE ReaderDeliver(r)
  BY <1>10 DEF ReaderDeliver
<1>11. CASE ReaderCancelled(r)
  BY <1>11 DEF ReaderCancelled
<1>12. CASE ReaderReap(r)
  BY <1>12 DEF ReaderReap
<1> QED
  BY <1>1, <1>2, <1>3, <1>4, <1>5, <1>6, <1>7, <1>8, <1>9, <1>10, <1>11, <1>12
     DEF ReaderNext, ReaderLocked

LEMMA ShutStep ==
  ASSUME IInv, Next
  PROVE  ShutInv'
<1> USE ThreadsDistinct DEF IInv, TypeOK, ShutInv, Goto, mainvars, CamPC,
      ReaderPC
<1>1. CASE CamNext
  BY <1>1 DEF CamNext, CamTop, CamGrab, CamLeave, CamLock, CamCopyLo,
              CamCopyHi, CamStamp, CamUnlock, CamFree, CamNull
<1>2. ASSUME NEW r \in Readers, ReaderNext(r) PROVE ShutInv'
  <2> USE DEF Leave
  <2>1. CASE ReaderFault(r)
    BY <2>1 DEF ReaderFault
  <2>2. CASE Connect(r) \/ SpuriousWakeup(r) \/ ReaderNoMemory(r)
             \/ ReaderDeliver(r)
    BY <2>2 DEF Connect, SpuriousWakeup, ReaderNoMemory, ReaderDeliver
  <2>3. CASE ReaderTop(r) \/ ReaderWait(r) \/ ReaderRelock(r)
             \/ ReaderCopyLo(r) \/ ReaderCopyHi(r)
    BY <2>3 DEF ReaderTop, ReaderWait, ReaderRelock, ReaderCopyLo,
                ReaderCopyHi
  <2>4. CASE ReaderCancelled(r) \/ ReaderReap(r)
    BY <2>4 DEF ReaderCancelled, ReaderReap
  <2> QED
    BY <1>2, <2>1, <2>2, <2>3, <2>4 DEF ReaderNext, ReaderLocked
<1>3. CASE HandlerNext
  BY <1>3, FirstOutKnown DEF HandlerNext, Sigint, StopInput, StopFirstOutput,
                             Destroy, Unblock, Unload
<1> QED
  BY <1>1, <1>2, <1>3 DEF Next

\* The main thread touches neither the buffer nor the copies nor the mutex.
LEMMA HandlerFrame ==
  ASSUME HandlerNext
  PROVE  UNCHANGED <<owner, bufvars, frame, pc, mode, got, since>>
BY DEF HandlerNext, Sigint, StopInput, StopFirstOutput, Destroy, Unblock,
       Unload

LEMMA InvInit == Init => IInv
<1> SUFFICES ASSUME Init PROVE IInv
  OBVIOUS
<1>1. TypeOK
  BY TypeInit
<1>2. /\ owner = None /\ pc[Cam] = "top" /\ mem = "live" /\ cancel = {}
      /\ lo = 0 /\ hi = 0 /\ size = 0 /\ stamp = 0 /\ frame = 0
      /\ proc = "pause"
      /\ \A r \in Readers : pc[r] \in {"idle", "top"}
  BY ThreadsDistinct DEF Init
<1>3. LockInv /\ BufInv /\ CopyInv /\ ShutInv
  BY <1>2, ThreadsDistinct DEF LockInv, CamHolds, ReaderHolds, BufInv, CopyInv,
                               ShutInv
<1> QED
  BY <1>1, <1>3 DEF IInv

LEMMA InvNext == IInv /\ [Next]_vars => IInv'
<1> SUFFICES ASSUME IInv, [Next]_vars PROVE IInv'
  OBVIOUS
<1>1. CASE Running /\ CamNext
  BY <1>1, TypeCam, LockCam, BufCam, CopyCam, ShutStep DEF IInv, Next
<1>2. ASSUME NEW r \in Readers, Running /\ ReaderNext(r) PROVE IInv'
  BY <1>2, TypeReader, LockReader, BufReader, CopyReader, ShutStep
     DEF IInv, Next
<1>3. CASE HandlerNext
  <2>1. TypeOK' /\ ShutInv'
    BY <1>3, TypeHandler, ShutStep DEF IInv, Next
  <2>2. UNCHANGED <<owner, bufvars, frame, pc, mode, got, since>>
    BY <1>3, HandlerFrame
  <2>3. LockInv' /\ BufInv' /\ CopyInv'
    BY <2>2 DEF IInv, LockInv, CamHolds, ReaderHolds, BufInv, CopyInv, bufvars
  <2> QED
    BY <2>1, <2>3 DEF IInv
<1>4. CASE UNCHANGED vars
  BY <1>4 DEF vars, bufvars, mainvars, IInv, TypeOK, LockInv, CamHolds,
              ReaderHolds, BufInv, CopyInv, ShutInv
<1> QED
  BY <1>1, <1>2, <1>3, <1>4 DEF Next

\* The camera never waits for a mutex whose holder has left, unless the
\* process is being shut down and the camera has been cancelled too.
THEOREM MutexNotLost == Spec => []LockLostOnlyAtEnd
<1>1. IInv => LockLostOnlyAtEnd
  BY ThreadsDistinct DEF IInv, TypeOK, LockInv, CamHolds, ReaderHolds, ShutInv,
                         LockLostOnlyAtEnd, CamPC
<1> QED
  BY <1>1, InvInit, InvNext, PTL DEF Spec

\* No reader writes out half of one frame and half of another, or a frame
\* with the size or the time of another one, while the camera is there.
THEOREM WholeFrames == Spec => []FramesWhole
<1>1. IInv => FramesWhole
  BY DEF IInv, CopyInv, FramesWhole
<1> QED
  BY <1>1, InvInit, InvNext, PTL DEF Spec

----------------------------------------------------------------------------
(* Freshness and refinement need pthread_cond_wait not to return on its own. *)

LEMMA FreshInit == Init => FreshInv
<1> SUFFICES ASSUME Init PROVE FreshInv
  OBVIOUS
<1>1. stamp = 0 /\ \A r \in Readers : pc[r] \in {"idle", "top"}
                                    /\ got[r].hi = 0 /\ since[r] = 0
  BY ThreadsDistinct DEF Init, NoCopy
<1> QED
  BY <1>1 DEF FreshInv

LEMMA FreshNext ==
  ASSUME ~SpuriousWakeups
  PROVE  IInv /\ FreshInv /\ [Next]_vars => FreshInv'
<1> SUFFICES ASSUME IInv, FreshInv, [Next]_vars PROVE FreshInv'
  OBVIOUS
<1>1. CASE HandlerNext
  BY <1>1, HandlerFrame DEF FreshInv, bufvars
<1>2. CASE UNCHANGED vars
  BY <1>2 DEF vars, bufvars, FreshInv
<1> QED
  BY <1>1, <1>2, FreshCam, FreshReader DEF Next

\* A reader only writes out what was published after it began to wait.
THEOREM FreshFrames ==
  ASSUME ~SpuriousWakeups
  PROVE  Spec => []Fresh
<1>1. FreshInv => Fresh
  <2> SUFFICES ASSUME FreshInv, NEW r \in Readers, pc[r] = "deliver"
               PROVE  got[r].stamp > since[r]
    BY DEF Fresh
  <2> QED
    BY DEF FreshInv
<1> QED
  BY <1>1, InvInit, InvNext, FreshInit, FreshNext, PTL DEF Spec

LEMMA RegisterInit == Init => Register!RegInit
  BY ThreadsDistinct DEF Init, NoCopy, Register!RegInit

LEMMA RegisterCam ==
  ASSUME IInv, CamNext
  PROVE  [Register!RegNext]_(Register!regvars)
<1> USE DEF Register!regvars
<1>1. CASE CamStamp
  <2>1. stamp \in Nat /\ stamp' \in Nat /\ stamp < stamp' /\ UNCHANGED <<got, mem>>
    BY <1>1, MaxFrameIsNat DEF CamStamp, IInv, TypeOK, BufInv
  <2>2. Register!Publish
    BY <2>1 DEF Register!Publish
  <2> QED
    BY <2>2 DEF Register!RegNext
<1>2. CASE CamFree
  <2>1. mem = "live" /\ mem' = "freed" /\ UNCHANGED <<got, stamp>>
    BY <1>2 DEF CamFree, IInv, BufInv
  <2>2. Register!Close
    BY <2>1 DEF Register!Close
  <2> QED
    BY <2>2 DEF Register!RegNext
<1>3. CASE CamNull
  <2>1. mem # "live" /\ mem' = "null" /\ UNCHANGED <<got, stamp>>
    BY <1>3 DEF CamNull, IInv, BufInv
  <2> QED
    BY <2>1
<1>4. CASE CamTop \/ CamGrab \/ CamLeave \/ CamLock \/ CamCopyLo \/ CamCopyHi
           \/ CamUnlock
  <2>1. UNCHANGED <<got, stamp, mem>>
    BY <1>4 DEF CamTop, CamGrab, CamLeave, CamLock, CamCopyLo, CamCopyHi,
                CamUnlock, bufvars
  <2> QED
    BY <2>1
<1> QED
  BY <1>1, <1>2, <1>3, <1>4 DEF CamNext

LEMMA RegisterReader ==
  ASSUME IInv, FreshInv, NEW r \in Readers, ReaderNext(r)
  PROVE  [Register!RegNext]_(Register!regvars)
<1> DEFINE held == [q \in Readers |-> got[q].hi]
<1> USE DEF Register!regvars
<1>1. CASE ReaderCopyHi(r)
  <2>1. PICK f \in Found(r, hi) : got' = [got EXCEPT ![r].hi = f]
    BY <1>1 DEF ReaderCopyHi
  <2>2. UNCHANGED <<stamp, mem>> /\ pc[r] = "copyHi" /\ owner = r
    BY <1>1 DEF ReaderCopyHi, bufvars, IInv, LockInv, ReaderHolds
  <2>3. held' = [held EXCEPT ![r] = f]
    BY <2>1 DEF IInv, TypeOK
  <2>4. hi = stamp /\ stamp \in Nat
    BY <2>2, ThreadsDistinct DEF IInv, TypeOK, LockInv, CamHolds, BufInv
  <2>5. CASE mem = "live"
    <3>1. got[r].size = stamp /\ stamp > held[r]
      BY <2>2, <2>5 DEF IInv, TypeOK, CopyInv, FreshInv
    <3>2. f = stamp
      BY <2>4, <2>5, <3>1 DEF Found
    <3>3. Register!Read(r)
      BY <2>2, <2>3, <2>5, <3>1, <3>2 DEF Register!Read
    <3> QED
      BY <3>3 DEF Register!RegNext
  <2>6. CASE mem # "live"
    <3>1. f \in 0 .. stamp
      BY <2>4, <2>6 DEF Found
    <3>2. Register!ReadAny(r)
      BY <2>2, <2>3, <2>6, <3>1 DEF Register!ReadAny
    <3> QED
      BY <3>2 DEF Register!RegNext
  <2> QED
    BY <2>5, <2>6
<1>2. CASE Connect(r)
  <2>1. held' = [held EXCEPT ![r] = 0] /\ UNCHANGED <<stamp, mem>>
    BY <1>2 DEF Connect, NoCopy, bufvars, IInv, TypeOK
  <2>2. Register!Forget(r)
    BY <2>1 DEF Register!Forget
  <2> QED
    BY <2>2 DEF Register!RegNext
<1>3. CASE ReaderRelock(r) \/ ReaderCopyLo(r)
  <2>1. held' = held /\ UNCHANGED <<stamp, mem>>
    BY <1>3 DEF ReaderRelock, ReaderCopyLo, bufvars, IInv, TypeOK
  <2> QED
    BY <2>1
<1>4. CASE \/ ReaderTop(r) \/ ReaderWait(r) \/ SpuriousWakeup(r)
           \/ ReaderNoMemory(r) \/ ReaderFault(r) \/ ReaderDeliver(r)
           \/ ReaderCancelled(r) \/ ReaderReap(r)
  <2>1. UNCHANGED <<got, stamp, mem>>
    BY <1>4 DEF ReaderTop, ReaderWait, SpuriousWakeup, ReaderNoMemory,
                ReaderFault, ReaderDeliver, ReaderCancelled, ReaderReap, bufvars
  <2> QED
    BY <2>1
<1> QED
  BY <1>1, <1>2, <1>3, <1>4 DEF ReaderNext, ReaderLocked

\* The buffer, its mutex and its condition variable implement the register:
\* every copy a reader completes is the newest frame and new to that reader,
\* up to the moment the camera frees the buffer.
THEOREM BusIsRegister ==
  ASSUME ~SpuriousWakeups
  PROVE  Spec => IsRegister
<1>1. IInv /\ FreshInv /\ [Next]_vars => [Register!RegNext]_(Register!regvars)
  <2> SUFFICES ASSUME IInv, FreshInv, [Next]_vars
               PROVE  [Register!RegNext]_(Register!regvars)
    OBVIOUS
  <2>1. CASE HandlerNext
    BY <2>1, HandlerFrame DEF Register!regvars, bufvars
  <2>2. CASE UNCHANGED vars
    BY <2>2 DEF vars, bufvars, Register!regvars
  <2> QED
    BY <2>1, <2>2, RegisterCam, RegisterReader DEF Next
<1> QED
  BY <1>1, InvInit, InvNext, FreshInit, FreshNext, RegisterInit, PTL
     DEF Spec, IsRegister, Register!RegSpec
=============================================================================
