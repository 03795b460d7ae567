-------------------------- MODULE TpmSignerProofs ---------------------------
(***************************************************************************)
(* Proofs about TpmSigner, for any number of goroutines and requests, with *)
(* and without device failures and the resource manager.                   *)
(***************************************************************************)
EXTENDS TpmSigner, Naturals, TLAPS

(***************************************************************************)
(* The inductive invariant.  MutexInv is its heart: the goroutine that mu  *)
(* names is the only one between Lock and Unlock, so what the other parts  *)
(* say of a goroutine that uses the device is not disturbed by the others. *)
(***************************************************************************)
Holding  == {"nil", "send", "receive", "flush", "await", "close", "unlock"}
Signing  == {"check", "send", "receive"}
Closing  == {"flush", "await", "close"}
Decided  == {"unlock", "done"}

CallInv ==
  \A g \in Goroutines :
     /\ pc[g] = "idle" => op[g] = "none" /\ arg[g] = NoRequest /\ sig[g] = NoRequest
     /\ pc[g] # "idle" => op[g] # "none"
     /\ pc[g] \in Signing => op[g] = "sign"
     /\ pc[g] \in Closing => op[g] = "close"
     /\ op[g] = "sign" => arg[g] \in Requests
     /\ op[g] # "sign" => arg[g] = NoRequest
     /\ pc[g] \in Decided <=> res[g] # "none"
     /\ sig[g] # NoRequest => op[g] = "sign" /\ res[g] = "ok" /\ sig[g] = arg[g]

MutexInv ==
  \A g \in Goroutines : pc[g] \in Holding <=> mu = g

DeviceInv ==
  /\ tpm = "open" <=> fd = "open"
  /\ tpm = "open" <=> handle = "child"
  /\ tpm = "open" /\ ~loaded => \E g \in Goroutines : pc[g] \in {"await", "close"}
  /\ tpm = "nil" => wire = Quiet
  /\ tpm = "nil" /\ loaded => flushLost /\ ~ResourceManager
  /\ \A g \in Goroutines :
        pc[g] = "close" \/ (pc[g] = "await" /\ wire.kind \in Responses) =>
           (loaded => flushLost)

IInv ==
  /\ TypeOK
  /\ CallInv
  /\ MutexInv
  /\ DeviceInv
  /\ ResponsesNotCrossed
  /\ DeviceHeldWhileUsed
  /\ CloseReleases

-----------------------------------------------------------------------------
LEMMA InitIInv == Init => IInv
<1> SUFFICES ASSUME Init PROVE IInv
  OBVIOUS
<1> USE TpmSignerAssumption DEF Init
<1>1. TypeOK
  BY DEF TypeOK, Locations, Messages, Quiet, Message
<1>2. CallInv /\ MutexInv
  BY DEF CallInv, MutexInv, Holding, Signing, Closing, Decided
<1>3. DeviceInv /\ ResponsesNotCrossed /\ DeviceHeldWhileUsed /\ CloseReleases
  BY DEF DeviceInv, ResponsesNotCrossed, DeviceHeldWhileUsed, CloseReleases, At,
         Quiet, Message, Commands
<1> QED
  BY <1>1, <1>2, <1>3 DEF IInv

LEMMA CallSignKeepsIInv ==
  ASSUME IInv, NEW g \in Goroutines, CallSign(g)
  PROVE  IInv'
<1> USE TpmSignerAssumption DEF IInv, CallSign, Goto, At, signerVars, devVars
<1>1. TypeOK'
  BY DEF TypeOK, Locations
<1>2. CallInv'
  BY DEF TypeOK, CallInv, Closing, Decided
<1>3. MutexInv'
  BY DEF MutexInv, Holding
<1>4. DeviceInv'
  BY DEF DeviceInv
<1>5. ResponsesNotCrossed'
  BY DEF ResponsesNotCrossed
<1>6. DeviceHeldWhileUsed'
  BY DEF DeviceHeldWhileUsed
<1>7. CloseReleases'
  BY DEF CloseReleases
<1> QED
  BY <1>1, <1>2, <1>3, <1>4, <1>5, <1>6, <1>7

LEMMA CallCloseKeepsIInv ==
  ASSUME IInv, NEW g \in Goroutines, CallClose(g)
  PROVE  IInv'
<1> USE TpmSignerAssumption DEF IInv, CallClose, Goto, At, signerVars, devVars
<1>1. TypeOK'
  BY DEF TypeOK, Locations
<1>2. CallInv'
  BY DEF TypeOK, CallInv, Signing, Decided
<1>3. MutexInv'
  BY DEF MutexInv, Holding
<1>4. DeviceInv'
  BY DEF DeviceInv
<1>5. ResponsesNotCrossed'
  BY DEF ResponsesNotCrossed
<1>6. DeviceHeldWhileUsed'
  BY DEF DeviceHeldWhileUsed
<1>7. CloseReleases'
  BY DEF CloseReleases
<1> QED
  BY <1>1, <1>2, <1>3, <1>4, <1>5, <1>6, <1>7

LEMMA CheckRequestKeepsIInv ==
  ASSUME IInv, NEW g \in Goroutines, CheckRequest(g)
  PROVE  IInv'
<1> USE TpmSignerAssumption
       DEF IInv, CheckRequest, Goto, Decide, At, signerVars, devVars
<1>1. TypeOK'
  BY DEF TypeOK, Locations
<1>2. CallInv'
  BY DEF TypeOK, CallInv, Signing, Closing, Decided
<1>3. MutexInv'
  BY DEF TypeOK, MutexInv, Holding
<1>4. DeviceInv'
  BY DEF TypeOK, DeviceInv
<1>5. ResponsesNotCrossed'
  BY DEF TypeOK, ResponsesNotCrossed
<1>6. DeviceHeldWhileUsed'
  BY DEF TypeOK, DeviceHeldWhileUsed
<1>7. CloseReleases'
  BY DEF TypeOK, CallInv, CloseReleases
<1> QED
  BY <1>1, <1>2, <1>3, <1>4, <1>5, <1>6, <1>7

LEMMA LockKeepsIInv ==
  ASSUME IInv, NEW g \in Goroutines, Lock(g)
  PROVE  IInv'
<1> USE TpmSignerAssumption DEF IInv, Lock, Goto, At, signerVars, devVars
<1>1. TypeOK'
  BY DEF TypeOK, Locations
<1>2. CallInv'
  BY DEF CallInv, Signing, Closing, Decided
<1>3. MutexInv'
  BY DEF TypeOK, MutexInv, Holding
<1>4. DeviceInv'
  BY DEF DeviceInv
<1>5. ResponsesNotCrossed'
  BY DEF ResponsesNotCrossed
<1>6. DeviceHeldWhileUsed'
  BY DEF DeviceHeldWhileUsed
<1>7. CloseReleases'
  BY DEF CloseReleases
<1> QED
  BY <1>1, <1>2, <1>3, <1>4, <1>5, <1>6, <1>7

LEMMA CheckClosedKeepsIInv ==
  ASSUME IInv, NEW g \in Goroutines, CheckClosed(g)
  PROVE  IInv'
<1> USE TpmSignerAssumption
       DEF IInv, CheckClosed, Goto, Decide, At, signerVars, devVars
<1>1. TypeOK'
  BY DEF TypeOK, Locations
<1>2. CallInv'
  BY DEF TypeOK, CallInv, Signing, Closing, Decided
<1>3. MutexInv'
  BY DEF TypeOK, MutexInv, Holding
<1>4. DeviceInv'
  BY DEF TypeOK, DeviceInv
<1>5. ResponsesNotCrossed'
  BY DEF TypeOK, ResponsesNotCrossed
<1>6. DeviceHeldWhileUsed'
  BY DEF TypeOK, MutexInv, Holding, DeviceInv, DeviceHeldWhileUsed
<1>7. CloseReleases'
  BY DEF TypeOK, MutexInv, Holding, DeviceInv, CloseReleases, ResponsesNotCrossed
<1> QED
  BY <1>1, <1>2, <1>3, <1>4, <1>5, <1>6, <1>7

LEMMA SendSignKeepsIInv ==
  ASSUME IInv, NEW g \in Goroutines, SendSign(g)
  PROVE  IInv'
<1> USE TpmSignerAssumption
       DEF IInv, SendSign, Goto, Decide, At, signerVars, devVars
<1>1. TypeOK'
  BY DEF TypeOK, Locations, Messages, Message, Commands
<1>2. CallInv'
  BY DEF TypeOK, CallInv, Signing, Closing, Decided
<1>3. MutexInv'
  BY DEF TypeOK, MutexInv, Holding
<1>4. DeviceInv'
  BY DEF TypeOK, MutexInv, Holding, DeviceInv
<1>5. ResponsesNotCrossed'
  BY DEF TypeOK, MutexInv, Holding, ResponsesNotCrossed
<1>6. DeviceHeldWhileUsed'
  BY DEF DeviceHeldWhileUsed
<1>7. CloseReleases'
  BY DEF TypeOK, CallInv, Signing, CloseReleases
<1> QED
  BY <1>1, <1>2, <1>3, <1>4, <1>5, <1>6, <1>7

LEMMA ReceiveSignatureKeepsIInv ==
  ASSUME IInv, NEW g \in Goroutines, ReceiveSignature(g)
  PROVE  IInv'
<1> USE TpmSignerAssumption
       DEF IInv, ReceiveSignature, ReadResponse, Decide, At, signerVars, devVars
<1>1. TypeOK'
  BY DEF TypeOK, Locations, Messages, Message, Quiet
<1>2. CallInv'
  BY DEF TypeOK, CallInv, Signing, Closing, Decided, ResponsesNotCrossed, Message
<1>3. MutexInv'
  BY DEF TypeOK, MutexInv, Holding
<1>4. DeviceInv'
  BY DEF TypeOK, DeviceInv
<1>5. ResponsesNotCrossed'
  BY DEF TypeOK, MutexInv, Holding, ResponsesNotCrossed, Quiet, Message, Commands, Responses
<1>6. DeviceHeldWhileUsed'
  BY DEF DeviceHeldWhileUsed
<1>7. CloseReleases'
  BY DEF TypeOK, CallInv, Signing, CloseReleases
<1> QED
  BY <1>1, <1>2, <1>3, <1>4, <1>5, <1>6, <1>7

LEMMA SendFlushKeepsIInv ==
  ASSUME IInv, NEW g \in Goroutines, SendFlush(g)
  PROVE  IInv'
<1> USE TpmSignerAssumption DEF IInv, SendFlush, Goto, At, signerVars, devVars
<1>1. TypeOK'
  <2>1. Message("flush", NoRequest) \in Messages
    BY DEF Messages, Message, Commands
  <2>2. wire' \in Messages
    BY <2>1 DEF TypeOK
  <2>3. flushLost' \in BOOLEAN
    BY DEF TypeOK
  <2> QED
    BY <2>2, <2>3 DEF TypeOK, Locations
<1>2. CallInv'
  BY DEF TypeOK, CallInv, Signing, Closing, Decided
<1>3. MutexInv'
  BY DEF TypeOK, MutexInv, Holding
<1>4. DeviceInv'
  BY DEF TypeOK, DeviceInv, Message, Responses
<1>5. ResponsesNotCrossed'
  BY DEF TypeOK, MutexInv, Holding, ResponsesNotCrossed
<1>6. DeviceHeldWhileUsed'
  BY DEF DeviceHeldWhileUsed
<1>7. CloseReleases'
  BY DEF TypeOK, CloseReleases
<1> QED
  BY <1>1, <1>2, <1>3, <1>4, <1>5, <1>6, <1>7

LEMMA ReceiveFlushedKeepsIInv ==
  ASSUME IInv, NEW g \in Goroutines, ReceiveFlushed(g)
  PROVE  IInv'
<1> USE TpmSignerAssumption DEF IInv, ReceiveFlushed, ReadResponse, Goto, At, signerVars, devVars
<1>1. TypeOK'
  BY DEF TypeOK, Locations, Messages, Message, Quiet
<1>2. CallInv'
  BY DEF CallInv, Signing, Closing, Decided
<1>3. MutexInv'
  BY DEF MutexInv, Holding
<1>4. DeviceInv'
  BY DEF DeviceInv
<1>5. ResponsesNotCrossed'
  BY DEF TypeOK, MutexInv, Holding, ResponsesNotCrossed, Quiet, Message, Commands, Responses
<1>6. DeviceHeldWhileUsed'
  BY DEF DeviceHeldWhileUsed
<1>7. CloseReleases'
  BY DEF CloseReleases
<1> QED
  BY <1>1, <1>2, <1>3, <1>4, <1>5, <1>6, <1>7

LEMMA CloseDeviceKeepsIInv ==
  ASSUME IInv, NEW g \in Goroutines, CloseDevice(g)
  PROVE  IInv'
<1> USE TpmSignerAssumption DEF IInv, CloseDevice, Decide, At, signerVars, devVars
<1>1. TypeOK'
  BY DEF TypeOK, Locations, Messages, Message, Quiet
<1>2. CallInv'
  BY DEF TypeOK, CallInv, Signing, Closing, Decided
<1>3. MutexInv'
  BY DEF MutexInv, Holding
<1>4. DeviceInv'
  BY DEF DeviceInv
<1>5. ResponsesNotCrossed'
  BY DEF MutexInv, Holding, ResponsesNotCrossed, Quiet, Message, Commands
<1>6. DeviceHeldWhileUsed'
  BY DEF TypeOK, MutexInv, Holding, DeviceHeldWhileUsed
<1>7. CloseReleases'
  BY DEF DeviceInv, CloseReleases
<1> QED
  BY <1>1, <1>2, <1>3, <1>4, <1>5, <1>6, <1>7

LEMMA UnlockKeepsIInv ==
  ASSUME IInv, NEW g \in Goroutines, Unlock(g)
  PROVE  IInv'
<1> USE TpmSignerAssumption DEF IInv, Unlock, Goto, At, signerVars, devVars
<1>1. TypeOK'
  BY DEF TypeOK, Locations
<1>2. CallInv'
  BY DEF CallInv, Signing, Closing, Decided
<1>3. MutexInv'
  BY DEF TypeOK, MutexInv, Holding
<1>4. DeviceInv'
  BY DEF DeviceInv
<1>5. ResponsesNotCrossed'
  BY DEF ResponsesNotCrossed
<1>6. DeviceHeldWhileUsed'
  BY DEF DeviceHeldWhileUsed
<1>7. CloseReleases'
  BY DEF CloseReleases
<1> QED
  BY <1>1, <1>2, <1>3, <1>4, <1>5, <1>6, <1>7

LEMMA ReturnKeepsIInv ==
  ASSUME IInv, NEW g \in Goroutines, Return(g)
  PROVE  IInv'
<1> USE TpmSignerAssumption DEF IInv, Return, At, signerVars, devVars
<1>1. TypeOK'
  BY DEF TypeOK, Locations
<1>2. CallInv'
  BY DEF TypeOK, CallInv, Signing, Closing, Decided
<1>3. MutexInv'
  BY DEF MutexInv, Holding
<1>4. DeviceInv'
  BY DEF DeviceInv
<1>5. ResponsesNotCrossed'
  BY DEF ResponsesNotCrossed
<1>6. DeviceHeldWhileUsed'
  BY DEF DeviceHeldWhileUsed
<1>7. CloseReleases'
  BY DEF CloseReleases
<1> QED
  BY <1>1, <1>2, <1>3, <1>4, <1>5, <1>6, <1>7

LEMMA ExecuteKeepsIInv ==
  ASSUME IInv, Execute
  PROVE  IInv'
<1> USE TpmSignerAssumption DEF IInv, Execute, At, callVars, signerVars
<1>1. TypeOK'
  BY DEF TypeOK, Messages, Responses
<1>2. CallInv' /\ MutexInv'
  BY DEF CallInv, MutexInv
<1>3. PICK g \in Goroutines : pc[g] \in {"receive", "await"} /\ mu = g
  BY DEF ResponsesNotCrossed, MutexInv, Holding, Quiet, Message, Commands
<1>4. /\ pc[g] = "receive" => wire = Message("sign", arg[g])
      /\ pc[g] = "await" => wire = Message("flush", NoRequest)
  BY <1>3 DEF ResponsesNotCrossed, Message, Commands
<1>5. DeviceInv'
  <2>1. tpm = "open"
    BY <1>3 DEF DeviceInv, Quiet, Message, Commands, TypeOK
  <2> QED
    BY <1>3, <1>4, <2>1 DEF DeviceInv, MutexInv, Holding, Message
<1>6. ResponsesNotCrossed'
  BY <1>3, <1>4 DEF ResponsesNotCrossed, Message
<1>7. DeviceHeldWhileUsed'
  BY <1>3, <1>4 DEF DeviceHeldWhileUsed, MutexInv, Holding, Message
<1>8. CloseReleases'
  BY <1>3, <1>4 DEF CloseReleases, DeviceHeldWhileUsed
<1> QED
  BY <1>1, <1>2, <1>5, <1>6, <1>7, <1>8

LEMMA StepKeepsIInv == IInv /\ [Next]_vars => IInv'
<1> SUFFICES ASSUME IInv, [Next]_vars PROVE IInv'
  OBVIOUS
<1>1. ASSUME NEW g \in Goroutines, Start(g) \/ Lock(g) \/ Step(g) PROVE IInv'
  BY <1>1, CallSignKeepsIInv, CallCloseKeepsIInv, CheckRequestKeepsIInv,
     LockKeepsIInv, CheckClosedKeepsIInv, SendSignKeepsIInv,
     ReceiveSignatureKeepsIInv, SendFlushKeepsIInv, ReceiveFlushedKeepsIInv,
     CloseDeviceKeepsIInv, UnlockKeepsIInv, ReturnKeepsIInv
     DEF Start, Step
<1>2. CASE Execute
  BY <1>2, ExecuteKeepsIInv
<1>3. CASE UNCHANGED vars
  <2> USE <1>3 DEF IInv, vars, callVars, signerVars, devVars
  <2>1. TypeOK' /\ CallInv' /\ MutexInv' /\ DeviceInv'
    BY DEF TypeOK, CallInv, MutexInv, DeviceInv
  <2>2. ResponsesNotCrossed' /\ DeviceHeldWhileUsed' /\ CloseReleases'
    BY DEF ResponsesNotCrossed, DeviceHeldWhileUsed, CloseReleases, At
  <2> QED
    BY <2>1, <2>2
<1> QED
  BY <1>1, <1>2, <1>3 DEF Next

(***************************************************************************)
(* The invariant holds in every reachable state.                           *)
(***************************************************************************)
THEOREM Invariance == Spec => []IInv
<1>1. Init => IInv
  BY InitIInv
<1>2. IInv /\ [Next]_vars => IInv'
  BY StepKeepsIInv
<1> QED
  BY <1>1, <1>2, PTL DEF Spec

-----------------------------------------------------------------------------
(***************************************************************************)
(* The properties of TpmSigner.                                            *)
(***************************************************************************)

\* Every variable of the model keeps its type.
THEOREM TypeCorrect == Spec => []TypeOK
<1>1. IInv => TypeOK
  BY DEF IInv
<1> QED
  BY <1>1, Invariance, PTL

\* The commands and responses of concurrent Signs and Closes are never mixed up
\* on the device, however many goroutines share the signer.
THEOREM NoCrossedResponses == Spec => []ResponsesNotCrossed
<1>1. IInv => ResponsesNotCrossed
  BY DEF IInv
<1> QED
  BY <1>1, Invariance, PTL

\* No Close, racing with a Sign or with another Close, takes the device or the
\* key from a goroutine that uses them.
THEOREM NoUseAfterClose == Spec => []DeviceHeldWhileUsed
<1>1. IInv => DeviceHeldWhileUsed
  BY DEF IInv
<1> QED
  BY <1>1, Invariance, PTL

\* A Close that returns, first or repeated, successful or not, leaves the device
\* closed; the key stays loaded only on a raw device and only if the flush was
\* not sent or was refused.
THEOREM CloseIsComplete == Spec => []CloseReleases
<1>1. IInv => CloseReleases
  BY DEF IInv
<1> QED
  BY <1>1, Invariance, PTL

-----------------------------------------------------------------------------
(***************************************************************************)
(* TpmSigner implements Signer.                                            *)
(***************************************************************************)
LEMMA AtomicInit == Init => Atomic!Init
BY DEF Init, Atomic!Init

LEMMA AtomicStart ==
  ASSUME IInv, NEW g \in Goroutines, Start(g)
  PROVE  Atomic!Next
<1> USE DEF IInv, TypeOK, CallInv, Start, Goto, At, signerVars
<1>1. ASSUME CallSign(g) PROVE Atomic!CallSign(g)
  BY <1>1 DEF CallSign, Atomic!CallSign
<1>2. ASSUME CallClose(g) PROVE Atomic!CallClose(g)
  BY <1>2 DEF CallClose, Atomic!CallClose
<1> QED
  BY <1>1, <1>2 DEF Atomic!Next

\* A decision of the model is a decision of the atomic signer.
LEMMA AtomicStep ==
  ASSUME IInv, NEW g \in Goroutines, Lock(g) \/ Step(g)
  PROVE  Atomic!Next \/ UNCHANGED Atomic!vars
<1> USE DEF IInv, At, Goto, Decide, signerVars
<1>1. CASE Lock(g)
  BY <1>1 DEF Lock, Atomic!vars
<1>2. CASE CheckRequest(g)
  <2>1. CASE Goto(g, "lock")
    BY <1>2, <2>1 DEF CheckRequest, Atomic!vars
  <2>2. CASE Decide(g, "done", "error")
    <3>1. Atomic!Fail(g)
      BY <1>2, <2>2
         DEF CheckRequest, CallInv, Signing, Decided, Atomic!Fail, Atomic!Pending,
             Atomic!Decide
    <3> QED
      BY <3>1 DEF Atomic!Next
  <2> QED
    BY <1>2, <2>1, <2>2 DEF CheckRequest
<1>3. CASE CheckClosed(g)
  <2>1. op[g] \in {"sign", "close"} /\ res[g] = "none"
    BY <1>3 DEF CheckClosed, TypeOK, CallInv, Decided
  <2>2. CASE tpm = "open"
    BY <1>3, <2>2 DEF CheckClosed, Atomic!vars
  <2>3. CASE tpm = "nil" /\ op[g] = "sign"
    <3>1. Atomic!Refuse(g)
      BY <1>3, <2>1, <2>3
         DEF CheckClosed, Atomic!Refuse, Atomic!Pending, Atomic!Decide
    <3> QED
      BY <3>1 DEF Atomic!Next
  <2>4. CASE tpm = "nil" /\ op[g] = "close"
    <3>1. Atomic!Close(g)
      BY <1>3, <2>1, <2>4
         DEF CheckClosed, Atomic!Close, Atomic!Pending, Atomic!Decide
    <3> QED
      BY <3>1 DEF Atomic!Next
  <2> QED
    BY <2>1, <2>2, <2>3, <2>4 DEF TypeOK
<1>4. CASE SendSign(g)
  <2>1. CASE Goto(g, "receive")
    BY <1>4, <2>1 DEF SendSign, Atomic!vars
  <2>2. CASE Decide(g, "unlock", "error")
    <3>1. Atomic!Fail(g)
      BY <1>4, <2>2
         DEF SendSign, CallInv, Signing, Decided, Atomic!Fail, Atomic!Pending,
             Atomic!Decide
    <3> QED
      BY <3>1 DEF Atomic!Next
  <2> QED
    BY <1>4, <2>1, <2>2 DEF SendSign
<1>5. CASE ReceiveSignature(g)
  <2>1. op[g] = "sign" /\ res[g] = "none" /\ tpm = "open"
    BY <1>5 DEF ReceiveSignature, CallInv, Signing, Decided, DeviceHeldWhileUsed
  <2>2. wire.req = arg[g]
    BY <1>5 DEF ReceiveSignature, ResponsesNotCrossed, Message
  <2>3. CASE sig' = [sig EXCEPT ![g] = wire.req] /\ Decide(g, "unlock", "ok")
    <3>1. Atomic!Sign(g)
      BY <1>5, <2>1, <2>2, <2>3
         DEF ReceiveSignature, Atomic!Sign, Atomic!Pending, Atomic!Decide
    <3> QED
      BY <3>1 DEF Atomic!Next
  <2>4. CASE UNCHANGED sig /\ Decide(g, "unlock", "error")
    <3>1. Atomic!Fail(g)
      BY <1>5, <2>1, <2>4
         DEF ReceiveSignature, Atomic!Fail, Atomic!Pending, Atomic!Decide
    <3> QED
      BY <3>1 DEF Atomic!Next
  <2> QED
    BY <1>5, <2>3, <2>4 DEF ReceiveSignature
<1>6. CASE SendFlush(g) \/ ReceiveFlushed(g) \/ Unlock(g)
  BY <1>6 DEF SendFlush, ReceiveFlushed, Unlock, Atomic!vars
<1>7. CASE CloseDevice(g)
  <2>1. op[g] = "close" /\ res[g] = "none" /\ tpm = "open"
    BY <1>7 DEF CloseDevice, CallInv, Closing, Decided, DeviceHeldWhileUsed
  <2>2. Atomic!Close(g)
    BY <1>7, <2>1 DEF CloseDevice, Atomic!Close, Atomic!Pending, Atomic!Decide
  <2> QED
    BY <2>2 DEF Atomic!Next
<1>8. CASE Return(g)
  <2>1. Atomic!Return(g)
    BY <1>8 DEF Return, CallInv, Decided, Atomic!Return
  <2> QED
    BY <2>1 DEF Atomic!Next
<1> QED
  BY <1>1, <1>2, <1>3, <1>4, <1>5, <1>6, <1>7, <1>8 DEF Step

\* However its goroutines interleave, the signer behaves like an atomic one:
\* every signature is over its caller's own request, and none is made after a
\* Close.
THEOREM Refinement == Spec => ImplementsSigner
<1>1. ASSUME IInv, [Next]_vars PROVE [Atomic!Next]_(Atomic!vars)
  <2>1. ASSUME NEW g \in Goroutines, Start(g) \/ Lock(g) \/ Step(g)
        PROVE  Atomic!Next \/ UNCHANGED Atomic!vars
    BY <1>1, <2>1, AtomicStart, AtomicStep
  <2>2. CASE Execute \/ UNCHANGED vars
    BY <2>2 DEF Execute, vars, callVars, signerVars, Atomic!vars
  <2> QED
    BY <1>1, <2>1, <2>2 DEF Next
<1> QED
  BY <1>1, AtomicInit, Invariance, PTL DEF Spec, ImplementsSigner, Atomic!Spec

-----------------------------------------------------------------------------
(***************************************************************************)
(* Why calls return: nobody waits in vain, and every step that a call      *)
(* takes, or the TPM takes for it, brings it nearer to its return.         *)
(***************************************************************************)

Asked    == wire.kind \in Commands
Answered == wire.kind \in Responses

\* Who waits for the mutex waits for a goroutine on its way to Unlock, and who
\* waits for the device has a response there or a command that the TPM will
\* execute.
NobodyWaitsInVain ==
  /\ \A g \in Goroutines : At(g, "lock") => mu = NoHolder \/ pc[mu] \in Holding
  /\ \A g \in Goroutines :
        pc[g] \in {"receive", "await"} => mu = g /\ (Asked \/ Answered)

\* A bound on the steps that a call at each location still has before it; the TPM
\* may have one to do for it too.
Ahead == [idle |-> 0, done |-> 1, unlock |-> 2, close |-> 3, receive |-> 3, await |-> 4,
          send |-> 5, flush |-> 6, nil |-> 7, lock |-> 8, check |-> 9]

Awaited(g) == pc[g] \in {"receive", "await"} /\ Asked

StepsLeft(g) == Ahead[pc[g]] + (IF Awaited(g) THEN 1 ELSE 0)

\* No step of another goroutine takes a call further away from its return.
Descends ==
  \A g \in Goroutines :
     pc[g] # "idle" =>
        /\ StepsLeft(g) \in 1 .. 9
        /\ StepsLeft(g)' \in 0 .. StepsLeft(g)
        /\ Lock(g) \/ Step(g) \/ (Execute /\ Awaited(g)) => StepsLeft(g)' < StepsLeft(g)

LEMMA AheadIs ==
  /\ Ahead["idle"] = 0 /\ Ahead["done"] = 1 /\ Ahead["unlock"] = 2 /\ Ahead["close"] = 3
  /\ Ahead["receive"] = 3 /\ Ahead["await"] = 4 /\ Ahead["send"] = 5 /\ Ahead["flush"] = 6
  /\ Ahead["nil"] = 7 /\ Ahead["lock"] = 8 /\ Ahead["check"] = 9
BY DEF Ahead

LEMMA OwnDescends ==
  ASSUME IInv, IInv', NEW g \in Goroutines, Lock(g) \/ Step(g)
  PROVE  StepsLeft(g) \in 1 .. 9 /\ StepsLeft(g)' \in 0 .. StepsLeft(g) - 1
<1> USE AheadIs DEF At, Goto, Decide, StepsLeft, Awaited, Asked, IInv, TypeOK
<1>1. CASE Lock(g) \/ CheckRequest(g) \/ CheckClosed(g) \/ Unlock(g) \/ Return(g)
  <2>1. UNCHANGED wire
    BY <1>1 DEF Lock, CheckRequest, CheckClosed, Unlock, Return, devVars
  <2> QED
    BY <1>1, <2>1 DEF Lock, CheckRequest, CheckClosed, Unlock, Return
<1>2. CASE SendSign(g) \/ SendFlush(g)
  BY <1>2 DEF SendSign, SendFlush
<1>3. CASE ReceiveSignature(g) \/ ReceiveFlushed(g) \/ CloseDevice(g)
  <2>1. Commands \intersect Responses = {}
    BY DEF Commands, Responses
  <2> QED
    BY <1>3, <2>1 DEF ReceiveSignature, ReceiveFlushed, ReadResponse, CloseDevice
<1> QED
  BY <1>1, <1>2, <1>3 DEF Step

\* No call waits for ever for a mutex that nobody will release or for a response
\* that nobody will send.
THEOREM NoVainWait == Spec => []NobodyWaitsInVain
<1>1. ASSUME IInv PROVE NobodyWaitsInVain
  <2>1. \A g \in Goroutines : At(g, "lock") => mu = NoHolder \/ pc[mu] \in Holding
    BY <1>1 DEF IInv, TypeOK, MutexInv
  <2>2. ASSUME NEW g \in Goroutines, pc[g] \in {"receive", "await"}
        PROVE  mu = g /\ (Asked \/ Answered)
    <3>1. mu = g
      BY <1>1, <2>2 DEF IInv, MutexInv, Holding
    <3>2. Asked \/ Answered
      BY <1>1, <2>2
      DEF IInv, ResponsesNotCrossed, At, Message, Asked, Answered, Commands, Responses
    <3> QED
      BY <3>1, <3>2
  <2> QED
    BY <2>1, <2>2 DEF NobodyWaitsInVain
<1> QED
  BY <1>1, Invariance, PTL

\* A call makes at most nine steps, the TPM's for it included, whatever the other
\* goroutines do: none of them writes to the device while it waits.
THEOREM CallsDescend == Spec => [][Descends]_vars
<1>1. ASSUME IInv, IInv', Next PROVE Descends
  <2> SUFFICES ASSUME NEW g \in Goroutines, pc[g] # "idle"
               PROVE  /\ StepsLeft(g) \in 1 .. 9
                      /\ StepsLeft(g)' \in 0 .. StepsLeft(g)
                      /\ Lock(g) \/ Step(g) \/ (Execute /\ Awaited(g)) =>
                            StepsLeft(g)' < StepsLeft(g)
    BY DEF Descends
  <2>1. StepsLeft(g) \in 1 .. 9
    BY <1>1, AheadIs DEF StepsLeft, Awaited, IInv, TypeOK, Locations
  <2>2. CASE Lock(g) \/ Step(g)
    BY <1>1, <2>1, <2>2, OwnDescends
  <2>3. CASE Execute /\ ~(Lock(g) \/ Step(g))
    <3>1. Asked /\ ~Asked' /\ pc'[g] = pc[g]
      BY <1>1, <2>3 DEF Asked, Execute, callVars, IInv, TypeOK, Messages, Commands, Responses
    <3> QED
      BY <1>1, <2>1, <2>3, <3>1, AheadIs DEF StepsLeft, Awaited, IInv, TypeOK, Locations
  <2>4. ASSUME NEW h \in Goroutines \ {g}, Start(h) \/ Lock(h) \/ Step(h)
        PROVE  pc'[g] = pc[g] /\ StepsLeft(g)' = StepsLeft(g)
    <3>1. pc'[g] = pc[g]
      BY <1>1, <2>4
      DEF Start, Lock, Step, CallSign, CallClose, CheckRequest, CheckClosed, SendSign,
          ReceiveSignature, SendFlush, ReceiveFlushed, CloseDevice, Unlock, Return, At,
          Goto, Decide, IInv, TypeOK
    <3>2. pc[g] \in {"receive", "await"} => wire' = wire
      BY <1>1, <2>4
      DEF Start, Lock, Step, CallSign, CallClose, CheckRequest, CheckClosed, SendSign,
          ReceiveSignature, SendFlush, ReceiveFlushed, CloseDevice, Unlock, Return, At,
          Goto, Decide, devVars, IInv, MutexInv, Holding
    <3> QED
      BY <3>1, <3>2 DEF StepsLeft, Awaited, Asked
  <2>5. ~Start(g)
    BY DEF Start, CallSign, CallClose, At
  <2> QED
    BY <1>1, <2>1, <2>2, <2>3, <2>4, <2>5 DEF Next
<1>2. IInv /\ IInv' /\ [Next]_vars => [Descends]_vars
  BY <1>1
<1> QED
  BY <1>2, Invariance, PTL DEF Spec

=============================================================================
