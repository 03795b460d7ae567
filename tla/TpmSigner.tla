----------------------------- MODULE TpmSigner ------------------------------
(***************************************************************************)
(* The signer of the Linux backend (key_linux.go, type tpmSigner): Sign    *)
(* and Close called by any number of goroutines that share one open TPM    *)
(* device and one loaded key.  A command is a write to the device and a    *)
(* later read of the response; the device has room for one message, and a  *)
(* write replaces what is there, be it a response that a failed read has   *)
(* left.  The mutex mu is all that keeps the commands of two goroutines    *)
(* apart.                                                                  *)
(*                                                                         *)
(* DeviceFails says whether the TPM and the device may report errors, and  *)
(* ResourceManager whether the device is /dev/tpmrm0, which flushes the    *)
(* loaded key when it is closed.                                           *)
(***************************************************************************)

CONSTANTS Goroutines, NoHolder, Requests, Invalid, NoRequest,
          DeviceFails, ResourceManager

ASSUME TpmSignerAssumption ==
  /\ NoHolder \notin Goroutines
  /\ NoRequest \notin Requests
  /\ Invalid \subseteq Requests  \* those whose options or digest length Sign refuses
  /\ DeviceFails \in BOOLEAN
  /\ ResourceManager \in BOOLEAN

VARIABLES
  (*************************************************************************)
  (* The running call of each goroutine                                    *)
  (*************************************************************************)
  pc,       \* its next step
  op,       \* "sign", "close" or "none"
  arg,      \* the request of a Sign
  sig,      \* the request its signature is over
  res,      \* its result: "ok", "closed", "error" or "none"
  (*************************************************************************)
  (* The signer's fields                                                   *)
  (*************************************************************************)
  mu,       \* the goroutine that holds the mutex, or NoHolder
  tpm,      \* "open", or "nil" after Close
  handle,   \* "child", or "zero" after Close
  (*************************************************************************)
  (* The device                                                            *)
  (*************************************************************************)
  fd,       \* "open" or "closed"
  loaded,   \* whether the TPM holds the key
  wire,     \* the message in the device
  (*************************************************************************)
  (* History                                                               *)
  (*************************************************************************)
  flushLost \* whether a flush could not be sent, or the TPM refused one

callVars   == <<pc, op, arg, sig, res>>
signerVars == <<tpm, handle>>
devVars    == <<fd, loaded, wire, flushLost>>
vars       == <<callVars, mu, signerVars, devVars>>

Locations == {"idle", "check", "lock", "nil", "send", "receive",
              "flush", "await", "close", "unlock", "done"}

Commands  == {"sign", "flush"}
Responses == {"signature", "flushed", "failed"}
Messages  == [kind : Commands \union Responses \union {"none"}, req : Requests \union {NoRequest}]
Message(k, r) == [kind |-> k, req |-> r]
Quiet     == Message("none", NoRequest)

\* createKey and loadKey return a signer whose key is loaded and nobody uses.
Init ==
  /\ pc  = [g \in Goroutines |-> "idle"]
  /\ op  = [g \in Goroutines |-> "none"]
  /\ arg = [g \in Goroutines |-> NoRequest]
  /\ sig = [g \in Goroutines |-> NoRequest]
  /\ res = [g \in Goroutines |-> "none"]
  /\ mu = NoHolder
  /\ tpm = "open"
  /\ handle = "child"
  /\ fd = "open"
  /\ loaded = TRUE
  /\ wire = Quiet
  /\ flushLost = FALSE

At(g, l)   == pc[g] = l
Goto(g, l) == pc' = [pc EXCEPT ![g] = l] /\ UNCHANGED res
Decide(g, l, r) ==
  /\ pc' = [pc EXCEPT ![g] = l]
  /\ res' = [res EXCEPT ![g] = r]

CallSign(g) ==
  /\ At(g, "idle")
  /\ op' = [op EXCEPT ![g] = "sign"]
  /\ \E r \in Requests : arg' = [arg EXCEPT ![g] = r]
  /\ Goto(g, "check")
  /\ UNCHANGED <<sig, mu, signerVars, devVars>>

CallClose(g) ==
  /\ At(g, "idle")
  /\ op' = [op EXCEPT ![g] = "close"]
  /\ Goto(g, "lock")
  /\ UNCHANGED <<arg, sig, mu, signerVars, devVars>>

(***************************************************************************)
(* RSA-PSS options, an unsupported hash and a digest of the wrong length   *)
(* are refused before the mutex is taken.                                  *)
(***************************************************************************)
CheckRequest(g) ==
  /\ At(g, "check")
  /\ \/ arg[g] \in Invalid /\ Decide(g, "done", "error")
     \/ arg[g] \notin Invalid /\ Goto(g, "lock")
  /\ UNCHANGED <<op, arg, sig, mu, signerVars, devVars>>

MutLockSignUnlocked(g) ==
  /\ At(g, "lock")
  /\ op[g] = "close" => mu = NoHolder
  /\ mu' = g
  /\ Goto(g, "nil")
  /\ UNCHANGED <<op, arg, sig, signerVars, devVars>>

MutLockCloseUnlocked(g) ==
  /\ At(g, "lock")
  /\ op[g] = "sign" => mu = NoHolder
  /\ mu' = g
  /\ Goto(g, "nil")
  /\ UNCHANGED <<op, arg, sig, signerVars, devVars>>

Lock(g) ==
  /\ At(g, "lock")
  /\ mu = NoHolder
  /\ mu' = g
  /\ Goto(g, "nil")
  /\ UNCHANGED <<op, arg, sig, signerVars, devVars>>

MutCheckClosedNever(g) ==
  /\ At(g, "nil")
  /\ Goto(g, IF op[g] = "sign" THEN "send" ELSE "flush")
  /\ UNCHANGED <<op, arg, sig, mu, signerVars, devVars>>

MutCheckClosedKeepsLock(g) ==
  /\ At(g, "nil")
  /\ \/ /\ tpm = "nil"
        /\ Decide(g, "done", IF op[g] = "sign" THEN "closed" ELSE "ok")
     \/ /\ tpm = "open"
        /\ Goto(g, IF op[g] = "sign" THEN "send" ELSE "flush")
  /\ UNCHANGED <<op, arg, sig, mu, signerVars, devVars>>

CheckClosed(g) ==
  /\ At(g, "nil")
  /\ \/ /\ tpm = "nil"
        /\ Decide(g, "unlock", IF op[g] = "sign" THEN "closed" ELSE "ok")
     \/ /\ tpm = "open"
        /\ Goto(g, IF op[g] = "sign" THEN "send" ELSE "flush")
  /\ UNCHANGED <<op, arg, sig, mu, signerVars, devVars>>

(***************************************************************************)
(* sign.Execute: write the command, read the response, take the signature  *)
(* out of it.  Decoding the response or encoding the signature may fail.   *)
(***************************************************************************)
SendSign(g) ==
  /\ At(g, "send")
  /\ \/ /\ fd = "open"
        /\ wire' = Message("sign", arg[g])
        /\ Goto(g, "receive")
     \/ /\ DeviceFails \/ fd = "closed"
        /\ Decide(g, "unlock", "error")
        /\ UNCHANGED wire
  /\ UNCHANGED <<op, arg, sig, mu, signerVars, fd, loaded, flushLost>>

\* A read takes the response out of the device, unless it fails.
ReadResponse == wire' = Quiet \/ (DeviceFails /\ UNCHANGED wire)

MutReceiveSignatureUndecoded(g) ==
  /\ At(g, "receive")
  /\ wire.kind \in Responses
  /\ wire' = Quiet
  /\ sig' = [sig EXCEPT ![g] = wire]
  /\ Decide(g, "unlock", IF wire.kind = "signature" THEN "ok" ELSE "error")
  /\ UNCHANGED <<op, arg, mu, signerVars, fd, loaded, flushLost>>

ReceiveSignature(g) ==
  /\ At(g, "receive")
  /\ wire.kind \in Responses
  /\ \/ /\ wire.kind = "signature"
        /\ wire' = Quiet
        /\ sig' = [sig EXCEPT ![g] = wire.req]
        /\ Decide(g, "unlock", "ok")
     \/ /\ wire.kind # "signature" \/ DeviceFails
        /\ ReadResponse
        /\ Decide(g, "unlock", "error")
        /\ UNCHANGED sig
  /\ UNCHANGED <<op, arg, mu, signerVars, fd, loaded, flushLost>>

(***************************************************************************)
(* Close: flush the key, whose error is ignored, and close the device.     *)
(* The fields are cleared whether or not the device's Close succeeds.      *)
(***************************************************************************)
MutSendFlushOmitted(g) ==
  /\ At(g, "flush")
  /\ Goto(g, "close")
  /\ UNCHANGED <<op, arg, sig, mu, signerVars, devVars>>

SendFlush(g) ==
  /\ At(g, "flush")
  /\ \/ /\ handle = "child"
        /\ fd = "open"
        /\ wire' = Message("flush", NoRequest)
        /\ Goto(g, "await")
        /\ UNCHANGED flushLost
     \/ /\ DeviceFails \/ handle = "zero" \/ fd = "closed"
        /\ Goto(g, "close")
        /\ flushLost' = TRUE
        /\ UNCHANGED wire
  /\ UNCHANGED <<op, arg, sig, mu, signerVars, fd, loaded>>

ReceiveFlushed(g) ==
  /\ At(g, "await")
  /\ wire.kind \in Responses
  /\ ReadResponse
  /\ Goto(g, "close")
  /\ UNCHANGED <<op, arg, sig, mu, signerVars, fd, loaded, flushLost>>

CloseDevice(g) ==
  /\ At(g, "close")
  /\ handle' = "zero"
  /\ tpm' = "nil"
  /\ fd' = "closed"
  /\ loaded' = (loaded /\ ~ResourceManager)
  /\ wire' = Quiet
  /\ \E r \in IF DeviceFails THEN {"ok", "error"} ELSE {"ok"} : Decide(g, "unlock", r)
  /\ UNCHANGED <<op, arg, sig, mu, flushLost>>

Unlock(g) ==
  /\ At(g, "unlock")
  /\ mu' = NoHolder
  /\ Goto(g, "done")
  /\ UNCHANGED <<op, arg, sig, signerVars, devVars>>

Return(g) ==
  /\ At(g, "done")
  /\ pc'  = [pc  EXCEPT ![g] = "idle"]
  /\ op'  = [op  EXCEPT ![g] = "none"]
  /\ arg' = [arg EXCEPT ![g] = NoRequest]
  /\ sig' = [sig EXCEPT ![g] = NoRequest]
  /\ res' = [res EXCEPT ![g] = "none"]
  /\ UNCHANGED <<mu, signerVars, devVars>>

(***************************************************************************)
(* The TPM executes the command in the device and leaves its response.     *)
(***************************************************************************)
Execute ==
  /\ wire.kind \in Commands
  /\ \/ /\ wire.kind = "sign"
        /\ loaded
        /\ wire' = [wire EXCEPT !.kind = "signature"]
        /\ UNCHANGED <<loaded, flushLost>>
     \/ /\ wire.kind = "flush"
        /\ loaded
        /\ wire' = [wire EXCEPT !.kind = "flushed"]
        /\ loaded' = FALSE
        /\ UNCHANGED flushLost
     \/ /\ DeviceFails \/ ~loaded
        /\ wire' = [wire EXCEPT !.kind = "failed"]
        /\ flushLost' = (flushLost \/ wire.kind = "flush")
        /\ UNCHANGED loaded
  /\ UNCHANGED <<callVars, mu, signerVars, fd>>

Start(g) == CallSign(g) \/ CallClose(g)

Step(g) ==
  \/ CheckRequest(g) \/ CheckClosed(g)
  \/ SendSign(g) \/ ReceiveSignature(g)
  \/ SendFlush(g) \/ ReceiveFlushed(g) \/ CloseDevice(g)
  \/ Unlock(g) \/ Return(g)

Next ==
  \/ \E g \in Goroutines : Start(g) \/ Lock(g) \/ Step(g)
  \/ Execute

Spec == Init /\ [][Next]_vars

(***************************************************************************)
(* Goroutines that can go on do, sync.Mutex does not starve a waiter (it   *)
(* hands itself over to one that has waited for a millisecond), and the    *)
(* TPM answers.                                                            *)
(***************************************************************************)
FairSpec ==
  /\ Spec
  /\ \A g \in Goroutines : WF_vars(Step(g)) /\ SF_vars(Lock(g))
  /\ WF_vars(Execute)

-----------------------------------------------------------------------------
(***************************************************************************)
(* Correctness                                                             *)
(***************************************************************************)

\* Every variable has its type.
TypeOK ==
  /\ pc  \in [Goroutines -> Locations]
  /\ op  \in [Goroutines -> {"none", "sign", "close"}]
  /\ arg \in [Goroutines -> Requests \union {NoRequest}]
  /\ sig \in [Goroutines -> Requests \union {NoRequest}]
  /\ res \in [Goroutines -> {"none", "ok", "closed", "error"}]
  /\ mu \in Goroutines \union {NoHolder}
  /\ tpm \in {"open", "nil"}
  /\ handle \in {"child", "zero"}
  /\ fd \in {"open", "closed"}
  /\ loaded \in BOOLEAN
  /\ wire \in Messages
  /\ flushLost \in BOOLEAN

\* "Concurrent callers cannot interleave command/response pairs on the device"
\* (key_linux.go:61-62): whoever waits for a response waits for the response to
\* its own command, never for one that was left by somebody else, and no command
\* is in the device that nobody waits for.
ResponsesNotCrossed ==
  /\ \A g \in Goroutines :
        /\ At(g, "receive") =>
              wire \in {Message(k, arg[g]) : k \in {"sign", "signature", "failed"}}
        /\ At(g, "await") =>
              wire \in {Message(k, NoRequest) : k \in {"flush", "flushed", "failed"}}
  /\ wire.kind \in Commands => \E g \in Goroutines : pc[g] \in {"receive", "await"}

\* Close is safe concurrently with Sign and with itself (key_linux.go:284-285):
\* while a goroutine is between the nil check and the last use of the device,
\* nobody closes it, and nobody but the Close that flushes it loses the key.
DeviceHeldWhileUsed ==
  \A g \in Goroutines :
     /\ pc[g] \in {"send", "receive", "flush", "await", "close"} =>
           fd = "open" /\ tpm = "open" /\ handle = "child"
     /\ pc[g] \in {"send", "receive", "flush"} => loaded

\* When a Close returns, with an error or without, the first or a later one, the
\* device is closed and no message is in it.  On a raw device the TPM still holds
\* the key only if the flush could not be sent or the TPM refused it, not when
\* merely its response was lost; with the resource manager it never does.
CloseReleases ==
  \A g \in Goroutines :
     op[g] = "close" /\ pc[g] \in {"unlock", "done"} =>
        /\ tpm = "nil"
        /\ fd = "closed"
        /\ wire = Quiet
        /\ loaded => flushLost /\ ~ResourceManager

\* No goroutine waits for the mutex or for the device for ever.
EveryCallReturns ==
  \A g \in Goroutines : pc[g] # "idle" ~> pc[g] = "idle"

(***************************************************************************)
(* The signer implements Signer: a Sign takes effect when it reads its     *)
(* response, a Close when it clears tpm.                                   *)
(***************************************************************************)
Atomic == INSTANCE Signer WITH closed <- tpm = "nil"

ImplementsSigner == Atomic!Spec

=============================================================================
