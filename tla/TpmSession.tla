----------------------------- MODULE TpmSession -----------------------------
(***************************************************************************)
(* How createKey, loadKey and the signer's Close of the Linux backend      *)
(* (key_linux.go) use the TPM: a session opens the device, derives the     *)
(* parent, makes or loads the child, and hands the device and the child to *)
(* the signer, or gives everything back through its deferred calls.  One   *)
(* action per TPM command, system call or deferred call.                   *)
(*                                                                         *)
(* The device is /dev/tpmrm0: any number of sessions open it, each has     *)
(* transient handles of its own, and closing it flushes them.  For the     *)
(* sessions in Raw it is one that KP_TPM_DEVICE names: one of them has it  *)
(* open at a time, the handles are those of the TPM itself, and closing it *)
(* flushes nothing.                                                        *)
(*                                                                         *)
(* Faults:  "command"   a command of createKey or loadKey fails, or a step *)
(*                      between two commands does (writeBlob, eccPublicKey)*)
(*          "response"  the TPM loads an object, and the response is lost  *)
(*                      or cannot be decoded: Execute returns an error and *)
(*                      no handle                                          *)
(*          "flush"     a FlushContext fails; flush ignores the error      *)
(*          "exit"      the process ends with the session in any state: it *)
(*                      is killed, or main calls log.Fatalf                *)
(***************************************************************************)
EXTENDS FiniteSets, Naturals

CONSTANTS Sessions, Raw, Handles, Zero, TheTPM, Faults

ASSUME TpmSessionAssumption ==
  /\ Raw \subseteq Sessions
  /\ Zero \notin Handles  \* the handle of an object that was never loaded
  /\ TheTPM \notin Sessions
  /\ Faults \subseteq {"command", "response", "flush", "exit"}

VARIABLES
  pc,       \* pc[s]: the next step of the session
  op,       \* op[s]: "create", "load", "close" or "none"
  success,  \* success[s]: the variable its deferred call tests
  fd,       \* fd[s]: whether its device is open
  parent,   \* parent[s]: the handle of the primary key, or Zero
  child,    \* child[s]: childHandle, later the signer's handle, or Zero
  loaded,   \* loaded[x]: the handles in use in x, a session or TheTPM
  lost      \* lost[x]: those whose flush failed, whose process has ended, or
            \* that no process was told of

spaceVars == <<loaded, lost>>
vars      == <<pc, op, success, fd, parent, child, spaceVars>>

Locations == {"idle", "store", "open", "primary", "create", "load", "finish",
              "flushParent", "flushChild", "close", "done", "signer"}

\* Where the handles of a session live.
Space(s) == IF s \in Raw THEN TheTPM ELSE s
Spaces   == Sessions \union {TheTPM}

Init ==
  /\ pc = [s \in Sessions |-> "idle"]
  /\ op = [s \in Sessions |-> "none"]
  /\ success = [s \in Sessions |-> FALSE]
  /\ fd = [s \in Sessions |-> FALSE]
  /\ parent = [s \in Sessions |-> Zero]
  /\ child = [s \in Sessions |-> Zero]
  /\ loaded = [x \in Spaces |-> {}]
  /\ lost = [x \in Spaces |-> {}]

At(s, l)   == pc[s] = l
Goto(s, l) == pc' = [pc EXCEPT ![s] = l]

CommandFails == "command" \in Faults

Unused(s) == Handles \ loaded[Space(s)]

Occupy(s, h)  == loaded' = [loaded EXCEPT ![Space(s)] = @ \union {h}]
Release(s, h) == loaded' = [loaded EXCEPT ![Space(s)] = @ \ {h}]
Lose(s, H)    == lost' = [lost EXCEPT ![Space(s)] = @ \union (H \intersect loaded[Space(s)])]

\* A command that loads an object fails when no handle is free, or else it
\* fails in the TPM or on its way back.
LoadFails(s) ==
  \/ (CommandFails \/ Unused(s) = {}) /\ UNCHANGED spaceVars
  \/ /\ "response" \in Faults
     /\ \E h \in Unused(s) :
           Occupy(s, h) /\ lost' = [lost EXCEPT ![Space(s)] = @ \union {h}]

Call(s) ==
  /\ At(s, "idle")
  /\ \E o \in {"create", "load"} : op' = [op EXCEPT ![s] = o]
  /\ Goto(s, "store")
  /\ UNCHANGED <<success, fd, parent, child, spaceVars>>

(***************************************************************************)
(* blobPath and os.Stat, or readBlob: their errors return before anything  *)
(* is deferred, as does that of openTPM.                                   *)
(***************************************************************************)
LookAtStore(s) ==
  /\ At(s, "store")
  /\ Goto(s, "open") \/ Goto(s, "done")
  /\ UNCHANGED <<op, success, fd, parent, child, spaceVars>>

CanOpen(s) == s \in Raw => \A t \in Raw : ~fd[t]

OpenTPM(s) ==
  /\ At(s, "open")
  /\ \/ /\ CanOpen(s)
        /\ fd' = [fd EXCEPT ![s] = TRUE]
        /\ Goto(s, "primary")
     \/ /\ CommandFails \/ ~CanOpen(s)
        /\ Goto(s, "done")
        /\ UNCHANGED fd
  /\ UNCHANGED <<op, success, parent, child, spaceVars>>

CreatePrimary(s) ==
  /\ At(s, "primary")
  /\ \/ \E h \in Unused(s) :
           /\ Occupy(s, h)
           /\ parent' = [parent EXCEPT ![s] = h]
           /\ Goto(s, IF op[s] = "create" THEN "create" ELSE "load")
           /\ UNCHANGED lost
     \/ LoadFails(s) /\ Goto(s, "flushChild") /\ UNCHANGED parent
  /\ UNCHANGED <<op, success, fd, child>>

(***************************************************************************)
(* tpm2.Create makes the wrapped key; nothing is loaded by it.             *)
(***************************************************************************)
CreateChild(s) ==
  /\ At(s, "create")
  /\ Goto(s, "load") \/ (CommandFails /\ Goto(s, "flushParent"))
  /\ UNCHANGED <<op, success, fd, parent, child, spaceVars>>

MutLoadChildForgetsHandle(s) ==
  /\ At(s, "load")
  /\ \/ \E h \in Unused(s) :
           Occupy(s, h) /\ Goto(s, "finish") /\ UNCHANGED lost
     \/ LoadFails(s) /\ Goto(s, "flushParent")
  /\ UNCHANGED <<op, success, fd, parent, child>>

MutLoadChildReturnsEarly(s) ==
  /\ At(s, "load")
  /\ \/ \E h \in Unused(s) :
           /\ Occupy(s, h)
           /\ child' = [child EXCEPT ![s] = h]
           /\ Goto(s, "finish")
           /\ UNCHANGED lost
     \/ LoadFails(s) /\ Goto(s, "done") /\ UNCHANGED child
  /\ UNCHANGED <<op, success, fd, parent>>

LoadChild(s) ==
  /\ At(s, "load")
  /\ \/ \E h \in Unused(s) :
           /\ Occupy(s, h)
           /\ child' = [child EXCEPT ![s] = h]
           /\ Goto(s, "finish")
           /\ UNCHANGED lost
     \/ LoadFails(s) /\ Goto(s, "flushParent") /\ UNCHANGED child
  /\ UNCHANGED <<op, success, fd, parent>>

(***************************************************************************)
(* eccPublicKey and, in createKey, writeBlob: the last things to fail.     *)
(***************************************************************************)
FinishCall(s) ==
  /\ At(s, "finish")
  /\ \/ success' = [success EXCEPT ![s] = TRUE]
     \/ CommandFails /\ UNCHANGED success
  /\ Goto(s, "flushParent")
  /\ UNCHANGED <<op, fd, parent, child, spaceVars>>

(***************************************************************************)
(* The deferred calls, last deferred first: flush the parent; then, if the *)
(* call failed, flush the child and close the device.  Flushing Zero sends *)
(* no command.  The signer's Close ends with the same two steps.           *)
(***************************************************************************)
Flush(s, h) ==
  \/ fd[s] /\ h # Zero /\ Release(s, h) /\ UNCHANGED lost
  \/ (~fd[s] \/ h = Zero) /\ UNCHANGED spaceVars
  \/ "flush" \in Faults /\ Lose(s, {h}) /\ UNCHANGED loaded

AfterParent(s) == IF success[s] THEN "done" ELSE "flushChild"

MutFlushParentOnlyOnError(s) ==
  /\ At(s, "flushParent")
  /\ IF success[s] THEN UNCHANGED spaceVars ELSE Flush(s, parent[s])
  /\ Goto(s, AfterParent(s))
  /\ UNCHANGED <<op, success, fd, parent, child>>

MutFlushParentAndChild(s) ==
  /\ At(s, "flushParent")
  /\ loaded' = [loaded EXCEPT ![Space(s)] = @ \ {parent[s], child[s]}]
  /\ Goto(s, AfterParent(s))
  /\ UNCHANGED <<op, success, fd, parent, child, lost>>

FlushParent(s) ==
  /\ At(s, "flushParent")
  /\ Flush(s, parent[s])
  /\ Goto(s, AfterParent(s))
  /\ UNCHANGED <<op, success, fd, parent, child>>

FlushChild(s) ==
  /\ At(s, "flushChild")
  /\ Flush(s, child[s])
  /\ Goto(s, "close")
  /\ UNCHANGED <<op, success, fd, parent, child>>

\* The device is closed; the resource manager flushes what was loaded.
Drop(s) ==
  /\ fd' = [fd EXCEPT ![s] = FALSE]
  /\ s \notin Raw => loaded' = [loaded EXCEPT ![s] = {}] /\ lost' = [lost EXCEPT ![s] = {}]

CloseDevice(s) ==
  /\ At(s, "close")
  /\ Drop(s)
  /\ s \in Raw => UNCHANGED spaceVars
  /\ Goto(s, "done")
  /\ UNCHANGED <<op, success, parent, child>>

\* The call's variables are gone when it returns; a signer keeps its fields.
Clear(s, l) ==
  /\ Goto(s, l)
  /\ op' = [op EXCEPT ![s] = "none"]
  /\ success' = [success EXCEPT ![s] = FALSE]
  /\ parent' = [parent EXCEPT ![s] = Zero]

ReturnSigner(s) ==
  /\ At(s, "done")
  /\ success[s]
  /\ Clear(s, "signer")
  /\ UNCHANGED <<fd, child, spaceVars>>

ReturnNothing(s) ==
  /\ At(s, "done")
  /\ ~success[s]
  /\ Clear(s, "idle")
  /\ child' = [child EXCEPT ![s] = Zero]
  /\ UNCHANGED <<fd, spaceVars>>

CallClose(s) ==
  /\ At(s, "signer")
  /\ op' = [op EXCEPT ![s] = "close"]
  /\ Goto(s, "flushChild")
  /\ UNCHANGED <<success, fd, parent, child, spaceVars>>

Exit(s) ==
  /\ "exit" \in Faults
  /\ ~At(s, "idle")
  /\ Drop(s)
  /\ s \in Raw => /\ Lose(s, IF fd[s] THEN {parent[s], child[s]} ELSE {})
                 /\ UNCHANGED loaded
  /\ Clear(s, "idle")
  /\ child' = [child EXCEPT ![s] = Zero]

Next ==
  \E s \in Sessions :
     \/ Call(s) \/ LookAtStore(s) \/ OpenTPM(s)
     \/ CreatePrimary(s) \/ CreateChild(s) \/ LoadChild(s) \/ FinishCall(s)
     \/ FlushParent(s) \/ FlushChild(s) \/ CloseDevice(s)
     \/ ReturnSigner(s) \/ ReturnNothing(s)
     \/ CallClose(s)
     \/ Exit(s)

Spec == Init /\ [][Next]_vars

-----------------------------------------------------------------------------
(***************************************************************************)
(* Correctness                                                             *)
(***************************************************************************)

\* Every variable has its type.
TypeOK ==
  /\ pc \in [Sessions -> Locations]
  /\ op \in [Sessions -> {"none", "create", "load", "close"}]
  /\ success \in [Sessions -> BOOLEAN]
  /\ fd \in [Sessions -> BOOLEAN]
  /\ parent \in [Sessions -> Handles \union {Zero}]
  /\ child \in [Sessions -> Handles \union {Zero}]
  /\ loaded \in [Spaces -> SUBSET Handles]
  /\ lost \in [Spaces -> SUBSET Handles]

\* A signer that createKey or loadKey has returned, or is about to return, can
\* sign: its device is open and its key is loaded there, whatever failed before
\* and whatever other sessions do.
SignerIsReady ==
  \A s \in Sessions :
     At(s, "signer") \/ (At(s, "done") /\ success[s]) =>
        fd[s] /\ child[s] \in loaded[Space(s)]

\* "On any failure after the device is opened the handles are flushed and the
\* device closed" (key_linux.go:71-72): when a call returns an error, and when
\* a Close returns, the device is closed; nothing of the session is loaded
\* then if the resource manager has it, whatever became of the flushes.
FailureReleases ==
  \A s \in Sessions :
     At(s, "done") /\ ~success[s] => ~fd[s] /\ (s \notin Raw => loaded[s] = {})

\* Nothing leaks: what is loaded is the parent or the child of a session that
\* has the device open, so a signer keeps its own key and nothing else, or it
\* is what a failed flush, a lost response or the end of a process left.  That
\* lasts no longer than the open device on the resource manager, where "a crash
\* cannot leak TPM memory" (key_linux.go:43-46).
NothingLeaks ==
  /\ \A x \in Spaces : \A h \in loaded[x] \ lost[x] :
        \E s \in Sessions : x = Space(s) /\ fd[s] /\ h \in {parent[s], child[s]}
  /\ \A s \in Sessions \ Raw : loaded[s] # {} => fd[s]

\* Two handles are enough for any number of creates, loads and closes, failed
\* and successful: while two are not lost, a command that loads an object finds
\* a free one.
TwoHandlesSuffice ==
  \A s \in Sessions :
     /\ pc[s] \in {"primary", "load"}
     /\ Cardinality(Handles \ lost[Space(s)]) >= 2
     => Unused(s) # {}

=============================================================================
