---------------------------- MODULE WindowsStore ----------------------------
(***************************************************************************)
(* The Windows backend (key_windows.go): createKey, loadKey, deleteKey and *)
(* the signer, as calls into CNG on the keys that the platform provider    *)
(* persists by name.  One action per NCrypt call or deferred call.         *)
(*                                                                         *)
(* The callers share one table of handles, as the goroutines of a process  *)
(* do, and a handle that has been freed may be given out again, so that a  *)
(* handle freed twice can be another caller's.  For the persisted keys it  *)
(* makes no difference whether the callers are goroutines or processes.    *)
(* A process that dies is one whose callers take no more steps.            *)
(*                                                                         *)
(* Faults:  "open"      NCryptOpenStorageProvider or NCryptOpenKey fails   *)
(*          "create"    NCryptCreatePersistedKey fails, or the name cannot *)
(*                      be converted                                       *)
(*          "finalize"  NCryptSetProperty or NCryptFinalizeKey fails       *)
(*          "export"    exportECCPublicKey fails                           *)
(*          "delete"    NCryptDeleteKey fails                              *)
(***************************************************************************)
EXTENDS Naturals

CONSTANTS
  Callers, Names, Keys, Handles,
  NoKey,      \* no key is persisted, or the handle is not open
  NoName,
  Zero,       \* the handle 0
  Provider,   \* what a provider handle denotes
  MaxSigns,   \* bound on the Signs that run at once on one signer
  Faults

ASSUME WindowsStoreAssumption ==
  /\ NoKey \notin Keys \union {Provider}
  /\ Provider \notin Keys
  /\ NoName \notin Names
  /\ Zero \notin Handles
  /\ MaxSigns \in Nat
  /\ Faults \subseteq {"open", "create", "finalize", "export", "delete"}

VARIABLES
  pc,         \* pc[c]: the next NCrypt call of c; "signer" while it has an open
              \* signer, "closed" while it has a closed one
  op,         \* op[c]: the function it runs, or "none"
  name,       \* name[c]: the key name it was called with
  hProv,      \* hProv[c]: the provider handle of the function or the signer
  hKey,       \* hKey[c]: its key handle
  pub,        \* pub[c]: the key whose public key was exported, or NoKey
  res,        \* res[c]: the result, "none" while it is not decided
  signing,    \* signing[c]: how many Signs run on c's signer
  object,     \* object[h]: what h denotes: Provider, a key, or NoKey
  store,      \* store[n]: the key persisted under n, or NoKey
  made,       \* the keys that were ever made
  persisted   \* the keys that were ever persisted

callVars  == <<op, name, hProv, hKey, pub>>
storeVars == <<store, made, persisted>>
vars      == <<pc, callVars, res, signing, object, storeVars>>

Locations == {"idle", "openProvider", "createPersisted", "setProperty", "finalize",
              "openKey", "export", "delete", "freeKey", "freeProv", "done", "signer",
              "closeKey", "closeProv", "closed"}
Results   == {"none", "ok", "exists", "notfound", "error"}

Init ==
  /\ pc = [c \in Callers |-> "idle"]
  /\ op = [c \in Callers |-> "none"]
  /\ name = [c \in Callers |-> NoName]
  /\ hProv = [c \in Callers |-> Zero]
  /\ hKey = [c \in Callers |-> Zero]
  /\ pub = [c \in Callers |-> NoKey]
  /\ res = [c \in Callers |-> "none"]
  /\ signing = [c \in Callers |-> 0]
  /\ object = [h \in Handles |-> NoKey]
  /\ store = [n \in Names |-> NoKey]
  /\ made = {}
  /\ persisted = {}

At(c, l)   == pc[c] = l
Goto(c, l) == pc' = [pc EXCEPT ![c] = l] /\ UNCHANGED res
Decide(c, l, r) ==
  /\ pc' = [pc EXCEPT ![c] = l]
  /\ res' = [res EXCEPT ![c] = r]

Unused == {h \in Handles : object[h] = NoKey}

Open(h, x) == object' = [object EXCEPT ![h] = x]
Free(h)    == object' = [object EXCEPT ![h] = NoKey]

\* The key that c's key handle denotes.
KeyOf(c) == object[hKey[c]]

Call(c, o) ==
  /\ At(c, "idle")
  /\ op' = [op EXCEPT ![c] = o]
  /\ \E n \in Names : name' = [name EXCEPT ![c] = n]
  /\ Goto(c, "openProvider")
  /\ UNCHANGED <<hProv, hKey, pub, signing, object, storeVars>>

CallFunction(c) == \E o \in {"create", "load", "delete"} : Call(c, o)

OpenProvider(c) ==
  /\ At(c, "openProvider")
  /\ \/ \E h \in Unused :
           /\ Open(h, Provider)
           /\ hProv' = [hProv EXCEPT ![c] = h]
           /\ Goto(c, IF op[c] = "create" THEN "createPersisted" ELSE "openKey")
     \/ /\ "open" \in Faults \/ Unused = {}
        /\ Decide(c, "done", "error")
        /\ UNCHANGED <<hProv, object>>
  /\ UNCHANGED <<op, name, hKey, pub, signing, storeVars>>

(***************************************************************************)
(* createKey.  NCryptCreatePersistedKey fails on a name that is taken      *)
(* (key_darwin.go:44-45) and makes a key that NCryptFinalizeKey persists.  *)
(* That the latter refuses a name taken in between is an assumption about  *)
(* the provider.  Keys bounds the keys made: none left is a failure.       *)
(***************************************************************************)
CreatePersistedKey(c) ==
  /\ At(c, "createPersisted")
  /\ \/ /\ store[name[c]] = NoKey
        /\ \E h \in Unused, k \in Keys \ made :
              /\ Open(h, k)
              /\ hKey' = [hKey EXCEPT ![c] = h]
              /\ made' = made \union {k}
        /\ Goto(c, "setProperty")
     \/ /\ \/ store[name[c]] # NoKey /\ Decide(c, "freeProv", "exists")
           \/ /\ "create" \in Faults \/ Unused = {} \/ Keys \subseteq made
              /\ Decide(c, "freeProv", "error")
        /\ UNCHANGED <<hKey, made, object>>
  /\ UNCHANGED <<op, name, hProv, pub, signing, store, persisted>>

FinalizeFails(c) == "finalize" \in Faults /\ Decide(c, "freeKey", "error")

SetProperty(c) ==
  /\ At(c, "setProperty")
  /\ Goto(c, "finalize") \/ FinalizeFails(c)
  /\ UNCHANGED <<callVars, signing, object, storeVars>>

MutFinalizeKeyOverwrites(c) ==
  /\ At(c, "finalize")
  /\ \/ /\ store' = [store EXCEPT ![name[c]] = KeyOf(c)]
        /\ persisted' = persisted \union {KeyOf(c)}
        /\ Goto(c, "export")
     \/ FinalizeFails(c) /\ UNCHANGED <<store, persisted>>
  /\ UNCHANGED <<callVars, signing, object, made>>

FinalizeKey(c) ==
  /\ At(c, "finalize")
  /\ \/ /\ store[name[c]] = NoKey
        /\ store' = [store EXCEPT ![name[c]] = KeyOf(c)]
        /\ persisted' = persisted \union {KeyOf(c)}
        /\ Goto(c, "export")
     \/ /\ \/ store[name[c]] # NoKey /\ Decide(c, "freeKey", "exists")
           \/ FinalizeFails(c)
        /\ UNCHANGED <<store, persisted>>
  /\ UNCHANGED <<callVars, signing, object, made>>

(***************************************************************************)
(* exportECCPublicKey, for createKey and loadKey.  A createKey that fails  *)
(* here leaves its key persisted.                                          *)
(***************************************************************************)
MutExportHandle(c) ==
  /\ At(c, "export")
  /\ Decide(c, "done", "ok")
  /\ pub' = [pub EXCEPT ![c] = hKey[c]]
  /\ UNCHANGED <<op, name, hProv, hKey, signing, object, storeVars>>

ExportPublicKey(c) ==
  /\ At(c, "export")
  /\ \/ Decide(c, "done", "ok") /\ pub' = [pub EXCEPT ![c] = KeyOf(c)]
     \/ /\ "export" \in Faults
        /\ Decide(c, "freeKey", "error")
        /\ UNCHANGED pub
  /\ UNCHANGED <<op, name, hProv, hKey, signing, object, storeVars>>

(***************************************************************************)
(* NCryptOpenKey, for loadKey and deleteKey                                *)
(***************************************************************************)
OpenKey(c) ==
  /\ At(c, "openKey")
  /\ \/ /\ store[name[c]] # NoKey
        /\ \E h \in Unused :
              Open(h, store[name[c]]) /\ hKey' = [hKey EXCEPT ![c] = h]
        /\ Goto(c, IF op[c] = "load" THEN "export" ELSE "delete")
     \/ /\ \/ store[name[c]] = NoKey /\ Decide(c, "freeProv", "notfound")
           \/ ("open" \in Faults \/ Unused = {}) /\ Decide(c, "freeProv", "error")
        /\ UNCHANGED <<hKey, object>>
  /\ UNCHANGED <<op, name, hProv, pub, signing, storeVars>>

(***************************************************************************)
(* NCryptDeleteKey frees the handle when it succeeds, and deleteKey when   *)
(* it fails, as it does for a key that somebody else has deleted.          *)
(***************************************************************************)
DeletePersisted(c, next) ==
  /\ store[name[c]] = KeyOf(c)
  /\ store' = [store EXCEPT ![name[c]] = NoKey]
  /\ Free(hKey[c])
  /\ Decide(c, next, "ok")

DeleteFails(c, next, r) ==
  /\ "delete" \in Faults \/ store[name[c]] # KeyOf(c)
  /\ Decide(c, next, r)
  /\ UNCHANGED <<store, object>>

Delete(c, afterSuccess, afterFailure, r) ==
  /\ At(c, "delete")
  /\ DeletePersisted(c, afterSuccess) \/ DeleteFails(c, afterFailure, r)
  /\ UNCHANGED <<callVars, signing, made, persisted>>

MutDeleteKeyFreesTwice(c) == Delete(c, "freeKey", "freeKey", "error")
MutDeleteKeyNeverFrees(c) == Delete(c, "freeProv", "freeProv", "error")

DeleteKey(c) == Delete(c, "freeProv", "freeKey", "error")

(***************************************************************************)
(* The deferred frees, in their order.                                     *)
(***************************************************************************)
FreeKey(c) ==
  /\ At(c, "freeKey")
  /\ Free(hKey[c])
  /\ Goto(c, "freeProv")
  /\ UNCHANGED <<callVars, signing, storeVars>>

FreeProv(c) ==
  /\ At(c, "freeProv")
  /\ Free(hProv[c])
  /\ Goto(c, "done")
  /\ UNCHANGED <<callVars, signing, storeVars>>

\* What becomes of the handles and the public key of c when it returns.
Leave(c, l) ==
  /\ pc'   = [pc   EXCEPT ![c] = l]
  /\ op'   = [op   EXCEPT ![c] = "none"]
  /\ name' = [name EXCEPT ![c] = NoName]
  /\ res'  = [res  EXCEPT ![c] = "none"]

ReturnsSigner(c) == op[c] \in {"create", "load"} /\ res[c] = "ok"

ReturnSigner(c) ==
  /\ At(c, "done")
  /\ ReturnsSigner(c)
  /\ Leave(c, "signer")
  /\ UNCHANGED <<hProv, hKey, pub, signing, object, storeVars>>

ReturnNoSigner(c) ==
  /\ At(c, "done")
  /\ ~ReturnsSigner(c)
  /\ Leave(c, "idle")
  /\ hProv' = [hProv EXCEPT ![c] = Zero]
  /\ hKey'  = [hKey  EXCEPT ![c] = Zero]
  /\ pub'   = [pub   EXCEPT ![c] = NoKey]
  /\ UNCHANGED <<signing, object, storeVars>>

(***************************************************************************)
(* The signer.  Between BeginSign and EndSign a Sign passes hKey to        *)
(* NCryptSignHash twice, for the size and for the signature, and returns   *)
(* what comes of it, a signature or an error.  It does not ask whether the *)
(* signer is open: on a closed one it passes the handle 0.                 *)
(***************************************************************************)
BeginSign(c) ==
  /\ pc[c] \in {"signer", "closed"}
  /\ signing[c] < MaxSigns
  /\ signing' = [signing EXCEPT ![c] = @ + 1]
  /\ UNCHANGED <<pc, callVars, res, object, storeVars>>

EndSign(c) ==
  /\ signing[c] > 0
  /\ signing' = [signing EXCEPT ![c] = @ - 1]
  /\ UNCHANGED <<pc, callVars, res, object, storeVars>>

(***************************************************************************)
(* Close frees a handle unless it is 0 and sets it to 0, first the key's   *)
(* and then the provider's.  It may be called again.                       *)
(***************************************************************************)
CallClose(c) ==
  /\ pc[c] \in {"signer", "closed"}
  /\ Goto(c, "closeKey")
  /\ UNCHANGED <<callVars, signing, object, storeVars>>

FreeUnlessZero(h) == IF h = Zero THEN UNCHANGED object ELSE Free(h)

CloseKey(c) ==
  /\ At(c, "closeKey")
  /\ FreeUnlessZero(hKey[c])
  /\ hKey' = [hKey EXCEPT ![c] = Zero]
  /\ Goto(c, "closeProv")
  /\ UNCHANGED <<op, name, hProv, pub, signing, storeVars>>

CloseProv(c) ==
  /\ At(c, "closeProv")
  /\ FreeUnlessZero(hProv[c])
  /\ hProv' = [hProv EXCEPT ![c] = Zero]
  /\ Goto(c, "closed")
  /\ UNCHANGED <<op, name, hKey, pub, signing, storeVars>>

(***************************************************************************)
(* Nothing in the signer keeps a Close from running beside a Sign.  Its    *)
(* users do, who close it when their Signs have returned (main.go:99-100   *)
(* and the benchmark's clean-up, cert_bench_test.go:21-22), and forget it  *)
(* then.                                                                   *)
(***************************************************************************)
CloseSigner(c) == signing[c] = 0 /\ CallClose(c)

DropSigner(c) ==
  /\ At(c, "closed")
  /\ signing[c] = 0
  /\ pc' = [pc EXCEPT ![c] = "idle"]
  /\ pub' = [pub EXCEPT ![c] = NoKey]
  /\ UNCHANGED <<op, name, hProv, hKey, res, signing, object, storeVars>>

Next ==
  \E c \in Callers :
     \/ CallFunction(c) \/ OpenProvider(c)
     \/ CreatePersistedKey(c) \/ SetProperty(c) \/ FinalizeKey(c) \/ ExportPublicKey(c)
     \/ OpenKey(c) \/ DeleteKey(c)
     \/ FreeKey(c) \/ FreeProv(c)
     \/ ReturnSigner(c) \/ ReturnNoSigner(c)
     \/ BeginSign(c) \/ EndSign(c)
     \/ CloseSigner(c) \/ CloseKey(c) \/ CloseProv(c) \/ DropSigner(c)

Spec == Init /\ [][Next]_vars

-----------------------------------------------------------------------------
(***************************************************************************)
(* Correctness                                                             *)
(***************************************************************************)

\* Every variable has its type.
TypeOK ==
  /\ pc \in [Callers -> Locations]
  /\ op \in [Callers -> {"none", "create", "load", "delete"}]
  /\ name \in [Callers -> Names \union {NoName}]
  /\ hProv \in [Callers -> Handles \union {Zero}]
  /\ hKey \in [Callers -> Handles \union {Zero}]
  /\ pub \in [Callers -> Keys \union {NoKey}]
  /\ res \in [Callers -> Results]
  /\ signing \in [Callers -> 0..MaxSigns]
  /\ object \in [Handles -> Keys \union {Provider, NoKey}]
  /\ store \in [Names -> Keys \union {NoKey}]
  /\ made \subseteq Keys
  /\ persisted \subseteq made

HoldsSigner(c) == At(c, "signer") \/ (At(c, "done") /\ ReturnsSigner(c))

Closing(c) == pc[c] \in {"closeKey", "closeProv", "closed"}

HoldsKey(c) ==
  \/ pc[c] \in {"setProperty", "finalize", "export", "delete", "freeKey"}
  \/ HoldsSigner(c)
  \/ Closing(c) /\ hKey[c] # Zero

HoldsProv(c) ==
  \/ HoldsKey(c)
  \/ pc[c] \in {"createPersisted", "openKey", "freeProv"}
  \/ Closing(c) /\ hProv[c] # Zero

\* The handles that c has opened, or was given, and has yet to use or to free.
Held(c) ==
  {h \in Handles : (HoldsProv(c) /\ h = hProv[c]) \/ (HoldsKey(c) /\ h = hKey[c])}

\* No call to CNG goes through a handle that is not the caller's own, none is
\* freed twice and none is used after it was freed (key_windows.go:152-157,
\* 254-262), however the callers interleave and whichever handles are given out
\* again.  Above all a signer, with Signs running on it or not, signs with the
\* key whose public key it shows, or, once it is closed, with no key at all: it
\* never signs through, or closes, a handle that has become somebody else's.
HandlesAreOwn ==
  /\ \A c \in Callers :
        /\ HoldsProv(c) => hProv[c] \in Handles /\ object[hProv[c]] = Provider
        /\ HoldsKey(c) => hKey[c] \in Handles /\ KeyOf(c) \in Keys
        /\ HoldsSigner(c) => KeyOf(c) = pub[c]
        /\ signing[c] > 0 => HoldsSigner(c) \/ hKey[c] = Zero
  /\ \A c, d \in Callers : c # d => Held(c) \intersect Held(d) = {}

\* "On any error both handles must be freed" (key_windows.go:42-43): every
\* handle that is open belongs to a call that runs or to a signer that is not
\* closed, so any number of calls, failed and successful, leaks none.
NoHandleLeaks ==
  \A h \in Handles : object[h] # NoKey => \E c \in Callers : h \in Held(c)

(***************************************************************************)
(* The persisted keys implement the atomic store of KeyStore: a create     *)
(* takes effect in NCryptFinalizeKey, a load in NCryptOpenKey, a delete in *)
(* NCryptDeleteKey.  A create whose export fails reports an error and      *)
(* leaves its key.                                                         *)
(***************************************************************************)
Got == [c \in Callers |-> IF At(c, "export") THEN KeyOf(c)
                          ELSE IF At(c, "done") /\ ReturnsSigner(c) THEN pub[c]
                          ELSE NoKey]
Res == [c \in Callers |-> IF At(c, "export") /\ op[c] = "create" THEN "ok" ELSE res[c]]

Atomic == INSTANCE KeyStore WITH
            Procs <- Callers, issued <- persisted, got <- Got, res <- Res,
            MayOrphan <- TRUE

ImplementsKeyStore == Atomic!Spec

=============================================================================
