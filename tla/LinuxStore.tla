----------------------------- MODULE LinuxStore -----------------------------
(***************************************************************************)
(* The key store of the Linux backend (key_linux.go): createKey, loadKey   *)
(* and deleteKey, run by several processes of the program on one store     *)
(* directory, one action per system call (or per group of calls between    *)
(* which no other process can see a difference).                           *)
(*                                                                         *)
(* A key is identified with the createKey attempt that makes it.  That     *)
(* attempt writes the wrapped blob to at most one temporary file, so the   *)
(* inode is identified with the key too: temp holds the keys whose inode   *)
(* has a ".tpmkey-*" name, path[n] is the key whose inode is linked at     *)
(* blobPath(n), data[k] is what the inode holds.                           *)
(*                                                                         *)
(* What the machine may do is chosen by Faults:                            *)
(*   "io"      a system call or a TPM command fails with an error          *)
(*   "remove"  os.Remove of the temporary file fails; both callers of it   *)
(*             ignore the error                                            *)
(*   "kill"    a process dies between two calls                            *)
(*   "power"   the machine loses power: what is not on disk may be lost    *)
(* The TPM commands of createKey and loadKey are one step each here        *)
(* (TpmCreate, Unwrap); TpmSession models them one by one.                 *)
(*                                                                         *)
(* An operator whose name starts with Mut is a wrong variant of the one    *)
(* that follows it.  No specification uses it: it shows that a property    *)
(* notices the mistake (see "mutants" in the README).                      *)
(***************************************************************************)

CONSTANTS Procs, Names, Keys, NoKey, NoName, Faults

ASSUME LinuxStoreAssumption ==
  /\ NoKey \notin Keys
  /\ NoName \notin Names
  /\ Faults \subseteq {"io", "remove", "kill", "power"}

VARIABLES
  (*************************************************************************)
  (* The running call of each process                                      *)
  (*************************************************************************)
  pc,        \* the next system call
  op,        \* "create", "load", "delete" or "none"
  name,      \* the key name it was called with
  key,       \* the key it made or read, or NoKey
  res,       \* its result: "ok", "exists", "notfound", "error" or "none"
  (*************************************************************************)
  (* The store directory as processes see it, and as the disk holds it     *)
  (*************************************************************************)
  storeDir,  \* "absent", "cached" (made, its own entry not on disk) or "durable"
  path,      \* path[n]: the key whose blob is at blobPath(n), or NoKey
  temp,      \* the keys whose inode has a temporary name
  data,      \* data[k]: the contents of k's inode
  dpath,     \* path on disk
  dtemp,     \* temp on disk
  (*************************************************************************)
  (* History: what happened to each key                                    *)
  (*************************************************************************)
  linked,    \* linked[k]: the name k was published under, or NoName
  acked,     \* the keys whose createKey has returned a signer
  settled,   \* those acknowledged after a successful directory sync, in a
             \* store directory whose own entry was on disk
  deleted,   \* the keys a deleteKey has removed
  buried,    \* those that a later directory sync has found removed
  abandoned  \* the keys whose createKey was not let finish: its process was
             \* killed, its os.Remove failed, or the power loss undid it

callVars == <<pc, op, name, key, res>>
dirVars  == <<storeDir, path, temp, data>>
diskVars == <<dpath, dtemp>>
histVars == <<linked, acked, settled, deleted, buried, abandoned>>
vars     == <<callVars, dirVars, diskVars, histVars>>

Ops     == {"create", "load", "delete"}
Results == {"none", "ok", "exists", "notfound", "error"}

(***************************************************************************)
(* "synced" is complete and on stable storage; "torn" is a proper prefix.  *)
(***************************************************************************)
DataStates  == {"none", "empty", "torn", "full", "synced"}
Readable(k) == data[k] \in {"full", "synced"}

Locations == {"idle", "stat", "tpm", "temp", "write", "sync", "link", "unlink",
              "dirsync", "cleanup", "read", "unwrap", "remove", "done"}

Init ==
  /\ pc   = [p \in Procs |-> "idle"]
  /\ op   = [p \in Procs |-> "none"]
  /\ name = [p \in Procs |-> NoName]
  /\ key  = [p \in Procs |-> NoKey]
  /\ res  = [p \in Procs |-> "none"]
  /\ storeDir \in {"absent", "durable"}
  /\ path = [n \in Names |-> NoKey]
  /\ temp = {}
  /\ data = [k \in Keys |-> "none"]
  /\ dpath = path
  /\ dtemp = temp
  /\ linked = [k \in Keys |-> NoName]
  /\ acked = {}
  /\ settled = {}
  /\ deleted = {}
  /\ buried = {}
  /\ abandoned = {}

At(p, l)     == pc[p] = l
Goto(p, l)   == pc' = [pc EXCEPT ![p] = l] /\ UNCHANGED res
Decide(p, l, r) ==
  /\ pc' = [pc EXCEPT ![p] = l]
  /\ res' = [res EXCEPT ![p] = r]
Finish(p, r) == Decide(p, "done", r)

IOError(p) == "io" \in Faults /\ Finish(p, "error")

(***************************************************************************)
(* A call starts at its first system call, and hands its result back.      *)
(***************************************************************************)
Call(p, o, first) ==
  /\ At(p, "idle")
  /\ \E n \in Names : name' = [name EXCEPT ![p] = n]
  /\ op' = [op EXCEPT ![p] = o]
  /\ Goto(p, first)
  /\ UNCHANGED <<key, dirVars, diskVars, histVars>>

CallCreate(p) == Call(p, "create", "stat")
CallLoad(p)   == Call(p, "load", "read")
CallDelete(p) == Call(p, "delete", "remove")

Forget(p) ==
  /\ pc'   = [pc   EXCEPT ![p] = "idle"]
  /\ op'   = [op   EXCEPT ![p] = "none"]
  /\ name' = [name EXCEPT ![p] = NoName]
  /\ key'  = [key  EXCEPT ![p] = NoKey]
  /\ res'  = [res  EXCEPT ![p] = "none"]

Return(p) ==
  /\ At(p, "done")
  /\ Forget(p)
  /\ UNCHANGED <<dirVars, diskVars, histVars>>

(***************************************************************************)
(* createKey                                                               *)
(***************************************************************************)
Stat(p) ==
  /\ At(p, "stat")
  /\ \/ path[name[p]] # NoKey /\ Finish(p, "exists")
     \/ path[name[p]] = NoKey /\ Goto(p, "tpm")
     \/ IOError(p)
  /\ UNCHANGED <<op, name, key, dirVars, diskVars, histVars>>

(***************************************************************************)
(* From openTPM to eccPublicKey: the TPM makes a key nobody has, or fails. *)
(* With every member of Keys in use (the bound on attempts) it fails.      *)
(***************************************************************************)
Fresh(k) == data[k] = "none" /\ \A q \in Procs : key[q] # k

TpmCreate(p) ==
  /\ At(p, "tpm")
  /\ \/ \E k \in Keys :
           /\ Fresh(k)
           /\ key' = [key EXCEPT ![p] = k]
           /\ Goto(p, "temp")
     \/ /\ "io" \in Faults \/ \A k \in Keys : ~Fresh(k)
        /\ Finish(p, "error")
        /\ UNCHANGED key
  /\ UNCHANGED <<op, name, dirVars, diskVars, histVars>>

(***************************************************************************)
(* writeBlob: MkdirAll and CreateTemp.  The directory stays when           *)
(* CreateTemp fails.                                                       *)
(***************************************************************************)
MkdirAll == IF storeDir = "absent" THEN "cached" ELSE storeDir

CreateTemp(p) ==
  /\ At(p, "temp")
  /\ \/ /\ storeDir' = MkdirAll
        /\ temp' = temp \union {key[p]}
        /\ data' = [data EXCEPT ![key[p]] = "empty"]
        /\ Goto(p, "write")
     \/ /\ IOError(p)
        /\ storeDir' \in {storeDir, MkdirAll}
        /\ UNCHANGED <<temp, data>>
  /\ UNCHANGED <<op, name, key, path, diskVars, histVars>>

(***************************************************************************)
(* Chmod and Write, then Sync and Close.  An error runs the deferred       *)
(* clean-up of the temporary file and then fails the call.                 *)
(***************************************************************************)
MutAbortKeepsTemp(p, r) == Finish(p, r)

Abort(p, r) == Decide(p, "cleanup", r)

WriteTemp(p) ==
  /\ At(p, "write")
  /\ \/ data' = [data EXCEPT ![key[p]] = "full"] /\ Goto(p, "sync")
     \/ /\ "io" \in Faults
        /\ \E d \in {"empty", "torn"} : data' = [data EXCEPT ![key[p]] = d]
        /\ Abort(p, "error")
  /\ UNCHANGED <<op, name, key, storeDir, path, temp, diskVars, histVars>>

MutSyncTempOmitted(p) ==
  /\ At(p, "sync")
  /\ Goto(p, "link")
  /\ UNCHANGED <<op, name, key, dirVars, diskVars, histVars>>

SyncTemp(p) ==
  /\ At(p, "sync")
  /\ \/ data' = [data EXCEPT ![key[p]] = "synced"] /\ Goto(p, "link")
     \/ /\ "io" \in Faults
        /\ \E d \in {"full", "synced"} : data' = [data EXCEPT ![key[p]] = d]
        /\ Abort(p, "error")
  /\ UNCHANGED <<op, name, key, storeDir, path, temp, diskVars, histVars>>

(***************************************************************************)
(* os.Link: the commit.  It fails when the name is taken; from a           *)
(* successful link on, nothing can fail the call.                          *)
(***************************************************************************)
MutLinkBlobByRename(p) ==
  /\ At(p, "link")
  /\ path' = [path EXCEPT ![name[p]] = key[p]]
  /\ linked' = [linked EXCEPT ![key[p]] = name[p]]
  /\ temp' = temp \ {key[p]}
  /\ Decide(p, "dirsync", "ok")
  /\ UNCHANGED <<op, name, key, storeDir, data, diskVars, acked, settled, deleted, buried, abandoned>>

LinkBlob(p) ==
  /\ At(p, "link")
  /\ \/ /\ path[name[p]] = NoKey
        /\ path' = [path EXCEPT ![name[p]] = key[p]]
        /\ linked' = [linked EXCEPT ![key[p]] = name[p]]
        /\ Decide(p, "unlink", "ok")
     \/ /\ path[name[p]] # NoKey
        /\ Abort(p, "exists")
        /\ UNCHANGED <<path, linked>>
     \/ /\ "io" \in Faults
        /\ Abort(p, "error")
        /\ UNCHANGED <<path, linked>>
  /\ UNCHANGED <<op, name, key, storeDir, temp, data, diskVars, acked, settled, deleted, buried,
                 abandoned>>

RemoveTempName(p) ==
  /\ \/ temp' = temp \ {key[p]} /\ UNCHANGED abandoned
     \/ /\ "remove" \in Faults
        /\ abandoned' = abandoned \union {key[p]}
        /\ UNCHANGED temp
  /\ UNCHANGED <<linked, acked, settled, deleted, buried>>

MutCleanupRemovesPath(p) ==
  /\ At(p, "cleanup")
  /\ path' = [path EXCEPT ![name[p]] = NoKey]
  /\ Goto(p, "done")
  /\ UNCHANGED <<op, name, key, storeDir, temp, data, diskVars, histVars>>

Cleanup(p) ==
  /\ At(p, "cleanup")
  /\ RemoveTempName(p)
  /\ Goto(p, "done")
  /\ UNCHANGED <<op, name, key, storeDir, path, data, diskVars>>

MutRemoveTempOmitted(p) ==
  /\ At(p, "unlink")
  /\ Goto(p, "dirsync")
  /\ UNCHANGED <<op, name, key, dirVars, diskVars, histVars>>

RemoveTemp(p) ==
  /\ At(p, "unlink")
  /\ RemoveTempName(p)
  /\ Goto(p, "dirsync")
  /\ UNCHANGED <<op, name, key, storeDir, path, data, diskVars>>

(***************************************************************************)
(* d.Sync of the store directory, whose failure is ignored; then writeBlob *)
(* and createKey return.                                                   *)
(***************************************************************************)
Gone == {k \in deleted : \A n \in Names : path[n] # k}

MutSyncDirOmitted(p) ==
  /\ At(p, "dirsync")
  /\ settled' = IF storeDir = "durable" THEN settled \union {key[p]} ELSE settled
  /\ acked' = acked \union {key[p]}
  /\ buried' = buried \union Gone
  /\ Goto(p, "done")
  /\ UNCHANGED <<op, name, key, dirVars, diskVars, linked, deleted, abandoned>>

MutSyncDirFailsTheCall(p) ==
  /\ At(p, "dirsync")
  /\ \/ /\ dpath' = path
        /\ dtemp' = temp
        /\ acked' = acked \union {key[p]}
        /\ Goto(p, "done")
     \/ /\ IOError(p)
        /\ UNCHANGED <<diskVars, acked>>
  /\ UNCHANGED <<op, name, key, dirVars, linked, settled, deleted, buried, abandoned>>

SyncDir(p) ==
  /\ At(p, "dirsync")
  /\ \/ /\ dpath' = path
        /\ dtemp' = temp
        /\ settled' = IF storeDir = "durable" THEN settled \union {key[p]} ELSE settled
        /\ buried' = buried \union Gone
     \/ /\ "io" \in Faults
        /\ UNCHANGED <<diskVars, settled, buried>>
  /\ acked' = acked \union {key[p]}
  /\ Goto(p, "done")
  /\ UNCHANGED <<op, name, key, dirVars, linked, deleted, abandoned>>

(***************************************************************************)
(* loadKey: os.ReadFile and the decoding of the blob, then the TPM part.   *)
(***************************************************************************)
ReadBlob(p) ==
  /\ At(p, "read")
  /\ LET k == path[name[p]] IN
     \/ k = NoKey /\ Finish(p, "notfound") /\ UNCHANGED key
     \/ /\ k # NoKey
        /\ Readable(k)
        /\ key' = [key EXCEPT ![p] = k]
        /\ Goto(p, "unwrap")
     \/ /\ \/ "io" \in Faults
           \/ k # NoKey /\ ~Readable(k)
        /\ Finish(p, "error")
        /\ UNCHANGED key
  /\ UNCHANGED <<op, name, dirVars, diskVars, histVars>>

Unwrap(p) ==
  /\ At(p, "unwrap")
  /\ Finish(p, "ok") \/ IOError(p)
  /\ UNCHANGED <<op, name, key, dirVars, diskVars, histVars>>

(***************************************************************************)
(* deleteKey: os.Remove of the blob.  The directory is not synced.         *)
(***************************************************************************)
MutRemoveBlobIgnoresNotFound(p) ==
  /\ At(p, "remove")
  /\ path' = [path EXCEPT ![name[p]] = NoKey]
  /\ deleted' = deleted \union {path[name[p]]}
  /\ Finish(p, "ok")
  /\ UNCHANGED <<op, name, key, storeDir, temp, data, diskVars, linked, acked, settled, buried,
                 abandoned>>

RemoveBlob(p) ==
  /\ At(p, "remove")
  /\ LET k == path[name[p]] IN
     \/ /\ k # NoKey
        /\ path' = [path EXCEPT ![name[p]] = NoKey]
        /\ deleted' = deleted \union {k}
        /\ Finish(p, "ok")
     \/ /\ \/ k = NoKey /\ Finish(p, "notfound")
           \/ IOError(p)
        /\ UNCHANGED <<path, deleted>>
  /\ UNCHANGED <<op, name, key, storeDir, temp, data, diskVars, linked, acked, settled, buried,
                 abandoned>>

(***************************************************************************)
(* The environment.  A killed process leaves the directory as it is.       *)
(***************************************************************************)
Unfinished ==
  {k \in Keys : \E p \in Procs :
     key[p] = k /\ pc[p] \in {"write", "sync", "link", "unlink", "dirsync", "cleanup"}}

Kill(p) ==
  /\ "kill" \in Faults
  /\ ~At(p, "idle")
  /\ Forget(p)
  /\ abandoned' = abandoned \union (Unfinished \ Unfinished')
  /\ UNCHANGED <<dirVars, diskVars, linked, acked, settled, deleted, buried>>

(***************************************************************************)
(* The kernel writes directory entries back whenever and in whatever order *)
(* it likes.                                                               *)
(***************************************************************************)
WriteBackDir ==
  /\ "power" \in Faults
  /\ storeDir = "cached"
  /\ storeDir' = "durable"
  /\ UNCHANGED <<callVars, path, temp, data, diskVars, histVars>>

WriteBackPath(n) ==
  /\ "power" \in Faults
  /\ dpath' = [dpath EXCEPT ![n] = path[n]]
  /\ UNCHANGED <<callVars, dirVars, dtemp, histVars>>

WriteBackTemp(k) ==
  /\ "power" \in Faults
  /\ dtemp' = IF k \in temp THEN dtemp \union {k} ELSE dtemp \ {k}
  /\ UNCHANGED <<callVars, dirVars, dpath, histVars>>

(***************************************************************************)
(* Power loss: every process dies, the directory is what the disk holds    *)
(* (nothing, when the directory itself was never written), and any file    *)
(* that was not synced may come back torn.                                 *)
(***************************************************************************)
PowerLoss ==
  /\ "power" \in Faults
  /\ pc'   = [p \in Procs |-> "idle"]
  /\ op'   = [p \in Procs |-> "none"]
  /\ name' = [p \in Procs |-> NoName]
  /\ key'  = [p \in Procs |-> NoKey]
  /\ res'  = [p \in Procs |-> "none"]
  /\ \/ /\ storeDir = "durable"
        /\ path' = dpath
        /\ temp' = dtemp
        /\ UNCHANGED <<storeDir, diskVars>>
     \/ /\ storeDir # "durable"
        /\ storeDir' = "absent"
        /\ path' = [n \in Names |-> NoKey]
        /\ temp' = {}
        /\ dpath' = path'
        /\ dtemp' = temp'
  /\ \E lost \in SUBSET {k \in Keys : data[k] = "full"} :
        data' = [k \in Keys |-> IF k \in lost THEN "torn" ELSE data[k]]
  /\ abandoned' = abandoned \union Unfinished \union (temp' \ temp)
  /\ UNCHANGED <<linked, acked, settled, deleted, buried>>

Step(p) ==
  \/ Return(p)
  \/ Stat(p) \/ TpmCreate(p)
  \/ CreateTemp(p) \/ WriteTemp(p) \/ SyncTemp(p) \/ LinkBlob(p)
  \/ Cleanup(p) \/ RemoveTemp(p) \/ SyncDir(p)
  \/ ReadBlob(p) \/ Unwrap(p)
  \/ RemoveBlob(p)

Start(p) == CallCreate(p) \/ CallLoad(p) \/ CallDelete(p)

Next ==
  \/ \E p \in Procs : Start(p) \/ Step(p) \/ Kill(p)
  \/ WriteBackDir
  \/ \E n \in Names : WriteBackPath(n)
  \/ \E k \in Keys : WriteBackTemp(k)
  \/ PowerLoss

Spec == Init /\ [][Next]_vars

(***************************************************************************)
(* A process that is neither killed nor starved goes on with its call.     *)
(***************************************************************************)
FairSpec == Spec /\ \A p \in Procs : WF_vars(Step(p))

-----------------------------------------------------------------------------
(***************************************************************************)
(* Correctness                                                             *)
(***************************************************************************)

\* Every variable has its type.
TypeOK ==
  /\ pc   \in [Procs -> Locations]
  /\ op   \in [Procs -> Ops \union {"none"}]
  /\ name \in [Procs -> Names \union {NoName}]
  /\ key  \in [Procs -> Keys \union {NoKey}]
  /\ res  \in [Procs -> Results]
  /\ storeDir \in {"absent", "cached", "durable"}
  /\ path  \in [Names -> Keys \union {NoKey}]
  /\ dpath \in [Names -> Keys \union {NoKey}]
  /\ temp  \subseteq Keys
  /\ dtemp \subseteq Keys
  /\ data  \in [Keys -> DataStates]
  /\ linked \in [Keys -> Names \union {NoName}]
  /\ acked \subseteq Keys
  /\ settled \subseteq Keys
  /\ deleted \subseteq Keys
  /\ buried \subseteq Keys
  /\ abandoned \subseteq Keys

\* A blob that can be found under a name, now or after a power loss, is whole,
\* on stable storage, and was made for that name: writeBlob writes and syncs
\* the temporary file before it links it (key_linux.go:436-440).
PublishedIsComplete ==
  \A n \in Names :
     /\ path[n]  # NoKey => data[path[n]]  = "synced" /\ linked[path[n]]  = n
     /\ dpath[n] # NoKey => data[dpath[n]] = "synced" /\ linked[dpath[n]] = n

\* The blob is the only copy of a wrapped key (key_linux.go:392-393): once
\* createKey has returned a signer, loadKey finds that very key under the
\* name it was created with until a deleteKey removes it, whatever other
\* processes do and whoever dies.
AckedIsAvailable ==
  \A k \in acked : k \in deleted \/ path[linked[k]] = k

\* The same across power losses, for a key whose directory entry was synced
\* (key_linux.go:446-451) in a store directory that was itself on disk.
SettledSurvives ==
  \A k \in settled : k \in deleted \/ path[linked[k]] = k

\* deleteKey syncs nothing (key_linux.go:209), so a power loss can undo it, but
\* not once a createKey that ran beside it or after it has synced the directory
\* (key_linux.go:448): from then on the key stays deleted.
BuriedStaysGone ==
  \A k \in buried : \A n \in Names : path[n] # k

\* No step replaces one key by another under a name, and only a deleteKey of
\* that very name unpublishes one (the link-not-rename commit of writeBlob).
NeverClobbered ==
  [][\A n \in Names :
        path[n] # NoKey /\ path'[n] # path[n] =>
           /\ path'[n] = NoKey
           /\ \E p \in Procs : op[p] = "delete" /\ name[p] = n /\ res'[p] = "ok"]_vars

\* "A failure leaves nothing behind" (key_linux.go:71-73): every name in the
\* store directory, temporary or not, belongs to a createKey that still runs,
\* to a key that was acknowledged, or to a createKey that was not let finish.
Writing(p) == op[p] = "create" /\ pc[p] \in {"write", "sync", "link", "unlink", "cleanup"}

NothingLeftBehind ==
  /\ \A k \in temp \ abandoned : \E p \in Procs : key[p] = k /\ Writing(p)
  /\ \A n \in Names :
        path[n] # NoKey =>
           \/ path[n] \in acked \union abandoned
           \/ \E p \in Procs : key[p] = path[n] /\ pc[p] \in {"unlink", "dirsync"}

\* "deleteKey permanently removes the key ... removing the file is sufficient"
\* (key_linux.go:202-203): a deleted key is under no name of the directory,
\* except that a createKey between its link and its remove still has to drop
\* the temporary name, which stays if it is not let.
DeletedKeyGone ==
  \A k \in deleted :
     /\ \A n \in Names : path[n] # k
     /\ k \in temp \ abandoned => \E p \in Procs : key[p] = k /\ pc[p] = "unlink"

\* A key that is deleted while its createKey still runs leaves the directory
\* altogether: the temporary name goes too, unless the createKey is killed or
\* its os.Remove fails.
DeletedKeyVanishes ==
  \A k \in Keys :
     (k \in deleted) ~> [](k \notin temp \ abandoned /\ \A n \in Names : path[n] # k)

(***************************************************************************)
(* As long as the power stays on, the processes and the directory          *)
(* implement the atomic store of KeyStore.  A create takes effect at the   *)
(* link or at the call that finds the name taken, a load at the read of    *)
(* the blob, a delete at the remove.                                       *)
(***************************************************************************)
Issued == {k \in Keys : linked[k] # NoName}

Got == [p \in Procs |->
          IF pc[p] = "unwrap" \/ (op[p] \in {"create", "load"} /\ res[p] = "ok")
          THEN key[p] ELSE NoKey]

Atomic == INSTANCE DurableStore
            WITH store <- path, issued <- Issued, got <- Got,
                 disk <- dpath, kept <- (storeDir = "durable"),
                 MayOrphan <- FALSE

ImplementsKeyStore == Atomic!Spec

\* Whatever fails, power included, they implement DurableStore: a call takes
\* effect at the same instant, and a power loss gives back the blobs whose entry
\* was on disk, each under its own name, and no blob of a createKey that had
\* not committed.
ImplementsDurableStore == Atomic!DSpec

=============================================================================
