-------------------------- MODULE LinuxStoreProofs --------------------------
(***************************************************************************)
(* Proofs about LinuxStore, for any number of processes, names and keys    *)
(* and every choice of Faults.                                             *)
(***************************************************************************)
EXTENDS LinuxStore, TLAPS

(***************************************************************************)
(* The inductive invariant.                                                *)
(*                                                                         *)
(* CallInv says what a process knows at each system call: which operation  *)
(* it runs and, in createKey, what its own inode holds.  That the inode is *)
(* its own is OwnKeys.  DataInv ties publication to the contents of the    *)
(* inode; LinkInv follows a published key until its deleteKey.             *)
(***************************************************************************)
CreateAt  == {"stat", "tpm", "temp", "write", "sync", "link", "unlink", "dirsync",
              "cleanup"}
LoadAt    == {"read", "unwrap"}
Making    == {"temp", "write", "sync", "link", "unlink", "dirsync", "cleanup"}
Unlinked  == {"temp", "write", "sync", "link", "cleanup"}
Committed == {"unlink", "dirsync"}
Undecided == {"stat", "tpm", "temp", "write", "sync", "link", "read", "unwrap", "remove"}

CallInv ==
  \A p \in Procs :
     /\ pc[p] = "idle" =>
           op[p] = "none" /\ name[p] = NoName /\ key[p] = NoKey /\ res[p] = "none"
     /\ pc[p] # "idle" => name[p] \in Names /\ op[p] \in Ops
     /\ pc[p] \in CreateAt => op[p] = "create"
     /\ pc[p] \in LoadAt => op[p] = "load"
     /\ pc[p] = "remove" => op[p] = "delete"
     /\ pc[p] \in Making \union {"unwrap"} => key[p] \in Keys
     /\ pc[p] = "temp" => data[key[p]] = "none"
     /\ pc[p] = "write" => data[key[p]] = "empty"
     /\ pc[p] = "sync" => data[key[p]] = "full"
     /\ pc[p] = "link" => data[key[p]] = "synced"
     /\ pc[p] = "cleanup" => data[key[p]] # "none"
     /\ pc[p] \in Undecided => res[p] = "none"
     /\ pc[p] \in Committed => res[p] = "ok"
     /\ pc[p] = "cleanup" => res[p] \in {"exists", "error"}

OwnKeys ==
  \A p, q \in Procs :
     p # q /\ pc[p] \in Making /\ pc[q] \in Making => key[p] # key[q]

DataInv ==
  \A k \in Keys : linked[k] # NoName => data[k] = "synced"

LinkInv ==
  /\ \A p \in Procs :
        /\ pc[p] \in Unlinked => linked[key[p]] = NoName
        /\ pc[p] \in Committed =>
              /\ linked[key[p]] = name[p]
              /\ key[p] \in deleted \/ path[name[p]] = key[p]
  /\ \A k \in acked \union settled : linked[k] \in Names

AckInv ==
  "power" \notin Faults => AckedIsAvailable

SettledInv ==
  /\ settled # {} => storeDir = "durable"
  /\ \A k \in settled : k \in deleted \/ (path[linked[k]] = k /\ dpath[linked[k]] = k)

DeletedInv ==
  /\ buried \subseteq deleted
  /\ \A k \in deleted : linked[k] \in Names
  /\ \A k \in buried : \A n \in Names : path[n] # k /\ dpath[n] # k
  /\ "power" \notin Faults => \A k \in deleted : \A n \in Names : path[n] # k

LeftInv ==
  /\ \A k \in temp \ abandoned : \E p \in Procs : key[p] = k /\ Writing(p)
  /\ \A k \in Keys :
        linked[k] # NoName =>
           \/ k \in acked \union abandoned
           \/ \E p \in Procs : key[p] = k /\ pc[p] \in Committed

IInv ==
  /\ TypeOK
  /\ CallInv
  /\ OwnKeys
  /\ DataInv
  /\ PublishedIsComplete
  /\ LinkInv
  /\ AckInv
  /\ SettledInv
  /\ DeletedInv
  /\ LeftInv

-----------------------------------------------------------------------------
(***************************************************************************)
(* The parts of the invariant that are about the directory and the history *)
(* of keys do not depend on where the processes are.                       *)
(***************************************************************************)
LEMMA DirectoryFrame ==
  ASSUME IInv, UNCHANGED <<dirVars, diskVars, linked, acked, settled, deleted, buried>>
  PROVE  DataInv' /\ PublishedIsComplete' /\ AckInv' /\ SettledInv' /\ DeletedInv'
<1> USE DEF dirVars, diskVars, histVars, IInv
<1>1. DataInv'
  BY DEF DataInv
<1>2. PublishedIsComplete'
  BY DEF PublishedIsComplete
<1>3. AckInv'
  BY DEF AckInv, AckedIsAvailable
<1>4. SettledInv'
  BY DEF SettledInv
<1>5. DeletedInv'
  BY DEF DeletedInv
<1> QED
  BY <1>1, <1>2, <1>3, <1>4, <1>5

LEMMA InitIInv == Init => IInv
<1> SUFFICES ASSUME Init PROVE IInv
  OBVIOUS
<1> USE LinuxStoreAssumption DEF Init
<1>1. TypeOK
  BY DEF TypeOK, Locations, Results, DataStates
<1>2. CallInv
  BY DEF CallInv, CreateAt, LoadAt, Making, Committed
<1>3. OwnKeys
  BY DEF OwnKeys, Making
<1>4. DataInv /\ PublishedIsComplete
  BY DEF DataInv, PublishedIsComplete
<1>5. LinkInv
  BY DEF LinkInv, Unlinked, Committed
<1>6. AckInv /\ SettledInv /\ DeletedInv
  BY DEF AckInv, AckedIsAvailable, SettledInv, DeletedInv
<1>7. LeftInv
  BY DEF LeftInv, NothingLeftBehind
<1> QED
  BY <1>1, <1>2, <1>3, <1>4, <1>5, <1>6, <1>7 DEF IInv

(***************************************************************************)
(* Steps that change nothing but the process's own call.                   *)
(***************************************************************************)
LEMMA CallCreateKeepsIInv ==
  ASSUME IInv, NEW p \in Procs, CallCreate(p)
  PROVE  IInv'
<1> USE LinuxStoreAssumption
       DEF IInv, CallCreate, Call, Goto, At, callVars, dirVars, diskVars, histVars
<1>1. TypeOK'
  BY DEF TypeOK, Locations, Ops
<1>2. CallInv'
  BY DEF TypeOK, CallInv, LoadAt, Making, Committed, Ops
<1>3. OwnKeys'
  BY DEF CallInv, OwnKeys
<1>4. LinkInv'
  BY DEF LinkInv, Unlinked, Committed
<1>5. LeftInv'
  BY DEF LeftInv, Writing, Committed
<1> QED
  BY <1>1, <1>2, <1>3, <1>4, <1>5, DirectoryFrame

LEMMA CallLoadKeepsIInv ==
  ASSUME IInv, NEW p \in Procs, CallLoad(p)
  PROVE  IInv'
<1> USE LinuxStoreAssumption
       DEF IInv, CallLoad, Call, Goto, At, callVars, dirVars, diskVars, histVars
<1>1. TypeOK'
  BY DEF TypeOK, Locations, Ops
<1>2. CallInv'
  BY DEF TypeOK, CallInv, CreateAt, Making, Committed, Ops
<1>3. OwnKeys'
  BY DEF CallInv, OwnKeys
<1>4. LinkInv'
  BY DEF LinkInv, Unlinked, Committed
<1>5. LeftInv'
  BY DEF LeftInv, Writing, Committed
<1> QED
  BY <1>1, <1>2, <1>3, <1>4, <1>5, DirectoryFrame

LEMMA CallDeleteKeepsIInv ==
  ASSUME IInv, NEW p \in Procs, CallDelete(p)
  PROVE  IInv'
<1> USE LinuxStoreAssumption
       DEF IInv, CallDelete, Call, Goto, At, callVars, dirVars, diskVars, histVars
<1>1. TypeOK'
  BY DEF TypeOK, Locations, Ops
<1>2. CallInv'
  BY DEF TypeOK, CallInv, CreateAt, LoadAt, Making, Committed, Ops
<1>3. OwnKeys'
  BY DEF CallInv, OwnKeys
<1>4. LinkInv'
  BY DEF LinkInv, Unlinked, Committed
<1>5. LeftInv'
  BY DEF LeftInv, Writing, Committed
<1> QED
  BY <1>1, <1>2, <1>3, <1>4, <1>5, DirectoryFrame

LEMMA ReturnKeepsIInv ==
  ASSUME IInv, NEW p \in Procs, Return(p)
  PROVE  IInv'
<1> USE LinuxStoreAssumption
       DEF IInv, Return, Forget, At, callVars, dirVars, diskVars, histVars
<1>1. TypeOK'
  BY DEF TypeOK, Locations, Results
<1>2. CallInv'
  BY DEF TypeOK, CallInv, CreateAt, LoadAt, Making, Committed
<1>3. OwnKeys'
  BY DEF TypeOK, CallInv, OwnKeys
<1>4. LinkInv'
  BY DEF LinkInv, Unlinked, Committed
<1>5. LeftInv'
  BY DEF LeftInv, Writing, Committed
<1> QED
  BY <1>1, <1>2, <1>3, <1>4, <1>5, DirectoryFrame

LEMMA StatKeepsIInv ==
  ASSUME IInv, NEW p \in Procs, Stat(p)
  PROVE  IInv'
<1> USE LinuxStoreAssumption
       DEF IInv, Stat, Finish, Decide, Goto, IOError, At, callVars, dirVars,
           diskVars, histVars
<1>1. TypeOK'
  BY DEF TypeOK, Locations, Results
<1>2. CallInv'
  BY DEF TypeOK, CallInv, CreateAt, LoadAt, Making, Undecided, Committed
<1>3. OwnKeys'
  BY DEF TypeOK, OwnKeys, Making
<1>4. LinkInv'
  BY DEF TypeOK, LinkInv, Unlinked, Committed
<1>5. LeftInv'
  BY DEF TypeOK, LeftInv, Writing, Committed
<1> QED
  BY <1>1, <1>2, <1>3, <1>4, <1>5, DirectoryFrame

LEMMA TpmCreateKeepsIInv ==
  ASSUME IInv, NEW p \in Procs, TpmCreate(p)
  PROVE  IInv'
<1> USE LinuxStoreAssumption
       DEF IInv, TpmCreate, Finish, Decide, Goto, Fresh, At, callVars, dirVars,
           diskVars, histVars
<1>1. TypeOK'
  BY DEF TypeOK, Locations, Results
<1>2. CallInv'
  BY DEF TypeOK, CallInv, CreateAt, LoadAt, Making, Undecided, Committed
<1>3. OwnKeys'
  BY DEF TypeOK, OwnKeys, Making
<1>4. LinkInv'
  BY DEF TypeOK, LinkInv, DataInv, Unlinked, Committed
<1>5. LeftInv'
  BY DEF TypeOK, LeftInv, Writing, Committed
<1> QED
  BY <1>1, <1>2, <1>3, <1>4, <1>5, DirectoryFrame

LEMMA ReadBlobKeepsIInv ==
  ASSUME IInv, NEW p \in Procs, ReadBlob(p)
  PROVE  IInv'
<1> USE LinuxStoreAssumption
       DEF IInv, ReadBlob, Finish, Decide, Goto, At, callVars, dirVars, diskVars,
           histVars
<1>1. TypeOK'
  BY DEF TypeOK, Locations, Results, CallInv
<1>2. CallInv'
  BY DEF TypeOK, CallInv, CreateAt, LoadAt, Making, Undecided, Committed
<1>3. OwnKeys'
  BY DEF TypeOK, OwnKeys, Making
<1>4. LinkInv'
  BY DEF TypeOK, LinkInv, Unlinked, Committed
<1>5. LeftInv'
  BY DEF TypeOK, LeftInv, Writing, Committed
<1> QED
  BY <1>1, <1>2, <1>3, <1>4, <1>5, DirectoryFrame

LEMMA UnwrapKeepsIInv ==
  ASSUME IInv, NEW p \in Procs, Unwrap(p)
  PROVE  IInv'
<1> USE LinuxStoreAssumption
       DEF IInv, Unwrap, Finish, Decide, IOError, At, callVars, dirVars, diskVars,
           histVars
<1>1. TypeOK'
  BY DEF TypeOK, Locations, Results
<1>2. CallInv'
  BY DEF TypeOK, CallInv, CreateAt, LoadAt, Undecided, Committed
<1>3. OwnKeys'
  BY DEF TypeOK, OwnKeys, Making
<1>4. LinkInv'
  BY DEF TypeOK, LinkInv, Unlinked, Committed
<1>5. LeftInv'
  BY DEF TypeOK, LeftInv, Writing, Committed
<1> QED
  BY <1>1, <1>2, <1>3, <1>4, <1>5, DirectoryFrame

LEMMA KillKeepsIInv ==
  ASSUME IInv, NEW p \in Procs, Kill(p)
  PROVE  IInv'
<1> USE LinuxStoreAssumption
       DEF IInv, Kill, Forget, At, callVars, dirVars, diskVars, histVars
<1>1. TypeOK'
  BY DEF TypeOK, Locations, Results, Unfinished
<1>2. CallInv'
  BY DEF TypeOK, CallInv, CreateAt, LoadAt, Making, Committed
<1>3. OwnKeys'
  BY DEF TypeOK, CallInv, OwnKeys
<1>4. LinkInv'
  BY DEF TypeOK, LinkInv, Unlinked, Committed
<1>5. LeftInv'
  <2>1. \A k \in Keys :
          k \notin abandoned' =>
             \A q \in Procs :
                key[q] = k /\ (Writing(q) \/ pc[q] \in Committed) =>
                   q # p /\ key'[q] = k /\ pc'[q] = pc[q] /\ op'[q] = op[q]
    <3> SUFFICES ASSUME NEW k \in Keys, k \notin abandoned', NEW q \in Procs, key[q] = k,
                        Writing(q) \/ pc[q] \in Committed
                 PROVE  q # p /\ key'[q] = k /\ pc'[q] = pc[q] /\ op'[q] = op[q]
      OBVIOUS
    <3>1. k \in Unfinished /\ pc[q] \in Making
      BY DEF Unfinished, Writing, Committed, Making
    <3>2. PICK r \in Procs : key'[r] = k /\ pc'[r] \in Making
      BY <3>1 DEF Unfinished, Making
    <3>3. r # p /\ key[r] = k /\ pc[r] \in Making
      BY <3>2 DEF TypeOK, Making
    <3>4. r = q
      BY <3>1, <3>3 DEF OwnKeys
    <3> QED
      BY <3>3, <3>4
  <2> QED
    BY <2>1 DEF LeftInv, Writing, TypeOK
<1> QED
  BY <1>1, <1>2, <1>3, <1>4, <1>5, DirectoryFrame

(***************************************************************************)
(* Steps on the directory.                                                 *)
(***************************************************************************)
LEMMA CreateTempKeepsIInv ==
  ASSUME IInv, NEW p \in Procs, CreateTemp(p)
  PROVE  IInv'
<1> USE LinuxStoreAssumption
       DEF IInv, CreateTemp, MkdirAll, Finish, Decide, Goto, IOError, At, callVars,
           dirVars, diskVars, histVars
<1>1. TypeOK'
  BY DEF TypeOK, Locations, Results, DataStates, CallInv, Making
<1>2. CallInv'
  BY DEF TypeOK, CallInv, CreateAt, LoadAt, Making, Undecided, Committed, OwnKeys
<1>3. OwnKeys'
  BY DEF TypeOK, OwnKeys, Making
<1>4. DataInv'
  BY DEF TypeOK, CallInv, DataInv
<1>5. PublishedIsComplete'
  BY DEF TypeOK, CallInv, PublishedIsComplete
<1>6. LinkInv'
  BY DEF TypeOK, LinkInv, Unlinked, Committed
<1>7. AckInv'
  BY DEF AckInv, AckedIsAvailable
<1>8. SettledInv'
  BY DEF SettledInv
<1>9. DeletedInv'
  BY DEF DeletedInv
<1>10. LeftInv'
  BY DEF TypeOK, CallInv, LeftInv, Writing, Committed, CreateAt
<1> QED
  BY <1>1, <1>2, <1>3, <1>4, <1>5, <1>6, <1>7, <1>8, <1>9, <1>10

LEMMA WriteTempKeepsIInv ==
  ASSUME IInv, NEW p \in Procs, WriteTemp(p)
  PROVE  IInv'
<1> USE LinuxStoreAssumption
       DEF IInv, WriteTemp, Abort, Decide, Goto, At, callVars, dirVars, diskVars,
           histVars
<1>1. TypeOK'
  BY DEF TypeOK, Locations, Results, DataStates
<1>2. CallInv'
  BY DEF TypeOK, CallInv, CreateAt, LoadAt, Making, Undecided, Committed, OwnKeys
<1>3. OwnKeys'
  BY DEF TypeOK, OwnKeys, Making
<1>4. DataInv'
  BY DEF TypeOK, CallInv, DataInv
<1>5. PublishedIsComplete'
  BY DEF TypeOK, CallInv, PublishedIsComplete
<1>6. LinkInv'
  BY DEF TypeOK, LinkInv, Unlinked, Committed
<1>7. AckInv'
  BY DEF AckInv, AckedIsAvailable
<1>8. SettledInv'
  BY DEF SettledInv
<1>9. DeletedInv'
  BY DEF DeletedInv
<1>10. LeftInv'
  BY DEF TypeOK, LeftInv, Writing, Committed
<1> QED
  BY <1>1, <1>2, <1>3, <1>4, <1>5, <1>6, <1>7, <1>8, <1>9, <1>10

LEMMA SyncTempKeepsIInv ==
  ASSUME IInv, NEW p \in Procs, SyncTemp(p)
  PROVE  IInv'
<1> USE LinuxStoreAssumption
       DEF IInv, SyncTemp, Abort, Decide, Goto, At, callVars, dirVars, diskVars,
           histVars
<1>1. TypeOK'
  BY DEF TypeOK, Locations, Results, DataStates
<1>2. CallInv'
  BY DEF TypeOK, CallInv, CreateAt, LoadAt, Making, Undecided, Committed, OwnKeys
<1>3. OwnKeys'
  BY DEF TypeOK, OwnKeys, Making
<1>4. DataInv'
  BY DEF TypeOK, CallInv, DataInv
<1>5. PublishedIsComplete'
  BY DEF TypeOK, CallInv, PublishedIsComplete
<1>6. LinkInv'
  BY DEF TypeOK, LinkInv, Unlinked, Committed
<1>7. AckInv'
  BY DEF AckInv, AckedIsAvailable
<1>8. SettledInv'
  BY DEF SettledInv
<1>9. DeletedInv'
  BY DEF DeletedInv
<1>10. LeftInv'
  BY DEF TypeOK, LeftInv, Writing, Committed
<1> QED
  BY <1>1, <1>2, <1>3, <1>4, <1>5, <1>6, <1>7, <1>8, <1>9, <1>10

LEMMA LinkBlobKeepsIInv ==
  ASSUME IInv, NEW p \in Procs, LinkBlob(p)
  PROVE  IInv'
<1> USE LinuxStoreAssumption
       DEF IInv, LinkBlob, Abort, Decide, At, callVars, dirVars, diskVars, histVars
<1>1. TypeOK'
  BY DEF TypeOK, Locations, Results
<1>2. CallInv'
  BY DEF TypeOK, CallInv, CreateAt, LoadAt, Making, Undecided, Committed
<1>3. OwnKeys'
  BY DEF TypeOK, OwnKeys, Making
<1>4. DataInv'
  BY DEF TypeOK, CallInv, DataInv
<1>5. PublishedIsComplete'
  BY DEF TypeOK, CallInv, LinkInv, PublishedIsComplete, Unlinked
<1>6. LinkInv'
  BY DEF TypeOK, CallInv, OwnKeys, LinkInv, Unlinked, Committed, Making
<1>7. AckInv'
  BY DEF TypeOK, CallInv, AckInv, AckedIsAvailable, LinkInv
<1>8. SettledInv'
  BY DEF TypeOK, SettledInv, LinkInv, Unlinked
<1>9. DeletedInv'
  BY DEF TypeOK, DeletedInv, LinkInv, Unlinked
<1>10. LeftInv'
  BY DEF TypeOK, LeftInv, Writing, Committed
<1> QED
  BY <1>1, <1>2, <1>3, <1>4, <1>5, <1>6, <1>7, <1>8, <1>9, <1>10

LEMMA CleanupKeepsIInv ==
  ASSUME IInv, NEW p \in Procs, Cleanup(p)
  PROVE  IInv'
<1> USE LinuxStoreAssumption
       DEF IInv, Cleanup, RemoveTempName, Goto, At, callVars, dirVars, diskVars,
           histVars
<1>1. TypeOK'
  BY DEF TypeOK, Locations, CallInv, Making
<1>2. CallInv'
  BY DEF CallInv, CreateAt, LoadAt, Making, Undecided, Committed
<1>3. OwnKeys'
  BY DEF OwnKeys, Making
<1>4. DataInv'
  BY DEF DataInv
<1>5. PublishedIsComplete'
  BY DEF PublishedIsComplete
<1>6. LinkInv'
  BY DEF LinkInv, Unlinked, Committed
<1>7. AckInv'
  BY DEF AckInv, AckedIsAvailable
<1>8. SettledInv'
  BY DEF SettledInv
<1>9. DeletedInv'
  BY DEF DeletedInv
<1>10. LeftInv'
  BY DEF LeftInv, Writing, Committed
<1> QED
  BY <1>1, <1>2, <1>3, <1>4, <1>5, <1>6, <1>7, <1>8, <1>9, <1>10

LEMMA RemoveTempKeepsIInv ==
  ASSUME IInv, NEW p \in Procs, RemoveTemp(p)
  PROVE  IInv'
<1> USE LinuxStoreAssumption
       DEF IInv, RemoveTemp, RemoveTempName, Goto, At, callVars, dirVars, diskVars,
           histVars
<1>1. TypeOK'
  BY DEF TypeOK, Locations, CallInv, Making
<1>2. CallInv'
  BY DEF CallInv, CreateAt, LoadAt, Making, Undecided, Committed
<1>3. OwnKeys'
  BY DEF OwnKeys, Making
<1>4. DataInv'
  BY DEF DataInv
<1>5. PublishedIsComplete'
  BY DEF PublishedIsComplete
<1>6. LinkInv'
  BY DEF LinkInv, Unlinked, Committed
<1>7. AckInv'
  BY DEF AckInv, AckedIsAvailable
<1>8. SettledInv'
  BY DEF SettledInv
<1>9. DeletedInv'
  BY DEF DeletedInv
<1>10. LeftInv'
  BY DEF LeftInv, Writing, Committed
<1> QED
  BY <1>1, <1>2, <1>3, <1>4, <1>5, <1>6, <1>7, <1>8, <1>9, <1>10

LEMMA SyncDirKeepsIInv ==
  ASSUME IInv, NEW p \in Procs, SyncDir(p)
  PROVE  IInv'
<1> USE LinuxStoreAssumption
       DEF IInv, SyncDir, Goto, At, callVars, dirVars, diskVars, histVars
<1>1. TypeOK'
  BY DEF TypeOK, Locations, CallInv, Making, Gone
<1>2. CallInv'
  BY DEF CallInv, CreateAt, LoadAt, Making, Undecided, Committed
<1>3. OwnKeys'
  BY DEF OwnKeys, Making
<1>4. DataInv'
  BY DEF DataInv
<1>5. PublishedIsComplete'
  BY DEF PublishedIsComplete
<1>6. LinkInv'
  BY DEF CallInv, LinkInv, Unlinked, Committed
<1>7. AckInv'
  BY DEF AckInv, AckedIsAvailable, LinkInv, Committed
<1>8. SettledInv'
  BY DEF SettledInv, LinkInv, Committed
<1>9. DeletedInv'
  BY DEF DeletedInv, Gone
<1>10. LeftInv'
  BY DEF LeftInv, Writing, Committed
<1> QED
  BY <1>1, <1>2, <1>3, <1>4, <1>5, <1>6, <1>7, <1>8, <1>9, <1>10

LEMMA RemoveBlobKeepsIInv ==
  ASSUME IInv, NEW p \in Procs, RemoveBlob(p)
  PROVE  IInv'
<1> USE LinuxStoreAssumption
       DEF IInv, RemoveBlob, Finish, Decide, IOError, At, callVars, dirVars,
           diskVars, histVars
<1>1. TypeOK'
  BY DEF TypeOK, Locations, Results, CallInv
<1>2. CallInv'
  BY DEF TypeOK, CallInv, CreateAt, LoadAt, Making, Undecided, Committed
<1>3. OwnKeys'
  BY DEF TypeOK, OwnKeys, Making
<1>4. DataInv'
  BY DEF DataInv
<1>5. PublishedIsComplete'
  BY DEF TypeOK, PublishedIsComplete
<1>6. LinkInv'
  BY DEF TypeOK, CallInv, LinkInv, Unlinked, Committed
<1>7. AckInv'
  BY DEF TypeOK, AckInv, AckedIsAvailable, LinkInv
<1>8. SettledInv'
  BY DEF TypeOK, SettledInv, LinkInv
<1>9. DeletedInv'
  BY DEF TypeOK, CallInv, DeletedInv, PublishedIsComplete
<1>10. LeftInv'
  BY DEF TypeOK, LeftInv, Writing, Committed
<1> QED
  BY <1>1, <1>2, <1>3, <1>4, <1>5, <1>6, <1>7, <1>8, <1>9, <1>10

(***************************************************************************)
(* Steps of the environment.                                               *)
(***************************************************************************)
LEMMA WriteBackKeepsIInv ==
  ASSUME IInv,
         \/ WriteBackDir
         \/ \E n \in Names : WriteBackPath(n)
         \/ \E k \in Keys : WriteBackTemp(k)
  PROVE  IInv'
<1> USE DEF IInv, callVars, dirVars, diskVars, histVars
<1>1. CASE WriteBackDir
  BY <1>1
     DEF WriteBackDir, TypeOK, CallInv, OwnKeys, DataInv, PublishedIsComplete,
         LinkInv, AckInv, SettledInv, DeletedInv, LeftInv, Writing,
         Committed
<1>2. ASSUME NEW n \in Names, WriteBackPath(n) PROVE IInv'
  <2> USE <1>2 DEF WriteBackPath
  <2>1. TypeOK'
    BY DEF TypeOK
  <2>2. CallInv' /\ OwnKeys' /\ DataInv' /\ LinkInv' /\ AckInv' /\ DeletedInv' /\ LeftInv'
    BY DEF CallInv, OwnKeys, DataInv, LinkInv, AckInv, DeletedInv, LeftInv, Writing,
         Committed
  <2>3. PublishedIsComplete' /\ SettledInv'
    BY DEF PublishedIsComplete, SettledInv
  <2> QED
    BY <2>1, <2>2, <2>3
<1>3. ASSUME NEW k \in Keys, WriteBackTemp(k) PROVE IInv'
  BY <1>3
     DEF WriteBackTemp, TypeOK, CallInv, OwnKeys, DataInv, PublishedIsComplete,
         LinkInv, AckInv, SettledInv, DeletedInv, LeftInv, Writing,
         Committed
<1> QED
  BY <1>1, <1>2, <1>3

LEMMA PowerLossKeepsIInv ==
  ASSUME IInv, PowerLoss
  PROVE  IInv'
<1> USE LinuxStoreAssumption DEF IInv, PowerLoss, diskVars, histVars
<1>1. TypeOK'
  BY DEF TypeOK, Locations, Results, DataStates, Unfinished
<1>2. CallInv' /\ OwnKeys'
  BY DEF CallInv, OwnKeys, CreateAt, LoadAt, Making, Committed
<1>3. DataInv'
  BY DEF DataInv
<1>4. PublishedIsComplete'
  BY DEF TypeOK, PublishedIsComplete
<1>5. LinkInv'
  BY DEF LinkInv, Unlinked, Committed
<1>6. AckInv' /\ SettledInv'
  BY DEF AckInv, SettledInv
<1>7. DeletedInv'
  BY DEF TypeOK, DeletedInv
<1>8. LeftInv'
  <2>1. \A k \in Keys, p \in Procs :
          key[p] = k /\ (Writing(p) \/ pc[p] \in Committed) => k \in abandoned'
    BY DEF Unfinished, Writing, Committed
  <2>2. \A k \in temp' \ abandoned' : k \in temp \ abandoned /\ k \in Keys
    BY <1>1 DEF TypeOK
  <2> QED
    BY <2>1, <2>2 DEF LeftInv
<1> QED
  BY <1>1, <1>2, <1>3, <1>4, <1>5, <1>6, <1>7, <1>8

LEMMA StepKeepsIInv == IInv /\ [Next]_vars => IInv'
<1> SUFFICES ASSUME IInv, [Next]_vars PROVE IInv'
  OBVIOUS
<1>1. ASSUME NEW p \in Procs, Start(p) \/ Step(p) \/ Kill(p) PROVE IInv'
  BY <1>1, CallCreateKeepsIInv, CallLoadKeepsIInv, CallDeleteKeepsIInv,
     ReturnKeepsIInv, StatKeepsIInv, TpmCreateKeepsIInv, ReadBlobKeepsIInv,
     UnwrapKeepsIInv, KillKeepsIInv, CreateTempKeepsIInv, WriteTempKeepsIInv,
     SyncTempKeepsIInv, LinkBlobKeepsIInv, CleanupKeepsIInv, RemoveTempKeepsIInv,
     SyncDirKeepsIInv, RemoveBlobKeepsIInv
     DEF Start, Step
<1>2. CASE \/ WriteBackDir
           \/ \E n \in Names : WriteBackPath(n)
           \/ \E k \in Keys : WriteBackTemp(k)
  BY <1>2, WriteBackKeepsIInv
<1>3. CASE PowerLoss
  BY <1>3, PowerLossKeepsIInv
<1>4. CASE UNCHANGED vars
  <2> USE <1>4 DEF vars, callVars
  <2>1. TypeOK' /\ CallInv' /\ OwnKeys' /\ LinkInv' /\ LeftInv'
    BY DEF IInv, dirVars, diskVars, histVars, TypeOK, CallInv, OwnKeys, LinkInv,
           LeftInv, Writing, Committed
  <2> QED
    BY <2>1, DirectoryFrame DEF IInv, histVars
<1> QED
  BY <1>1, <1>2, <1>3, <1>4 DEF Next

(***************************************************************************)
(* The invariant holds in every reachable state.                           *)
(***************************************************************************)
THEOREM Invariance == Spec => []IInv
<1>1. Init => IInv
  BY InitIInv
<1>2. IInv /\ [Next]_vars => IInv'
  BY StepKeepsIInv
<1> QED
  BY <1>1, <1>2, PTL DEF Spec

-----------------------------------------------------------------------------
(***************************************************************************)
(* The properties of LinuxStore.                                           *)
(***************************************************************************)

\* Every variable of the model keeps its type.
THEOREM TypeCorrect == Spec => []TypeOK
<1>1. IInv => TypeOK
  BY DEF IInv
<1> QED
  BY <1>1, Invariance, PTL

\* writeBlob never publishes a torn blob: what a name leads to, in memory or
\* on disk, is complete and synced, through errors, kills and power losses.
THEOREM PublishedBlobsAreComplete == Spec => []PublishedIsComplete
<1>1. IInv => PublishedIsComplete
  BY DEF IInv
<1> QED
  BY <1>1, Invariance, PTL

\* While the power stays on, a key acknowledged by createKey is loadable
\* under its name until a deleteKey removes it.
THEOREM AckedKeysAreAvailable ==
  ASSUME "power" \notin Faults
  PROVE  Spec => []AckedIsAvailable
<1>1. IInv => AckedIsAvailable
  BY DEF IInv, AckInv
<1> QED
  BY <1>1, Invariance, PTL

\* A key whose directory entry was synced is not lost to a power failure.
THEOREM SettledKeysSurvive == Spec => []SettledSurvives
<1>1. IInv => SettledSurvives
  BY DEF IInv, SettledInv, SettledSurvives
<1> QED
  BY <1>1, Invariance, PTL

\* A deletion is final once the directory has been synced after it, whatever
\* power losses follow.
THEOREM BuriedKeysStayGone == Spec => []BuriedStaysGone
<1>1. IInv => BuriedStaysGone
  BY DEF IInv, DeletedInv, BuriedStaysGone
<1> QED
  BY <1>1, Invariance, PTL

\* Whatever fails, a createKey that has returned left nothing in the store
\* directory but an acknowledged key, unless it was not let remove it.
THEOREM NothingIsLeftBehind == Spec => []NothingLeftBehind
<1>1. ASSUME IInv PROVE NothingLeftBehind
  <2>1. ASSUME NEW n \in Names, path[n] # NoKey
        PROVE  \/ path[n] \in acked \union abandoned
               \/ \E p \in Procs : key[p] = path[n] /\ pc[p] \in {"unlink", "dirsync"}
    <3>1. path[n] \in Keys /\ linked[path[n]] # NoName
      BY <1>1, <2>1, LinuxStoreAssumption DEF IInv, TypeOK, PublishedIsComplete
    <3> QED
      BY <1>1, <3>1 DEF IInv, LeftInv, Committed
  <2> QED
    BY <1>1, <2>1 DEF IInv, LeftInv, NothingLeftBehind
<1> QED
  BY <1>1, Invariance, PTL

\* While the power stays on, a deleted key is under no name of the store, but
\* for the temporary name that a createKey is about to remove, or was not let
\* remove.
LEMMA OnlyUnlinkers ==
  ASSUME IInv, "power" \notin Faults, NEW k \in deleted
  PROVE  /\ \A n \in Names : path[n] # k
         /\ k \in temp \ abandoned => \E p \in Procs : key[p] = k /\ pc[p] = "unlink"
<1>1. linked[k] \in Names /\ \A n \in Names : path[n] # k
  BY DEF IInv, DeletedInv
<1>2. ASSUME k \in temp \ abandoned PROVE \E p \in Procs : key[p] = k /\ pc[p] = "unlink"
  <2>1. PICK p \in Procs : key[p] = k /\ Writing(p)
    BY <1>2 DEF IInv, LeftInv
  <2>2. pc[p] \notin Unlinked
    BY <1>1, <2>1, LinuxStoreAssumption DEF IInv, LinkInv
  <2> QED
    BY <2>1, <2>2 DEF Writing, Unlinked
<1> QED
  BY <1>1, <1>2

\* deleteKey's promise, while the power stays on.
THEOREM DeletedKeysAreGone ==
  ASSUME "power" \notin Faults
  PROVE  Spec => []DeletedKeyGone
<1>1. IInv => DeletedKeyGone
  BY OnlyUnlinkers DEF DeletedKeyGone
<1> QED
  BY <1>1, Invariance, PTL

(***************************************************************************)
(* The safety half of DeletedKeyVanishes.  What its fairness adds is only  *)
(* that the createKey at its remove takes that step.                       *)
(***************************************************************************)
Vanished(k) == k \notin temp \ abandoned /\ \A n \in Names : path[n] # k

\* While the power stays on, a deleted key that has left the directory never
\* comes back to it, and one that has not left it is in the hands of a createKey
\* whose very next step, or death, ends its stay.
VanishesForGood ==
  \A k \in deleted :
     /\ Vanished(k) => Vanished(k)'
     /\ ~Vanished(k) =>
           \E p \in Procs :
              key[p] = k /\ At(p, "unlink") /\ (Step(p) \/ Kill(p) => Vanished(k)')

\* No step gives a deleted key a name again, temporary or not.
LEMMA DeletedGetNoName ==
  ASSUME IInv, "power" \notin Faults, [Next]_vars, NEW k \in deleted
  PROVE  /\ \A n \in Names : path'[n] # k
         /\ k \in temp' => k \in temp
         /\ abandoned \subseteq abandoned'
<1> USE DEF histVars, dirVars
<1>1. deleted \subseteq deleted'
  BY DEF Next, Start, CallCreate, CallLoad, CallDelete, Call, Step, Return, Stat, TpmCreate,
         CreateTemp, WriteTemp, SyncTemp, LinkBlob, Cleanup, RemoveTemp, RemoveTempName,
         SyncDir, ReadBlob, Unwrap, RemoveBlob, Kill, WriteBackDir, WriteBackPath,
         WriteBackTemp, PowerLoss, vars
<1>2. \A n \in Names : path'[n] # k
  BY <1>1, StepKeepsIInv DEF IInv, DeletedInv
<1>3. \A p \in Procs : At(p, "temp") => key[p] # k
  BY LinuxStoreAssumption DEF IInv, DeletedInv, LinkInv, Unlinked, At
<1>4. k \in temp' => k \in temp
  BY <1>3
  DEF Next, Start, CallCreate, CallLoad, CallDelete, Call, Step, Return, Stat, TpmCreate,
      CreateTemp, WriteTemp, SyncTemp, LinkBlob, Cleanup, RemoveTemp, RemoveTempName,
      SyncDir, ReadBlob, Unwrap, RemoveBlob, Kill, WriteBackDir, WriteBackPath,
      WriteBackTemp, PowerLoss, vars
<1>5. abandoned \subseteq abandoned'
  BY DEF Next, Start, CallCreate, CallLoad, CallDelete, Call, Step, Return, Stat, TpmCreate,
         CreateTemp, WriteTemp, SyncTemp, LinkBlob, Cleanup, RemoveTemp, RemoveTempName,
         SyncDir, ReadBlob, Unwrap, RemoveBlob, Kill, WriteBackDir, WriteBackPath,
         WriteBackTemp, PowerLoss, vars
<1> QED
  BY <1>2, <1>4, <1>5

\* A deleted key leaves the store directory for good, and the only thing that
\* this can wait for is the remove of a createKey that is about to make it.
THEOREM DeletedKeysVanish ==
  ASSUME "power" \notin Faults
  PROVE  Spec => [][VanishesForGood]_vars
<1>1. ASSUME IInv, [Next]_vars PROVE VanishesForGood
  <2> SUFFICES ASSUME NEW k \in deleted
               PROVE  /\ Vanished(k) => Vanished(k)'
                      /\ ~Vanished(k) =>
                            \E p \in Procs :
                               key[p] = k /\ At(p, "unlink")
                               /\ (Step(p) \/ Kill(p) => Vanished(k)')
    BY DEF VanishesForGood
  <2>1. Vanished(k) => Vanished(k)'
    BY <1>1, DeletedGetNoName DEF Vanished
  <2>2. ASSUME ~Vanished(k)
        PROVE  \E p \in Procs :
                  key[p] = k /\ At(p, "unlink") /\ (Step(p) \/ Kill(p) => Vanished(k)')
    <3>1. k \in temp \ abandoned /\ k \in Keys
      BY <1>1, <2>2 DEF Vanished, IInv, TypeOK, DeletedInv
    <3>2. PICK p \in Procs : key[p] = k /\ At(p, "unlink")
      BY <1>1, <3>1, OnlyUnlinkers DEF At
    <3>3. ASSUME Step(p) PROVE Vanished(k)'
      <4>1. RemoveTempName(p)
        BY <3>2, <3>3
        DEF Step, At, Return, Stat, TpmCreate, CreateTemp, WriteTemp, SyncTemp, LinkBlob,
            Cleanup, RemoveTemp, SyncDir, ReadBlob, Unwrap, RemoveBlob
      <4> QED
        BY <1>1, <3>2, <4>1, DeletedGetNoName DEF RemoveTempName, Vanished
    <3>4. ASSUME Kill(p) PROVE Vanished(k)'
      <4>1. k \in Unfinished
        BY <3>1, <3>2 DEF Unfinished, At
      <4>2. pc'[p] = "idle" /\ \A q \in Procs \ {p} : pc'[q] = pc[q] /\ key'[q] = key[q]
        BY <1>1, <3>4 DEF Kill, Forget, IInv, TypeOK
      <4>3. \A q \in Procs \ {p} : pc[q] \in Making => key[q] # k
        BY <1>1, <3>2 DEF IInv, OwnKeys, At, Making
      <4>4. k \notin Unfinished'
        BY <4>2, <4>3 DEF Unfinished, Making
      <4>5. k \in abandoned'
        BY <3>4, <4>1, <4>4 DEF Kill
      <4> QED
        BY <1>1, <4>5, DeletedGetNoName DEF Vanished
    <3> QED
      BY <3>2, <3>3, <3>4
  <2> QED
    BY <2>1, <2>2
<1> QED
  BY <1>1, Invariance, PTL DEF Spec

\* While the power stays on, no step puts one key in the place of another, and
\* only a deleteKey of that name empties a name: the link never overwrites.
THEOREM NoKeyIsClobbered ==
  ASSUME "power" \notin Faults
  PROVE  Spec => NeverClobbered
<1> DEFINE Kept == \A n \in Names :
        path[n] # NoKey /\ path'[n] # path[n] =>
           /\ path'[n] = NoKey
           /\ \E p \in Procs : op[p] = "delete" /\ name[p] = n /\ res'[p] = "ok"
<1>1. ASSUME IInv, [Next]_vars PROVE Kept
  <2>1. CASE UNCHANGED path
    BY <2>1
  <2>2. ASSUME NEW p \in Procs, LinkBlob(p) PROVE Kept
    BY <1>1, <2>2 DEF IInv, TypeOK, LinkBlob
  <2>3. ASSUME NEW p \in Procs, RemoveBlob(p) PROVE Kept
    BY <1>1, <2>3 DEF IInv, TypeOK, CallInv, RemoveBlob, At, Finish, Decide
  <2>4. path' = path \/ \E p \in Procs : LinkBlob(p) \/ RemoveBlob(p)
    BY <1>1
       DEF Next, vars, dirVars, Start, Call, CallCreate, CallLoad, CallDelete, Step,
           Return, Stat, TpmCreate, CreateTemp, WriteTemp, SyncTemp, Cleanup,
           RemoveTemp, SyncDir, ReadBlob, Unwrap, Kill, WriteBackDir, WriteBackPath,
           WriteBackTemp, PowerLoss
  <2> QED
    BY <2>1, <2>2, <2>3, <2>4
<1>2. IInv /\ [Next]_vars => [Kept]_vars
  BY <1>1
<1> QED
  BY <1>2, Invariance, PTL DEF Spec, NeverClobbered

-----------------------------------------------------------------------------
(***************************************************************************)
(* LinuxStore implements KeyStore.                                         *)
(***************************************************************************)
LEMMA AtomicInit == Init => Atomic!Init
BY DEF Init, Atomic!Init, Issued, Got

LEMMA AtomicStart ==
  ASSUME IInv, NEW p \in Procs, Start(p)
  PROVE  Atomic!Call(p)
<1> USE DEF IInv, TypeOK, CallInv, Call, Goto, At, dirVars, histVars
<1>1. /\ op[p] = "none"
      /\ \E o \in Atomic!Ops, n \in Names :
            op' = [op EXCEPT ![p] = o] /\ name' = [name EXCEPT ![p] = n]
  BY DEF Start, CallCreate, CallLoad, CallDelete, Atomic!Ops
<1>2. UNCHANGED <<path, Issued, res>>
  BY DEF Start, CallCreate, CallLoad, CallDelete, Issued
<1>3. UNCHANGED Got
  BY DEF Start, CallCreate, CallLoad, CallDelete, Got
<1> QED
  BY <1>1, <1>2, <1>3 DEF Atomic!Call, Atomic!Invoke

LEMMA AtomicLeave ==
  ASSUME IInv, NEW p \in Procs, Return(p) \/ Kill(p)
  PROVE  Atomic!Leave(p)
<1> USE DEF IInv, TypeOK, CallInv, Return, Kill, Forget, At, dirVars, histVars
<1>1. op[p] # "none"
  BY DEF Ops
<1>2. Got' = [Got EXCEPT ![p] = NoKey]
  BY DEF Got
<1> QED
  BY <1>1, <1>2 DEF Atomic!Leave, Issued

LEMMA AtomicStat ==
  ASSUME IInv, NEW p \in Procs, Stat(p)
  PROVE  Atomic!Next \/ UNCHANGED Atomic!vars
<1> USE DEF IInv, TypeOK, CallInv, CreateAt, Undecided, Stat, At, dirVars, histVars
<1>1. op[p] = "create" /\ res[p] = "none" /\ UNCHANGED <<path, Issued, op, name>>
  BY DEF Issued
<1>2. CASE path[name[p]] # NoKey /\ Finish(p, "exists")
  <2>1. UNCHANGED Got
    BY <1>1, <1>2 DEF Finish, Decide, Got
  <2>2. Atomic!Exists(p)
    BY <1>1, <1>2, <2>1
       DEF Finish, Decide, Atomic!Exists, Atomic!Pending, Atomic!Decide
  <2> QED
    BY <2>2 DEF Atomic!Next
<1>3. CASE Goto(p, "tpm")
  BY <1>1, <1>3 DEF Goto, Got, Atomic!vars
<1>4. CASE IOError(p)
  <2>1. Got' = [Got EXCEPT ![p] = NoKey]
    BY <1>1, <1>4 DEF IOError, Finish, Decide, Got
  <2>2. Atomic!Fail(p)
    BY <1>1, <1>4, <2>1
       DEF IOError, Finish, Decide, Atomic!Fail, Atomic!Pending, Atomic!Decide,
           Atomic!Ops
  <2> QED
    BY <2>2 DEF Atomic!Next
<1> QED
  BY <1>2, <1>3, <1>4

LEMMA AtomicTpmCreate ==
  ASSUME IInv, NEW p \in Procs, TpmCreate(p)
  PROVE  Atomic!Next \/ UNCHANGED Atomic!vars
<1> USE
       DEF IInv, TypeOK, CallInv, CreateAt, Undecided, TpmCreate, At, dirVars,
           histVars
<1>1. op[p] = "create" /\ res[p] = "none" /\ UNCHANGED <<path, Issued, op, name>>
  BY DEF Issued
<1>2. CASE Goto(p, "temp")
  BY <1>1, <1>2 DEF Goto, Got, Atomic!vars
<1>3. CASE Finish(p, "error") /\ UNCHANGED key
  <2>1. Got' = [Got EXCEPT ![p] = NoKey]
    BY <1>1, <1>3 DEF Finish, Decide, Got
  <2>2. Atomic!Fail(p)
    BY <1>1, <1>3, <2>1
       DEF Finish, Decide, Atomic!Fail, Atomic!Pending, Atomic!Decide, Atomic!Ops
  <2> QED
    BY <2>2 DEF Atomic!Next
<1> QED
  BY <1>2, <1>3

\* The steps of writeBlob before its commit.
LEMMA AtomicWrite ==
  ASSUME IInv, NEW p \in Procs, CreateTemp(p) \/ WriteTemp(p) \/ SyncTemp(p)
  PROVE  Atomic!Next \/ UNCHANGED Atomic!vars
<1> USE
       DEF IInv, TypeOK, CallInv, CreateAt, Undecided, CreateTemp, WriteTemp,
           SyncTemp, At, histVars
<1>1. /\ op[p] = "create" /\ res[p] = "none" /\ pc[p] \in {"temp", "write", "sync"}
      /\ UNCHANGED <<path, Issued, op, name, key>>
  BY DEF Issued
<1>2. CASE \E l \in {"write", "sync", "link"} : Goto(p, l)
  BY <1>1, <1>2 DEF Goto, Got, Atomic!vars
<1>3. CASE \E l \in {"done", "cleanup"} : Decide(p, l, "error")
  <2>1. Got' = [Got EXCEPT ![p] = NoKey]
    BY <1>1, <1>3 DEF Decide, Got
  <2>2. Atomic!Fail(p)
    BY <1>1, <1>3, <2>1
       DEF Decide, Atomic!Fail, Atomic!Pending, Atomic!Decide, Atomic!Ops
  <2> QED
    BY <2>2 DEF Atomic!Next
<1> QED
  BY <1>2, <1>3 DEF Abort, IOError, Finish

\* The commit.
LEMMA AtomicLinkBlob ==
  ASSUME IInv, NEW p \in Procs, LinkBlob(p)
  PROVE  Atomic!Next
<1> USE DEF IInv, TypeOK, CallInv, CreateAt, Undecided, LinkBlob, At, Abort
<1>1. /\ op[p] = "create" /\ res[p] = "none" /\ key[p] \in Keys /\ name[p] \in Names
      /\ linked[key[p]] = NoName
      /\ UNCHANGED <<op, name, key>>
  BY DEF Making, LinkInv, Unlinked
<1>2. CASE /\ path[name[p]] = NoKey
           /\ path' = [path EXCEPT ![name[p]] = key[p]]
           /\ linked' = [linked EXCEPT ![key[p]] = name[p]]
           /\ Decide(p, "unlink", "ok")
  <2>1. Got' = [Got EXCEPT ![p] = key[p]]
    BY <1>1, <1>2 DEF Decide, Got
  <2>2. key[p] \in Keys \ Issued /\ Issued' = Issued \union {key[p]}
    BY <1>1, <1>2, LinuxStoreAssumption DEF Issued
  <2>3. Atomic!Bind(p)
    BY <1>1, <1>2, <2>1, <2>2 DEF Decide, Atomic!Bind, Atomic!BindKey, Atomic!Pending, Atomic!Decide
  <2> QED
    BY <2>3 DEF Atomic!Next
<1>3. CASE UNCHANGED <<path, linked>> /\ path[name[p]] # NoKey /\ Decide(p, "cleanup", "exists")
  <2>1. UNCHANGED <<Got, Issued>>
    BY <1>1, <1>3 DEF Decide, Got, Issued
  <2>2. Atomic!Exists(p)
    BY <1>1, <1>3, <2>1 DEF Decide, Atomic!Exists, Atomic!Pending, Atomic!Decide
  <2> QED
    BY <2>2 DEF Atomic!Next
<1>4. CASE UNCHANGED <<path, linked>> /\ Decide(p, "cleanup", "error")
  <2>1. Got' = [Got EXCEPT ![p] = NoKey] /\ UNCHANGED Issued
    BY <1>1, <1>4 DEF Decide, Got, Issued
  <2>2. Atomic!Fail(p)
    BY <1>1, <1>4, <2>1
       DEF Decide, Atomic!Fail, Atomic!Pending, Atomic!Decide, Atomic!Ops
  <2> QED
    BY <2>2 DEF Atomic!Next
<1> QED
  BY <1>2, <1>3, <1>4

\* The steps after the decision.
LEMMA AtomicStutter ==
  ASSUME IInv, NEW p \in Procs, Cleanup(p) \/ RemoveTemp(p) \/ SyncDir(p)
  PROVE  UNCHANGED Atomic!vars
<1> USE
       DEF IInv, TypeOK, CallInv, CreateAt, Committed, Cleanup, RemoveTemp, SyncDir,
           At, Goto, RemoveTempName, dirVars, histVars
<1>1. UNCHANGED <<path, Issued, op, name, res>>
  BY DEF Issued
<1>2. UNCHANGED Got
  BY DEF Got
<1> QED
  BY <1>1, <1>2 DEF Atomic!vars

LEMMA AtomicReadBlob ==
  ASSUME IInv, NEW p \in Procs, ReadBlob(p)
  PROVE  Atomic!Next
<1> USE
       DEF IInv, TypeOK, CallInv, LoadAt, Undecided, ReadBlob, At, dirVars, histVars
<1>1. op[p] = "load" /\ res[p] = "none" /\ Got[p] = NoKey /\ UNCHANGED <<path, Issued, op, name>>
  BY DEF Issued, Got
<1>2. CASE path[name[p]] = NoKey /\ Finish(p, "notfound") /\ UNCHANGED key
  <2>1. UNCHANGED Got
    BY <1>1, <1>2 DEF Finish, Decide, Got
  <2>2. Atomic!NotFound(p)
    BY <1>1, <1>2, <2>1
       DEF Finish, Decide, Atomic!NotFound, Atomic!Pending, Atomic!Decide
  <2> QED
    BY <2>2 DEF Atomic!Next
<1>3. CASE /\ path[name[p]] # NoKey
           /\ key' = [key EXCEPT ![p] = path[name[p]]]
           /\ Goto(p, "unwrap")
  <2>1. Got' = [Got EXCEPT ![p] = path[name[p]]]
    BY <1>1, <1>3 DEF Goto, Got
  <2>2. Atomic!LookUp(p)
    BY <1>1, <1>3, <2>1 DEF Goto, Atomic!LookUp, Atomic!Pending
  <2> QED
    BY <2>2 DEF Atomic!Next
<1>4. CASE Finish(p, "error") /\ UNCHANGED key
  <2>1. Got' = [Got EXCEPT ![p] = NoKey]
    BY <1>1, <1>4 DEF Finish, Decide, Got
  <2>2. Atomic!Fail(p)
    BY <1>1, <1>4, <2>1
       DEF Finish, Decide, Atomic!Fail, Atomic!Pending, Atomic!Decide, Atomic!Ops
  <2> QED
    BY <2>2 DEF Atomic!Next
<1> QED
  BY <1>2, <1>3, <1>4

LEMMA AtomicUnwrap ==
  ASSUME IInv, NEW p \in Procs, Unwrap(p)
  PROVE  Atomic!Next
<1> USE DEF IInv, TypeOK, CallInv, LoadAt, Undecided, Unwrap, At, dirVars, histVars
<1>1. op[p] = "load" /\ res[p] = "none" /\ key[p] \in Keys /\ UNCHANGED <<path, Issued, op, name, key>>
  BY DEF Issued
<1>2. CASE Finish(p, "ok")
  <2>1. Got[p] # NoKey /\ UNCHANGED Got
    BY <1>1, <1>2, LinuxStoreAssumption DEF Finish, Decide, Got
  <2>2. Atomic!Loaded(p)
    BY <1>1, <1>2, <2>1
       DEF Finish, Decide, Atomic!Loaded, Atomic!Pending, Atomic!Decide
  <2> QED
    BY <2>2 DEF Atomic!Next
<1>3. CASE IOError(p)
  <2>1. Got' = [Got EXCEPT ![p] = NoKey]
    BY <1>1, <1>3 DEF IOError, Finish, Decide, Got
  <2>2. Atomic!Fail(p)
    BY <1>1, <1>3, <2>1
       DEF IOError, Finish, Decide, Atomic!Fail, Atomic!Pending, Atomic!Decide,
           Atomic!Ops
  <2> QED
    BY <2>2 DEF Atomic!Next
<1> QED
  BY <1>2, <1>3

LEMMA AtomicRemoveBlob ==
  ASSUME IInv, NEW p \in Procs, RemoveBlob(p)
  PROVE  Atomic!Next
<1> USE DEF IInv, TypeOK, CallInv, Undecided, RemoveBlob, At
<1>1. op[p] = "delete" /\ res[p] = "none" /\ Got[p] = NoKey /\ UNCHANGED <<Issued, op, name, key>>
  BY DEF Issued, Got
<1>2. \A r \in {"ok", "notfound", "error"} : Finish(p, r) => UNCHANGED Got
  BY <1>1 DEF Finish, Decide, Got
<1>3. CASE /\ path[name[p]] # NoKey
           /\ path' = [path EXCEPT ![name[p]] = NoKey]
           /\ Finish(p, "ok")
  <2>1. Atomic!Unbind(p)
    BY <1>1, <1>2, <1>3
       DEF Finish, Decide, Atomic!Unbind, Atomic!Pending, Atomic!Decide
  <2> QED
    BY <2>1 DEF Atomic!Next
<1>4. CASE path[name[p]] = NoKey /\ Finish(p, "notfound") /\ UNCHANGED path
  <2>1. Atomic!NotFound(p)
    BY <1>1, <1>2, <1>4
       DEF Finish, Decide, Atomic!NotFound, Atomic!Pending, Atomic!Decide
  <2> QED
    BY <2>1 DEF Atomic!Next
<1>5. CASE IOError(p) /\ UNCHANGED path
  <2>1. Finish(p, "error")
    BY <1>5 DEF IOError
  <2>2. Got = [Got EXCEPT ![p] = NoKey]
    BY <1>1 DEF Got
  <2>3. Atomic!Fail(p)
    BY <1>1, <1>2, <1>5, <2>1, <2>2
       DEF Finish, Decide, Atomic!Fail, Atomic!Pending, Atomic!Decide, Atomic!Ops
  <2> QED
    BY <2>3 DEF Atomic!Next
<1> QED
  BY <1>3, <1>4, <1>5

\* What a process does, with or without power losses in between, is a step of
\* KeyStore or none.
LEMMA AtomicStep ==
  ASSUME IInv, NEW p \in Procs, Start(p) \/ Step(p) \/ Kill(p)
  PROVE  Atomic!Next \/ UNCHANGED Atomic!vars
<1>1. CASE Start(p)
  BY <1>1, AtomicStart DEF Atomic!Next
<1>2. CASE Kill(p) \/ Return(p)
  BY <1>2, AtomicLeave DEF Atomic!Next
<1>3. CASE Step(p) /\ ~Return(p)
  BY <1>3, AtomicStat, AtomicTpmCreate, AtomicWrite, AtomicLinkBlob, AtomicStutter,
     AtomicReadBlob, AtomicUnwrap, AtomicRemoveBlob
     DEF Step
<1> QED
  BY <1>1, <1>2, <1>3

\* As long as the power stays on, whatever the processes do to one another,
\* createKey, loadKey and deleteKey behave like atomic operations on a map from
\* names to keys.
THEOREM Refinement ==
  ASSUME "power" \notin Faults
  PROVE  Spec => ImplementsKeyStore
<1>1. ASSUME IInv, [Next]_vars PROVE [Atomic!Next]_(Atomic!vars)
  <2>1. CASE \E p \in Procs : Start(p) \/ Step(p) \/ Kill(p)
    BY <1>1, <2>1, AtomicStep
  <2>2. CASE \/ WriteBackDir \/ PowerLoss
             \/ \E n \in Names : WriteBackPath(n)
             \/ \E k \in Keys : WriteBackTemp(k)
    BY <2>2 DEF WriteBackDir, WriteBackPath, WriteBackTemp, PowerLoss
  <2>3. CASE UNCHANGED vars
    BY <2>3 DEF vars, callVars, dirVars, histVars, Atomic!vars, Issued, Got
  <2> QED
    BY <1>1, <2>1, <2>2, <2>3 DEF Next
<1> QED
  BY <1>1, AtomicInit, Invariance, PTL DEF Spec, ImplementsKeyStore, Atomic!Spec

(***************************************************************************)
(* With power losses LinuxStore implements DurableStore: a step of a       *)
(* process is one of KeyStore's, or its directory sync; the write-backs of *)
(* the kernel and the power loss are DurableStore's own.                   *)
(***************************************************************************)
Durable == storeDir = "durable"

LEMMA DurableStep ==
  ASSUME IInv, NEW p \in Procs, Start(p) \/ Step(p) \/ Kill(p)
  PROVE  Atomic!DNext \/ UNCHANGED Atomic!dvars
<1>1. CASE SyncDir(p)
  <2>1. UNCHANGED Atomic!vars /\ Durable' = Durable
    BY <1>1, AtomicStutter DEF SyncDir, dirVars, Durable
  <2>2. op[p] = "create" /\ res[p] = "ok"
    BY <1>1 DEF SyncDir, At, IInv, CallInv, CreateAt, Committed
  <2>3. dpath' = path \/ dpath' = dpath
    BY <1>1 DEF SyncDir, diskVars
  <2>4. CASE dpath' = path
    BY <2>1, <2>2, <2>4 DEF Atomic!DNext, Atomic!SyncStore, Durable
  <2>5. CASE dpath' = dpath
    BY <2>1, <2>5 DEF Atomic!dvars, Durable
  <2> QED
    BY <2>3, <2>4, <2>5
<1>2. CASE ~SyncDir(p)
  <2>1. dpath' = dpath /\ Durable' = Durable
    BY <1>2
    DEF Start, CallCreate, CallLoad, CallDelete, Call, Step, Return, Stat, TpmCreate,
        CreateTemp, MkdirAll, WriteTemp, SyncTemp, LinkBlob, Cleanup, RemoveTemp,
        ReadBlob, Unwrap, RemoveBlob, Kill, dirVars, diskVars, Durable
  <2>2. Atomic!Next \/ UNCHANGED Atomic!vars
    BY AtomicStep
  <2> QED
    BY <2>1, <2>2 DEF Atomic!DNext, Atomic!Operate, Atomic!dvars, Durable
<1> QED
  BY <1>1, <1>2

LEMMA DurablePowerLoss == ASSUME IInv, PowerLoss PROVE Atomic!PowerLoss
<1> USE DEF PowerLoss, histVars
<1>1. UNCHANGED Issued /\ Durable' = Durable
  BY DEF Issued, Durable
<1>2. Got' = [p \in Procs |-> NoKey]
  BY DEF Got
<1>3. path' = (IF Durable THEN dpath ELSE Atomic!Empty) /\ dpath' = path'
  BY DEF Durable, Atomic!Empty, diskVars
<1> QED
  BY <1>1, <1>2, <1>3 DEF Atomic!PowerLoss, Durable

LEMMA DurableWriteBack ==
  ASSUME \/ WriteBackDir
         \/ \E n \in Names : WriteBackPath(n)
         \/ \E k \in Keys : WriteBackTemp(k)
  PROVE  Atomic!DNext \/ UNCHANGED Atomic!dvars
<1>1. UNCHANGED Atomic!vars
  BY DEF WriteBackDir, WriteBackPath, WriteBackTemp, callVars, dirVars, histVars,
         Atomic!vars, Issued, Got
<1>2. CASE WriteBackDir
  BY <1>1, <1>2 DEF WriteBackDir, diskVars, Atomic!DNext, Atomic!WriteBackStore
<1>3. ASSUME NEW n \in Names, WriteBackPath(n) PROVE Atomic!DNext
  <2>1. Atomic!WriteBack(n)
    BY <1>1, <1>3 DEF WriteBackPath, dirVars, Atomic!WriteBack
  <2> QED
    BY <2>1 DEF Atomic!DNext
<1>4. ASSUME NEW k \in Keys, WriteBackTemp(k) PROVE UNCHANGED Atomic!dvars
  BY <1>1, <1>4 DEF WriteBackTemp, dirVars, Atomic!dvars
<1> QED
  BY <1>2, <1>3, <1>4

\* Whatever fails, power included, the processes and the directory behave like
\* an atomic map with a disk under it: a power loss takes the map back to
\* entries that had been written, and what a createKey has synced is written.
THEOREM DurableRefinement == Spec => ImplementsDurableStore
<1>1. Init => Atomic!DInit
  BY AtomicInit DEF Init, Atomic!DInit, Atomic!Empty
<1>2. ASSUME IInv, [Next]_vars PROVE [Atomic!DNext]_(Atomic!dvars)
  <2>1. CASE UNCHANGED vars
    BY <2>1
    DEF vars, callVars, dirVars, diskVars, histVars, Atomic!dvars, Atomic!vars, Issued, Got
  <2>2. CASE PowerLoss
    BY <1>2, <2>2, DurablePowerLoss DEF Atomic!DNext
  <2> QED
    BY <1>2, <2>1, <2>2, DurableStep, DurableWriteBack DEF Next
<1> QED
  BY <1>1, <1>2, Invariance, PTL DEF Spec, ImplementsDurableStore, Atomic!DSpec

=============================================================================
