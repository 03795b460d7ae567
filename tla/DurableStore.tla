---------------------------- MODULE DurableStore ----------------------------
(***************************************************************************)
(* The store of KeyStore on a machine that may lose power.  Calls take     *)
(* effect on what processes see (store) and reach the disk later: entry by *)
(* entry, whenever the kernel likes, or all at once when a createKey that  *)
(* has succeeded syncs the store.  A power loss ends every process and     *)
(* takes the store back to what the disk holds.  Nothing else is lost, and *)
(* no call ever sees or leaves anything in between.                        *)
(***************************************************************************)
EXTENDS KeyStore

VARIABLES
  disk,  \* disk[n]: the key that a power loss would leave bound to n
  kept   \* whether the disk has the store itself, and not only its entries

dvars == <<vars, disk, kept>>

Empty == [n \in Names |-> NoKey]

DInit == Init /\ disk = Empty /\ kept \in BOOLEAN

Operate == Next /\ UNCHANGED <<disk, kept>>

WriteBack(n) ==
  /\ disk' = [disk EXCEPT ![n] = store[n]]
  /\ UNCHANGED <<vars, kept>>

WriteBackStore == kept' = TRUE /\ UNCHANGED <<vars, disk>>

SyncStore(p) ==
  /\ op[p] = "create"
  /\ res[p] = "ok"
  /\ disk' = store
  /\ UNCHANGED <<vars, kept>>

PowerLoss ==
  /\ store' = IF kept THEN disk ELSE Empty
  /\ disk' = store'
  /\ op' = [p \in Procs |-> "none"]
  /\ name' = [p \in Procs |-> NoName]
  /\ got' = [p \in Procs |-> NoKey]
  /\ res' = [p \in Procs |-> "none"]
  /\ UNCHANGED <<issued, kept>>

DNext ==
  \/ Operate
  \/ \E n \in Names : WriteBack(n)
  \/ WriteBackStore
  \/ \E p \in Procs : SyncStore(p)
  \/ PowerLoss

DSpec == DInit /\ [][DNext]_dvars

=============================================================================
