------------------------------ MODULE KeyStore ------------------------------
(***************************************************************************)
(* What key.go asks of every backend: three operations on a store that     *)
(* binds names to keys,                                                    *)
(*                                                                         *)
(*   createKey(name)   binds a new key to a name that is not bound,        *)
(*   loadKey(name)     returns the key bound to the name,                  *)
(*   deleteKey(name)   unbinds the name,                                   *)
(*                                                                         *)
(* called by any number of processes at once.  A call that succeeds, or    *)
(* that reports "exists" or "notfound", takes effect at one instant        *)
(* between its start and its return.  A call that reports "error" has no   *)
(* effect, except for a create of a backend that MayOrphan: the Windows    *)
(* and the macOS createKey can return an error and leave their key.  A     *)
(* caller may die at any point (Leave), and what its call did so far       *)
(* stays.                                                                  *)
(*                                                                         *)
(* LinuxStore is shown to implement this module with MayOrphan FALSE,      *)
(* WindowsStore with MayOrphan TRUE, and so is DarwinKeychain for users    *)
(* who keep off a name that is being created; DurableStore adds power      *)
(* losses; Commands builds the program's commands on it.                   *)
(***************************************************************************)

CONSTANTS
  Procs,    \* processes of the program that share one store
  Names,    \* key names
  Keys,     \* key identities; every createKey makes a new one
  NoKey,    \* "no key is bound", "this call holds no key"
  NoName,   \* the name argument of a process that runs no call
  MayOrphan \* TRUE if a create that has bound its key may report an error

VARIABLES
  store,    \* store[n]: the key bound to n, or NoKey
  issued,   \* the keys that were ever bound
  op,       \* op[p]: the call p runs, or "none"
  name,     \* name[p]: its argument
  got,      \* got[p]: the key a load has looked up or a create has bound
  res       \* res[p]: the result of the call, "none" while it is not decided

vars == <<store, issued, op, name, got, res>>

Ops == {"create", "load", "delete"}

Init ==
  /\ store = [n \in Names |-> NoKey]
  /\ issued = {}
  /\ op = [p \in Procs |-> "none"]
  /\ name = [p \in Procs |-> NoName]
  /\ got = [p \in Procs |-> NoKey]
  /\ res = [p \in Procs |-> "none"]

(***************************************************************************)
(* A call starts, and its process later takes the result or dies.          *)
(***************************************************************************)
Invoke(p, o, n) ==
  /\ op[p] = "none"
  /\ op' = [op EXCEPT ![p] = o]
  /\ name' = [name EXCEPT ![p] = n]
  /\ UNCHANGED <<store, issued, got, res>>

Call(p) == \E o \in Ops, n \in Names : Invoke(p, o, n)

Leave(p) ==
  /\ op[p] # "none"
  /\ op' = [op EXCEPT ![p] = "none"]
  /\ name' = [name EXCEPT ![p] = NoName]
  /\ got' = [got EXCEPT ![p] = NoKey]
  /\ res' = [res EXCEPT ![p] = "none"]
  /\ UNCHANGED <<store, issued>>

(***************************************************************************)
(* The instants at which calls take effect.                                *)
(***************************************************************************)
Pending(p, ops) == op[p] \in ops /\ res[p] = "none"

Decide(p, r) == res' = [res EXCEPT ![p] = r]

BindKey(n, k) ==
  /\ store[n] = NoKey
  /\ store' = [store EXCEPT ![n] = k]
  /\ issued' = issued \union {k}

Bind(p) ==
  /\ Pending(p, {"create"})
  /\ \E k \in Keys \ issued :
        BindKey(name[p], k) /\ got' = [got EXCEPT ![p] = k]
  /\ Decide(p, "ok")
  /\ UNCHANGED <<op, name>>

Exists(p) ==
  /\ Pending(p, {"create"})
  /\ store[name[p]] # NoKey
  /\ Decide(p, "exists")
  /\ UNCHANGED <<store, issued, op, name, got>>

LookUp(p) ==
  /\ Pending(p, {"load"})
  /\ got[p] = NoKey
  /\ store[name[p]] # NoKey
  /\ got' = [got EXCEPT ![p] = store[name[p]]]
  /\ UNCHANGED <<store, issued, op, name, res>>

Loaded(p) ==
  /\ Pending(p, {"load"})
  /\ got[p] # NoKey
  /\ Decide(p, "ok")
  /\ UNCHANGED <<store, issued, op, name, got>>

Unbind(p) ==
  /\ Pending(p, {"delete"})
  /\ store[name[p]] # NoKey
  /\ store' = [store EXCEPT ![name[p]] = NoKey]
  /\ Decide(p, "ok")
  /\ UNCHANGED <<issued, op, name, got>>

NotFound(p) ==
  /\ Pending(p, {"load", "delete"})
  /\ got[p] = NoKey
  /\ store[name[p]] = NoKey
  /\ Decide(p, "notfound")
  /\ UNCHANGED <<store, issued, op, name, got>>

\* A create fails and leaves its key, which others may have seen before.
Orphan(p) ==
  /\ MayOrphan
  /\ op[p] = "create"
  /\ \/ res[p] = "ok" /\ UNCHANGED <<store, issued>>
     \/ res[p] = "none" /\ \E k \in Keys \ issued : BindKey(name[p], k)
  /\ got' = [got EXCEPT ![p] = NoKey]
  /\ Decide(p, "error")
  /\ UNCHANGED <<op, name>>

Fail(p) ==
  /\ Pending(p, Ops)
  /\ got' = [got EXCEPT ![p] = NoKey]
  /\ Decide(p, "error")
  /\ UNCHANGED <<store, issued, op, name>>

Next ==
  \E p \in Procs :
     \/ Call(p) \/ Leave(p)
     \/ Bind(p) \/ Exists(p)
     \/ LookUp(p) \/ Loaded(p)
     \/ Unbind(p) \/ NotFound(p)
     \/ Orphan(p) \/ Fail(p)

Spec == Init /\ [][Next]_vars

=============================================================================
