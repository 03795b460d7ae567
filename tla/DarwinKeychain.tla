--------------------------- MODULE DarwinKeychain ---------------------------
(***************************************************************************)
(* The key store of the macOS backend (key_darwin.go, keychain_darwin.c):  *)
(* createKey, loadKey and deleteKey, run by several processes on one       *)
(* keychain, one action per call into the Security framework, and the      *)
(* signer that the first two return, with the reference (SecKeyRef) that   *)
(* they hand over to it.                                                   *)
(*                                                                         *)
(* The keychain identifies a private key by its public key and lets any    *)
(* number of them have one application tag (the name), so it is modelled   *)
(* as the tag of every key.  A lookup by tag returns one of the matching   *)
(* keys, a deletion by tag removes all of them.                            *)
(*                                                                         *)
(* Faults:  "lookup"  SecItemCopyMatching reports an error                 *)
(*          "create"  SecKeyCreateRandomKey fails                          *)
(*          "export"  copyPublicKey fails                                  *)
(*          "delete"  SecItemDelete reports an error and deletes nothing   *)
(***************************************************************************)

EXTENDS Integers

CONSTANTS
  Procs, Names, Keys, NoKey, NoName,
  MaxSigns,  \* bound on the Signs that run at once on one signer
  Faults

ASSUME DarwinKeychainAssumption ==
  /\ NoKey \notin Keys
  /\ NoName \notin Names
  /\ MaxSigns \in Nat
  /\ Faults \subseteq {"lookup", "create", "export", "delete"}

VARIABLES
  pc,       \* pc[p]: the next framework call; "signer" while p has a signer
  op,       \* op[p]: "create", "load", "delete" or "none"
  name,     \* name[p]: the key name it was called with
  ref,      \* ref[p]: the key whose SecKeyRef the call or the signer has, or NoKey
  res,      \* res[p]: its result, "none" while it is not decided
  retained, \* retained[p]: the references that p has and has not released
  signing,  \* signing[p]: how many Signs run on the signer of p
  tag,      \* tag[k]: the tag of the item k, or NoName if there is no such item
  born,     \* the keys that were ever made
  acked,    \* the keys whose createKey has succeeded
  deleted,  \* the keys a deleteKey has removed
  orphans   \* the keys that the clean-up of a failed createKey did not remove

callVars == <<pc, op, name, ref, res>>
refVars  == <<retained, signing>>
histVars == <<born, acked, deleted, orphans>>
vars     == <<callVars, refVars, tag, histVars>>

Locations == {"idle", "check", "make", "export", "undo", "find", "exportFound",
              "delete", "done", "signer"}
Ops       == {"create", "load", "delete"}
Results   == {"none", "ok", "exists", "notfound", "error"}

Init ==
  /\ pc = [p \in Procs |-> "idle"]
  /\ op = [p \in Procs |-> "none"]
  /\ name = [p \in Procs |-> NoName]
  /\ ref = [p \in Procs |-> NoKey]
  /\ res = [p \in Procs |-> "none"]
  /\ retained = [p \in Procs |-> 0]
  /\ signing = [p \in Procs |-> 0]
  /\ tag = [k \in Keys |-> NoName]
  /\ born = {}
  /\ acked = {}
  /\ deleted = {}
  /\ orphans = {}

At(p, l)   == pc[p] = l
Goto(p, l) == pc' = [pc EXCEPT ![p] = l] /\ UNCHANGED res
Decide(p, l, r) ==
  /\ pc' = [pc EXCEPT ![p] = l]
  /\ res' = [res EXCEPT ![p] = r]
Finish(p, r) == Decide(p, "done", r)

Fails(p, f) == f \in Faults /\ Finish(p, "error")

Retain(p)  == retained' = [retained EXCEPT ![p] = @ + 1]
Release(p) == retained' = [retained EXCEPT ![p] = @ - 1]

\* The items a query for this tag matches (make_query).
Matching(n) == {k \in Keys : tag[k] = n}

RemoveMatching(n) == tag' = [k \in Keys |-> IF tag[k] = n THEN NoName ELSE tag[k]]

Call(p, o, first) ==
  /\ At(p, "idle")
  /\ \E n \in Names : name' = [name EXCEPT ![p] = n]
  /\ op' = [op EXCEPT ![p] = o]
  /\ Goto(p, first)
  /\ UNCHANGED <<ref, refVars, tag, histVars>>

CallCreate(p) == Call(p, "create", "check")
CallLoad(p)   == Call(p, "load", "find")
CallDelete(p) == Call(p, "delete", "delete")

ReturnsSigner(p) == op[p] \in {"create", "load"} /\ res[p] = "ok"

Leave(p, l) ==
  /\ pc'   = [pc   EXCEPT ![p] = l]
  /\ op'   = [op   EXCEPT ![p] = "none"]
  /\ name' = [name EXCEPT ![p] = NoName]
  /\ res'  = [res  EXCEPT ![p] = "none"]

ReturnSigner(p) ==
  /\ At(p, "done")
  /\ ReturnsSigner(p)
  /\ Leave(p, "signer")
  /\ UNCHANGED <<ref, refVars, tag, histVars>>

ReturnNoSigner(p) ==
  /\ At(p, "done")
  /\ ~ReturnsSigner(p)
  /\ Leave(p, "idle")
  /\ ref' = [ref EXCEPT ![p] = NoKey]
  /\ UNCHANGED <<refVars, tag, histVars>>

(***************************************************************************)
(* createKey.  The lookup that guards it takes every status but success    *)
(* for "there is no such key"; the reference it gets is released at once.  *)
(***************************************************************************)
MutCheckNameOmitted(p) ==
  /\ At(p, "check")
  /\ Goto(p, "make")
  /\ UNCHANGED <<op, name, ref, refVars, tag, histVars>>

CheckName(p) ==
  /\ At(p, "check")
  /\ \/ Matching(name[p]) # {} /\ Finish(p, "exists")
     \/ (Matching(name[p]) = {} \/ "lookup" \in Faults) /\ Goto(p, "make")
  /\ UNCHANGED <<op, name, ref, refVars, tag, histVars>>

(***************************************************************************)
(* kp_create_key makes a key nobody has and stores it in the keychain at   *)
(* once.  With every member of Keys in use (the bound on attempts) it      *)
(* fails.                                                                  *)
(***************************************************************************)
MakeKey(p) ==
  /\ At(p, "make")
  /\ \/ \E k \in Keys \ born :
           /\ tag' = [tag EXCEPT ![k] = name[p]]
           /\ born' = born \union {k}
           /\ ref' = [ref EXCEPT ![p] = k]
           /\ Retain(p)
           /\ Goto(p, "export")
     \/ /\ "create" \in Faults \/ Keys \subseteq born
        /\ Finish(p, "error")
        /\ UNCHANGED <<ref, retained, tag, born>>
  /\ UNCHANGED <<op, name, signing, acked, deleted, orphans>>

MutExportReturnsEarly(p) ==
  /\ At(p, "export")
  /\ \/ Finish(p, "ok") /\ acked' = acked \union {ref[p]}
     \/ Fails(p, "export") /\ UNCHANGED acked
  /\ UNCHANGED <<op, name, ref, refVars, tag, born, deleted, orphans>>

Export(p) ==
  /\ At(p, "export")
  /\ \/ Finish(p, "ok") /\ acked' = acked \union {ref[p]}
     \/ "export" \in Faults /\ Decide(p, "undo", "error") /\ UNCHANGED acked
  /\ UNCHANGED <<op, name, ref, refVars, tag, born, deleted, orphans>>

(***************************************************************************)
(* The deferred clean-up: release the reference, delete by name, ignore    *)
(* the status.  When the deletion fails the key stays; the caller gets an  *)
(* error like any other.                                                   *)
(***************************************************************************)
MutUndoReleasesOnly(p) ==
  /\ At(p, "undo")
  /\ Release(p)
  /\ Goto(p, "done")
  /\ UNCHANGED <<op, name, ref, signing, tag, histVars>>

Undo(p) ==
  /\ At(p, "undo")
  /\ Release(p)
  /\ Goto(p, "done")
  /\ \/ RemoveMatching(name[p]) /\ UNCHANGED orphans
     \/ "delete" \in Faults /\ orphans' = orphans \union {ref[p]} /\ UNCHANGED tag
  /\ UNCHANGED <<op, name, ref, signing, born, acked, deleted>>

(***************************************************************************)
(* loadKey.  A failed export releases the reference.                       *)
(***************************************************************************)
MutFindKeyReturnsAll(p) ==
  /\ At(p, "find")
  /\ \/ /\ Matching(name[p]) # {}
        /\ ref' = [ref EXCEPT ![p] = Matching(name[p])]
        /\ Retain(p)
        /\ Goto(p, "exportFound")
     \/ Matching(name[p]) = {} /\ Finish(p, "notfound") /\ UNCHANGED <<ref, retained>>
  /\ UNCHANGED <<op, name, signing, tag, histVars>>

FindKey(p) ==
  /\ At(p, "find")
  /\ \/ \E k \in Matching(name[p]) :
           ref' = [ref EXCEPT ![p] = k] /\ Retain(p) /\ Goto(p, "exportFound")
     \/ /\ \/ Matching(name[p]) = {} /\ Finish(p, "notfound")
           \/ Fails(p, "lookup")
        /\ UNCHANGED <<ref, retained>>
  /\ UNCHANGED <<op, name, signing, tag, histVars>>

MutExportFoundKeepsReference(p) ==
  /\ At(p, "exportFound")
  /\ Finish(p, "ok") \/ Fails(p, "export")
  /\ UNCHANGED <<op, name, ref, refVars, tag, histVars>>

ExportFound(p) ==
  /\ At(p, "exportFound")
  /\ \/ Finish(p, "ok") /\ UNCHANGED <<ref, retained>>
     \/ Fails(p, "export") /\ ref' = [ref EXCEPT ![p] = NoKey] /\ Release(p)
  /\ UNCHANGED <<op, name, signing, tag, histVars>>

(***************************************************************************)
(* deleteKey                                                               *)
(***************************************************************************)
DeleteKey(p) ==
  /\ At(p, "delete")
  /\ \/ /\ Matching(name[p]) # {}
        /\ RemoveMatching(name[p])
        /\ deleted' = deleted \union Matching(name[p])
        /\ Finish(p, "ok")
     \/ /\ \/ Matching(name[p]) = {} /\ Finish(p, "notfound")
           \/ Fails(p, "delete")
        /\ UNCHANGED <<tag, deleted>>
  /\ UNCHANGED <<op, name, ref, refVars, born, acked, orphans>>

(***************************************************************************)
(* The signer.  A Sign looks at priv and passes it to SecKeyCreateSignature*)
(* later; on a signer that is closed it returns an error, and a second     *)
(* Close does nothing.                                                     *)
(***************************************************************************)
BeginSign(p) ==
  /\ At(p, "signer")
  /\ signing[p] < MaxSigns
  /\ signing' = [signing EXCEPT ![p] = @ + 1]
  /\ UNCHANGED <<callVars, retained, tag, histVars>>

EndSign(p) ==
  /\ signing[p] > 0
  /\ signing' = [signing EXCEPT ![p] = @ - 1]
  /\ UNCHANGED <<callVars, retained, tag, histVars>>

Close(p) ==
  /\ At(p, "signer")
  /\ Release(p)
  /\ ref' = [ref EXCEPT ![p] = NoKey]
  /\ Goto(p, "idle")
  /\ UNCHANGED <<op, name, signing, tag, histVars>>

(***************************************************************************)
(* Nothing in the signer keeps a Close from running beside a Sign.  Its    *)
(* users do: they close it when their Signs have returned (main.go:99-100, *)
(* cert_bench_test.go:21-22).                                              *)
(***************************************************************************)
CloseSigner(p) == signing[p] = 0 /\ Close(p)

Step(p) ==
  \/ CallCreate(p) \/ CallLoad(p) \/ CallDelete(p)
  \/ ReturnSigner(p) \/ ReturnNoSigner(p)
  \/ CheckName(p) \/ MakeKey(p) \/ Export(p) \/ Undo(p)
  \/ FindKey(p) \/ ExportFound(p)
  \/ DeleteKey(p)
  \/ BeginSign(p) \/ EndSign(p) \/ CloseSigner(p)

Next == \E p \in Procs : Step(p)

Spec == Init /\ [][Next]_vars

(***************************************************************************)
(* Users who keep out of each other's way: while a createKey runs, nobody  *)
(* else uses its name.  So it is with one process, and with the random     *)
(* names of certtest (CerttestIsAlone in Commands).                        *)
(***************************************************************************)
Exclusive ==
  \A p, q \in Procs : p # q /\ op[p] = "create" => name[q] # name[p]

ExclusiveSpec == Init /\ [][Next /\ Exclusive']_vars

-----------------------------------------------------------------------------
(***************************************************************************)
(* Correctness                                                             *)
(***************************************************************************)

\* Every variable has its type.
TypeOK ==
  /\ pc \in [Procs -> Locations]
  /\ op \in [Procs -> Ops \union {"none"}]
  /\ name \in [Procs -> Names \union {NoName}]
  /\ ref \in [Procs -> Keys \union {NoKey}]
  /\ res \in [Procs -> Results]
  /\ retained \in [Procs -> Int]
  /\ signing \in [Procs -> 0..MaxSigns]
  /\ tag \in [Keys -> Names \union {NoName}]
  /\ born \subseteq Keys
  /\ acked \subseteq born
  /\ deleted \subseteq born
  /\ orphans \subseteq born

\* "Fail on a pre-existing name instead of silently creating a second key"
\* (key_darwin.go:41-44): two keys never share a name.
NamesAreUnique ==
  \A k, l \in Keys : tag[k] # NoName /\ tag[k] = tag[l] => k = l

\* A key that createKey has acknowledged stays in the keychain until a deleteKey
\* removes it: the clean-up of another createKey, which goes by name and not by
\* key (key_darwin.go:67), never does.
AckedIsAvailable ==
  \A k \in acked : k \in deleted \/ tag[k] # NoName

\* "On any failure after the key is persisted the key is deleted so no orphaned
\* enclave item is left behind" (key_darwin.go:33-34): every item is that of an
\* acknowledged key, of a createKey that still runs, or of one whose clean-up
\* SecItemDelete has failed.
NoOrphans ==
  \A k \in Keys :
     tag[k] # NoName =>
        \/ k \in acked \union orphans
        \/ \E p \in Procs : ref[p] = k /\ pc[p] \in {"export", "undo"}

HoldsReference(p) ==
  \/ pc[p] \in {"export", "undo", "exportFound", "signer"}
  \/ At(p, "done") /\ ReturnsSigner(p)

\* "On any error the persisted key must be released ... On success the returned
\* signer owns the reference" (key_darwin.go:60-61): each reference is released
\* once, when the call that got it fails or its signer is closed, and not while
\* a Sign has it.
ReleasedOnce ==
  \A p \in Procs :
     /\ retained[p] = IF HoldsReference(p) THEN 1 ELSE 0
     /\ HoldsReference(p) => ref[p] # NoKey
     /\ signing[p] > 0 => HoldsReference(p)

(***************************************************************************)
(* Exclusive users, whose lookups do not fail, have the atomic store of    *)
(* KeyStore.  A create takes effect when the public key is exported, or    *)
(* else at its clean-up, and nobody sees the key before.  A clean-up that  *)
(* leaves the key is KeyStore's Orphan.                                    *)
(***************************************************************************)
Issued == acked \union orphans

Bound(n) ==
  IF Issued \cap Matching(n) = {} THEN NoKey ELSE CHOOSE k \in Issued : tag[k] = n

Store == [n \in Names |-> Bound(n)]

Outcome == [p \in Procs |-> IF pc[p] = "undo" THEN "none" ELSE res[p]]

Got == [p \in Procs |->
          IF pc[p] = "exportFound" \/ (op[p] \in {"create", "load"} /\ Outcome[p] = "ok")
          THEN ref[p] ELSE NoKey]

Atomic == INSTANCE KeyStore
            WITH store <- Store, issued <- Issued, got <- Got, res <- Outcome,
                 MayOrphan <- TRUE

ImplementsKeyStore == Atomic!Spec

=============================================================================
