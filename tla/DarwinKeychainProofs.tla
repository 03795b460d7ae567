------------------------ MODULE DarwinKeychainProofs ------------------------
(***************************************************************************)
(* Proofs about DarwinKeychain, for any number of processes, names, keys   *)
(* and Signs.                                                              *)
(***************************************************************************)
EXTENDS DarwinKeychain, TLAPS

(***************************************************************************)
(* The inductive invariant.  ItemInv is what the clean-up of createKey     *)
(* rests on: until it runs, the key it is to remove has the name it goes   *)
(* by, or is gone already.                                                 *)
(***************************************************************************)
Creating == {"check", "make", "export", "undo"}
Loading  == {"find", "exportFound"}

CallInv ==
  \A p \in Procs :
     /\ pc[p] \in {"idle", "signer"} => op[p] = "none" /\ res[p] = "none"
     /\ pc[p] \notin {"idle", "signer"} => op[p] # "none" /\ name[p] \in Names
     /\ pc[p] \in Creating => op[p] = "create"
     /\ pc[p] \in Loading => op[p] = "load"
     /\ pc[p] = "delete" => op[p] = "delete"
     /\ pc[p] \notin {"undo", "done"} => res[p] = "none"
     /\ pc[p] = "undo" => res[p] = "error"

HeldInv ==
  /\ ReleasedOnce
  /\ \A p \in Procs : signing[p] > 0 => At(p, "signer")

ItemInv ==
  /\ \A k \in Keys : tag[k] # NoName => k \in born
  /\ \A p \in Procs : pc[p] \in {"export", "undo"} =>
        ref[p] \in born /\ tag[ref[p]] \in {name[p], NoName}

IInv == TypeOK /\ CallInv /\ HeldInv /\ ItemInv /\ NoOrphans

-----------------------------------------------------------------------------
LEMMA InitIInv == Init => IInv
<1> SUFFICES ASSUME Init PROVE IInv
  OBVIOUS
<1> USE DarwinKeychainAssumption DEF Init
<1>1. TypeOK
  BY DEF TypeOK, Locations, Ops, Results
<1>2. CallInv /\ HeldInv
  BY DEF CallInv, HeldInv, ReleasedOnce, HoldsReference, At, Creating, Loading
<1>3. ItemInv /\ NoOrphans
  BY DEF ItemInv, NoOrphans
<1> QED
  BY <1>1, <1>2, <1>3 DEF IInv

\* A step of p that leaves the keychain alone, and p neither starts nor stops
\* having a key that nobody has acknowledged.
LEMMA QuietStep ==
  ASSUME IInv, TypeOK', CallInv', HeldInv', NEW p \in Procs,
         UNCHANGED <<tag, histVars>>,
         \A q \in Procs \ {p} : pc'[q] = pc[q] /\ name'[q] = name[q] /\ ref'[q] = ref[q],
         pc'[p] \in {"export", "undo"} <=> pc[p] \in {"export", "undo"},
         pc'[p] \in {"export", "undo"} => UNCHANGED <<ref[p], name[p]>>
  PROVE  IInv'
<1> USE DEF IInv, histVars
<1>1. ItemInv'
  BY DEF ItemInv
<1>2. NoOrphans'
  BY DEF NoOrphans
<1> QED
  BY <1>1, <1>2

-----------------------------------------------------------------------------
(***************************************************************************)
(* One lemma per action; first those that leave the keychain alone.        *)
(***************************************************************************)

LEMMA CallStep ==
  ASSUME IInv, NEW p \in Procs, CallCreate(p) \/ CallLoad(p) \/ CallDelete(p)
  PROVE  IInv'
<1> USE DarwinKeychainAssumption
    DEF IInv, CallCreate, CallLoad, CallDelete, Call, At, Goto
<1>1. TypeOK'
  BY DEF TypeOK, Locations, Ops, Results, refVars, histVars
<1>2. CallInv'
  BY DEF CallInv, TypeOK, Creating, Loading
<1>3. HeldInv'
  BY DEF HeldInv, ReleasedOnce, HoldsReference, ReturnsSigner, TypeOK, refVars
<1> QED
  BY <1>1, <1>2, <1>3, QuietStep DEF TypeOK

LEMMA ReturnSignerStep == ASSUME IInv, NEW p \in Procs, ReturnSigner(p) PROVE IInv'
<1> USE DarwinKeychainAssumption DEF IInv, ReturnSigner, Leave, At
<1>1. TypeOK'
  BY DEF TypeOK, Locations, Ops, Results, refVars, histVars
<1>2. CallInv'
  BY DEF CallInv, TypeOK, Creating, Loading
<1>3. HeldInv'
  BY DEF HeldInv, ReleasedOnce, HoldsReference, ReturnsSigner, TypeOK,
         CallInv, refVars
<1> QED
  BY <1>1, <1>2, <1>3, QuietStep DEF TypeOK

LEMMA ReturnNoSignerStep == ASSUME IInv, NEW p \in Procs, ReturnNoSigner(p) PROVE IInv'
<1> USE DarwinKeychainAssumption DEF IInv, ReturnNoSigner, Leave, At
<1>1. TypeOK'
  BY DEF TypeOK, Locations, Ops, Results, refVars, histVars
<1>2. CallInv'
  BY DEF CallInv, TypeOK, Creating, Loading
<1>3. HeldInv'
  BY DEF HeldInv, ReleasedOnce, HoldsReference, ReturnsSigner, TypeOK,
         CallInv, refVars
<1> QED
  BY <1>1, <1>2, <1>3, QuietStep DEF TypeOK

LEMMA CheckNameStep == ASSUME IInv, NEW p \in Procs, CheckName(p) PROVE IInv'
<1> USE DarwinKeychainAssumption DEF IInv, CheckName, Decide, Finish, At, Goto
<1>1. TypeOK'
  BY DEF TypeOK, Locations, Results, refVars, histVars
<1>2. CallInv'
  BY DEF CallInv, TypeOK, Creating, Loading
<1>3. HeldInv'
  BY DEF HeldInv, ReleasedOnce, HoldsReference, ReturnsSigner, TypeOK,
         CallInv, refVars
<1> QED
  BY <1>1, <1>2, <1>3, QuietStep DEF TypeOK

LEMMA FindKeyStep == ASSUME IInv, NEW p \in Procs, FindKey(p) PROVE IInv'
<1> USE DarwinKeychainAssumption DEF IInv, FindKey, Matching, Fails, Decide, Finish, At, Goto
<1>1. TypeOK'
  BY DEF TypeOK, Locations, Results, Retain, histVars
<1>2. CallInv'
  BY DEF CallInv, TypeOK, Creating, Loading
<1>3. HeldInv'
  BY DEF HeldInv, ReleasedOnce, HoldsReference, ReturnsSigner, TypeOK,
         CallInv, Retain
<1> QED
  BY <1>1, <1>2, <1>3, QuietStep DEF TypeOK

LEMMA ExportFoundStep == ASSUME IInv, NEW p \in Procs, ExportFound(p) PROVE IInv'
<1> USE DarwinKeychainAssumption DEF IInv, ExportFound, Fails, Decide, Finish, At
<1>1. TypeOK'
  BY DEF TypeOK, Locations, Results, Release, histVars
<1>2. CallInv'
  BY DEF CallInv, TypeOK, Creating, Loading
<1>3. HeldInv'
  BY DEF HeldInv, ReleasedOnce, HoldsReference, ReturnsSigner, TypeOK,
         CallInv, Loading, Release
<1> QED
  BY <1>1, <1>2, <1>3, QuietStep DEF TypeOK

LEMMA BeginSignStep == ASSUME IInv, NEW p \in Procs, BeginSign(p) PROVE IInv'
<1> USE DarwinKeychainAssumption DEF IInv, BeginSign, At
<1>1. TypeOK'
  BY DEF TypeOK, callVars, histVars
<1>2. CallInv'
  BY DEF CallInv, TypeOK, Creating, Loading, callVars
<1>3. HeldInv'
  BY DEF HeldInv, ReleasedOnce, HoldsReference, ReturnsSigner, TypeOK,
         CallInv, callVars
<1> QED
  BY <1>1, <1>2, <1>3, QuietStep DEF TypeOK, callVars

LEMMA EndSignStep == ASSUME IInv, NEW p \in Procs, EndSign(p) PROVE IInv'
<1> USE DarwinKeychainAssumption DEF IInv, EndSign, At
<1>1. TypeOK'
  BY DEF TypeOK, callVars, histVars
<1>2. CallInv'
  BY DEF CallInv, TypeOK, Creating, Loading, callVars
<1>3. HeldInv'
  BY DEF HeldInv, ReleasedOnce, HoldsReference, ReturnsSigner, TypeOK,
         CallInv, callVars
<1> QED
  BY <1>1, <1>2, <1>3, QuietStep DEF TypeOK, callVars

LEMMA CloseStep == ASSUME IInv, NEW p \in Procs, CloseSigner(p) PROVE IInv'
<1> USE DarwinKeychainAssumption DEF IInv, CloseSigner, Close, At, Goto
<1>1. TypeOK'
  BY DEF TypeOK, Locations, Release, histVars
<1>2. CallInv'
  BY DEF CallInv, TypeOK, Creating, Loading
<1>3. HeldInv'
  BY DEF HeldInv, ReleasedOnce, HoldsReference, ReturnsSigner, TypeOK,
         CallInv, Release
<1> QED
  BY <1>1, <1>2, <1>3, QuietStep DEF TypeOK

-----------------------------------------------------------------------------
(***************************************************************************)
(* The actions that change the keychain, or what is known of its keys.     *)
(***************************************************************************)

LEMMA MakeKeyStep == ASSUME IInv, NEW p \in Procs, MakeKey(p) PROVE IInv'
<1> USE DarwinKeychainAssumption DEF IInv, MakeKey, Decide, Finish, At, Goto
<1>1. TypeOK'
  BY DEF TypeOK, Locations, Results, Retain
<1>2. CallInv'
  BY DEF CallInv, TypeOK, Creating, Loading
<1>3. HeldInv'
  BY DEF HeldInv, ReleasedOnce, HoldsReference, ReturnsSigner, TypeOK,
         CallInv, Creating, Retain
<1>4. CASE UNCHANGED <<ref, retained, tag, born>>
  BY <1>1, <1>2, <1>3, <1>4, QuietStep DEF TypeOK, histVars
<1>5. ASSUME NEW k \in Keys \ born, tag' = [tag EXCEPT ![k] = name[p]],
             born' = born \union {k}, ref' = [ref EXCEPT ![p] = k],
             pc' = [pc EXCEPT ![p] = "export"]
      PROVE  IInv'
  <2>1. tag[k] = NoName /\ name[p] \in Names
    BY DEF ItemInv, CallInv
  <2>2. ItemInv'
    BY <1>5, <2>1 DEF ItemInv, TypeOK
  <2>3. NoOrphans'
    BY <1>5 DEF NoOrphans, TypeOK
  <2> QED
    BY <1>1, <1>2, <1>3, <2>2, <2>3
<1> QED
  BY <1>4, <1>5

LEMMA ExportStep == ASSUME IInv, NEW p \in Procs, Export(p) PROVE IInv'
<1> USE DarwinKeychainAssumption DEF IInv, Export, Decide, Finish, At
<1>1. TypeOK'
  BY DEF TypeOK, Locations, Results, ItemInv, refVars
<1>2. CallInv'
  BY DEF CallInv, TypeOK, Creating, Loading
<1>3. HeldInv'
  BY DEF HeldInv, ReleasedOnce, HoldsReference, ReturnsSigner, TypeOK,
         CallInv, Creating, refVars
<1>4. ItemInv'
  BY DEF ItemInv, TypeOK
<1>5. NoOrphans'
  BY DEF NoOrphans, TypeOK
<1> QED
  BY <1>1, <1>2, <1>3, <1>4, <1>5

\* A deletion by name removes no key whose createKey goes by another name.
LEMMA RemoveMatchingStep ==
  ASSUME IInv, NEW n \in Names, RemoveMatching(n),
         born' = born
  PROVE  /\ \A k \in Keys : tag'[k] = IF tag[k] = n THEN NoName ELSE tag[k]
         /\ \A k \in Keys : tag'[k] # NoName => k \in born'
BY DarwinKeychainAssumption DEF IInv, ItemInv, TypeOK, RemoveMatching

LEMMA UndoStep == ASSUME IInv, NEW p \in Procs, Undo(p) PROVE IInv'
<1> USE DarwinKeychainAssumption DEF IInv, Undo, Decide, At, Goto
<1>1. TypeOK'
  BY DEF TypeOK, Locations, Results, CallInv, ItemInv, Release, RemoveMatching, Matching
<1>2. CallInv'
  BY DEF CallInv, TypeOK, Creating, Loading
<1>3. HeldInv'
  BY DEF HeldInv, ReleasedOnce, HoldsReference, ReturnsSigner, TypeOK,
         CallInv, Creating, Release
<1>4. name[p] \in Names
  BY DEF CallInv
<1>5. ASSUME RemoveMatching(name[p]), orphans' = orphans
      PROVE  ItemInv' /\ NoOrphans'
  <2>1. /\ \A k \in Keys : tag'[k] = IF tag[k] = name[p] THEN NoName ELSE tag[k]
        /\ \A k \in Keys : tag'[k] # NoName => k \in born'
    BY <1>4, <1>5, RemoveMatchingStep
  <2>2. ItemInv'
    BY <2>1 DEF ItemInv, TypeOK
  <2>3. NoOrphans'
    BY <2>1 DEF NoOrphans, ItemInv, TypeOK
  <2> QED
    BY <2>2, <2>3
<1>6. ASSUME orphans' = orphans \union {ref[p]}, UNCHANGED tag
      PROVE  ItemInv' /\ NoOrphans'
  BY <1>6 DEF ItemInv, NoOrphans, TypeOK
<1> QED
  BY <1>1, <1>2, <1>3, <1>5, <1>6

LEMMA DeleteKeyStep == ASSUME IInv, NEW p \in Procs, DeleteKey(p) PROVE IInv'
<1> USE DarwinKeychainAssumption DEF IInv, DeleteKey, Fails, Decide, Finish, At
<1>1. TypeOK'
  BY DEF TypeOK, Locations, Results, CallInv, ItemInv, RemoveMatching, Matching, refVars
<1>2. CallInv'
  BY DEF CallInv, TypeOK, Creating, Loading
<1>3. HeldInv'
  BY DEF HeldInv, ReleasedOnce, HoldsReference, ReturnsSigner, TypeOK,
         CallInv, Creating, refVars
<1>4. CASE UNCHANGED <<tag, deleted>>
  BY <1>1, <1>2, <1>3, <1>4, QuietStep DEF TypeOK, histVars
<1>5. ASSUME RemoveMatching(name[p]), deleted' = deleted \union Matching(name[p])
      PROVE  IInv'
  <2>1. /\ \A k \in Keys : tag'[k] = IF tag[k] = name[p] THEN NoName ELSE tag[k]
        /\ \A k \in Keys : tag'[k] # NoName => k \in born'
    BY <1>5, RemoveMatchingStep DEF CallInv
  <2>2. ItemInv'
    BY <2>1 DEF ItemInv, TypeOK
  <2>3. NoOrphans'
    BY <2>1 DEF NoOrphans, TypeOK
  <2> QED
    BY <1>1, <1>2, <1>3, <2>2, <2>3
<1> QED
  BY <1>4, <1>5

LEMMA NextIInv == IInv /\ [Next]_vars => IInv'
<1> SUFFICES ASSUME IInv, [Next]_vars PROVE IInv'
  OBVIOUS
<1>1. CASE UNCHANGED vars
  BY <1>1
  DEF vars, callVars, refVars, histVars, IInv, TypeOK, CallInv, HeldInv, ReleasedOnce,
      HoldsReference, ReturnsSigner, ItemInv, NoOrphans, At
<1> QED
  BY <1>1, CallStep, ReturnSignerStep, ReturnNoSignerStep, CheckNameStep, MakeKeyStep,
     ExportStep, UndoStep, FindKeyStep, ExportFoundStep, DeleteKeyStep, BeginSignStep,
     EndSignStep, CloseStep
  DEF Next, Step

LEMMA Inductive == Spec => []IInv
<1>1. Init => IInv
  BY InitIInv
<1>2. IInv /\ [Next]_vars => IInv'
  BY NextIInv
<1> QED
  BY <1>1, <1>2, PTL DEF Spec

-----------------------------------------------------------------------------
(***************************************************************************)
(* Theorems                                                                *)
(***************************************************************************)

\* Every variable of DarwinKeychain keeps its type, whatever fails.
THEOREM TypeCorrect == Spec => []TypeOK
<1>1. IInv => TypeOK
  BY DEF IInv
<1> QED
  BY <1>1, Inductive, PTL

\* Whatever fails: an item that nobody was told of is that of a createKey which
\* still runs, or one that its clean-up could not delete.
THEOREM NoOrphanIsLeft == Spec => []NoOrphans
<1>1. IInv => NoOrphans
  BY DEF IInv
<1> QED
  BY <1>1, Inductive, PTL

\* Each SecKeyRef of createKey and loadKey is released exactly once, and the
\* signer has it until it is closed.
THEOREM ReferencesAreReleasedOnce == Spec => []ReleasedOnce
<1>1. IInv => ReleasedOnce
  BY DEF IInv, HeldInv
<1> QED
  BY <1>1, Inductive, PTL

-----------------------------------------------------------------------------
(***************************************************************************)
(* Exclusive users: while a createKey runs, nobody else uses its name.     *)
(* Then its check and its MakeKey are as good as one step, and until its   *)
(* end nothing but its own key, which nobody has acknowledged, has the     *)
(* name: that is why its clean-up takes no acknowledged key along.         *)
(***************************************************************************)
AloneInv ==
  /\ Exclusive
  /\ NamesAreUnique
  /\ AckedIsAvailable
  /\ \A p \in Procs : At(p, "make") => Matching(name[p]) = {}
  /\ \A p \in Procs : pc[p] \in {"export", "undo"} =>
        Matching(name[p]) = {ref[p]} /\ ref[p] \notin Issued

LEMMA OthersWait ==
  ASSUME IInv, NEW p \in Procs, Step(p)
  PROVE  \A q \in Procs \ {p} :
            /\ pc'[q] = pc[q] /\ op'[q] = op[q] /\ name'[q] = name[q]
            /\ ref'[q] = ref[q] /\ res'[q] = res[q]
BY DEF IInv, TypeOK, Step, CallCreate, CallLoad, CallDelete, Call, ReturnSigner,
       ReturnNoSigner, Leave, CheckName, MakeKey, Export, Undo, FindKey, ExportFound,
       DeleteKey, BeginSign, EndSign, CloseSigner, Close, Fails, Finish, Decide, Goto, callVars

LEMMA QuietAlone ==
  ASSUME IInv, AloneInv, Exclusive', NEW p \in Procs, Step(p),
         UNCHANGED <<tag, Issued, acked, deleted>>,
         pc'[p] \notin {"export", "undo"},
         At(p, "make")' => UNCHANGED name /\ Matching(name[p]) = {}
  PROVE  AloneInv'
<1>1. Matching(name[p])' = Matching(name'[p]) /\ AckedIsAvailable'
  BY DEF Matching, AckedIsAvailable, AloneInv
<1>2. \A q \in Procs \ {p} : Matching(name[q])' = Matching(name[q])
  BY OthersWait DEF Matching
<1> QED
  BY <1>1, <1>2, OthersWait DEF AloneInv, NamesAreUnique, At

LEMMA MakeKeyAlone ==
  ASSUME IInv, AloneInv, Exclusive', NEW p \in Procs, MakeKey(p)
  PROVE  AloneInv'
<1> USE DarwinKeychainAssumption DEF MakeKey, At, Goto, Finish, Decide
<1>1. Step(p) /\ op[p] = "create" /\ TypeOK
  BY DEF Step, IInv, CallInv, Creating
<1>2. CASE UNCHANGED <<tag, born>> /\ pc'[p] = "done"
  BY <1>1, <1>2, QuietAlone DEF Issued
<1>3. ASSUME NEW k \in Keys \ born, tag' = [tag EXCEPT ![k] = name[p]],
             ref' = [ref EXCEPT ![p] = k], pc' = [pc EXCEPT ![p] = "export"]
      PROVE  AloneInv'
  <2>1. tag[k] = NoName /\ k \notin Issued /\ Matching(name[p]) = {}
    BY <1>1 DEF IInv, ItemInv, AloneInv, Issued, TypeOK
  <2>2. NamesAreUnique' /\ AckedIsAvailable'
    BY <1>1, <1>3, <2>1
    DEF AloneInv, NamesAreUnique, AckedIsAvailable, Matching, Issued, TypeOK
  <2>3. Matching(name[p])' = {k}
    BY <1>1, <1>3, <2>1 DEF Matching, TypeOK
  <2>4. ASSUME NEW q \in Procs \ {p}, pc[q] \in {"make", "export", "undo"}
        PROVE  Matching(name[q])' = Matching(name[q])
    <3>1. name[q] # name[p] /\ name[q] # NoName
      BY <1>1, <2>4 DEF AloneInv, Exclusive, IInv, CallInv
    <3> QED
      BY <1>1, <1>3, <2>1, <3>1 DEF Matching, TypeOK
  <2> QED
    BY <1>1, <1>3, <2>1, <2>2, <2>3, <2>4 DEF AloneInv, Issued, TypeOK
<1> QED
  BY <1>1, <1>2, <1>3 DEF TypeOK

\* A key is issued that was in the keychain already.
LEMMA IssueAlone ==
  ASSUME IInv, AloneInv, Exclusive', NEW p \in Procs,
         Export(p) \/ (Undo(p) /\ UNCHANGED tag)
  PROVE  AloneInv'
<1> USE DEF Export, Undo, At, Finish, Goto, Decide
<1>1. op[p] = "create" /\ TypeOK
  BY DEF IInv, CallInv, Creating
<1>2. \A q \in Procs : Matching(name[q])' = Matching(name[q])
  BY DEF Matching
<1>3. ASSUME NEW q \in Procs \ {p}, pc[q] \in {"export", "undo"}
      PROVE  ref[q] \notin Issued'
  <2>1. name[q] # name[p]
    BY <1>1 DEF AloneInv, Exclusive
  <2>2. ref[q] # ref[p] /\ ref[q] \notin Issued
    BY <1>3, <2>1 DEF AloneInv, Matching
  <2> QED
    BY <2>2 DEF Issued
<1>4. pc'[p] = "undo" => Issued' = Issued
  BY <1>1 DEF Issued, TypeOK
<1>5. AckedIsAvailable'
  <2>1. name[p] \in Names /\ tag[ref[p]] = name[p]
    BY DEF AloneInv, Matching, IInv, CallInv
  <2> QED
    BY <2>1, DarwinKeychainAssumption DEF AloneInv, AckedIsAvailable
<1> QED
  BY <1>1, <1>2, <1>3, <1>4, <1>5 DEF AloneInv, NamesAreUnique, TypeOK

\* A deletion by name touches no other name.
LEMMA RemoveAlone ==
  ASSUME IInv, AloneInv, Exclusive', NEW p \in Procs, Undo(p) \/ DeleteKey(p),
         RemoveMatching(name[p]), Issued' = Issued
  PROVE  AloneInv'
<1> USE DarwinKeychainAssumption DEF Undo, DeleteKey, Fails, At, Goto, Finish, Decide
<1>1. TypeOK /\ name[p] \in Names /\ name' = name
      /\ pc' = [pc EXCEPT ![p] = "done"]
  BY DEF IInv, CallInv
<1>2. \A k \in Keys : tag'[k] = IF tag[k] = name[p] THEN NoName ELSE tag[k]
  BY DEF RemoveMatching
<1>3. NamesAreUnique'
  BY <1>2 DEF AloneInv, NamesAreUnique
<1>4. AckedIsAvailable'
  BY <1>1, <1>2 DEF AloneInv, AckedIsAvailable, Matching, Issued, TypeOK
<1>5. ASSUME NEW q \in Procs \ {p}, pc[q] \in {"make", "export", "undo"}
      PROVE  Matching(name[q])' = Matching(name[q]) /\ ref'[q] = ref[q]
  <2>1. name[q] # name[p] /\ name[q] # NoName /\ name[q] \in Names
    BY <1>5 DEF AloneInv, Exclusive, IInv, CallInv, Creating
  <2> QED
    BY <1>1, <1>2, <2>1 DEF Matching, TypeOK
<1> QED
  BY <1>1, <1>3, <1>4, <1>5 DEF AloneInv, TypeOK

LEMMA NextAloneInv ==
  ASSUME "lookup" \notin Faults, IInv, AloneInv, [Next /\ Exclusive']_vars
  PROVE  AloneInv'
<1>1. CASE UNCHANGED vars
  BY <1>1
  DEF vars, callVars, histVars, AloneInv, Exclusive, NamesAreUnique, AckedIsAvailable,
      Matching, Issued, At
<1>2. ASSUME NEW p \in Procs, Step(p), Exclusive' PROVE AloneInv'
  <2>1. CASE MakeKey(p) \/ Export(p) \/ (Undo(p) /\ UNCHANGED tag)
    BY <1>2, <2>1, MakeKeyAlone, IssueAlone
  <2>2. CASE (Undo(p) \/ DeleteKey(p)) /\ RemoveMatching(name[p]) /\ Issued' = Issued
    BY <1>2, <2>2, RemoveAlone
  <2>3. CASE \/ DeleteKey(p) /\ UNCHANGED <<tag, deleted>>
             \/ CallCreate(p) \/ CallLoad(p) \/ CallDelete(p)
             \/ ReturnSigner(p) \/ ReturnNoSigner(p)
             \/ FindKey(p) \/ ExportFound(p)
             \/ BeginSign(p) \/ EndSign(p) \/ CloseSigner(p)
    <3>1. pc'[p] \notin {"make", "export", "undo"}
          /\ UNCHANGED <<tag, Issued, acked, deleted>>
      BY <2>3
      DEF Issued, DeleteKey, CallCreate, CallLoad, CallDelete, Call, ReturnSigner,
          ReturnNoSigner, Leave, FindKey, ExportFound, BeginSign, EndSign, CloseSigner,
          Close, Fails, Finish, Decide, Goto, At, callVars, histVars, IInv, TypeOK, HeldInv
    <3> QED
      BY <1>2, <3>1, QuietAlone DEF At
  <2>4. CASE CheckName(p)
    <3>1. UNCHANGED <<tag, Issued, acked, deleted, name>> /\ pc'[p] \notin {"export", "undo"}
          /\ (At(p, "make")' => Matching(name[p]) = {})
      BY <2>4 DEF Issued, CheckName, Finish, Decide, Goto, At, histVars, IInv, TypeOK
    <3> QED
      BY <1>2, <3>1, QuietAlone
  <2> QED
    BY <1>2, <2>1, <2>2, <2>3, <2>4 DEF Step, Undo, DeleteKey, Issued
<1> QED
  BY <1>1, <1>2 DEF Next

LEMMA InductiveAlone ==
  ASSUME "lookup" \notin Faults
  PROVE  ExclusiveSpec => [](IInv /\ AloneInv)
<1>1. Init => IInv /\ AloneInv
  BY InitIInv DEF Init, AloneInv, Exclusive, NamesAreUnique, AckedIsAvailable, At
<1>2. IInv /\ AloneInv /\ [Next /\ Exclusive']_vars => IInv' /\ AloneInv'
  BY NextIInv, NextAloneInv
<1> QED
  BY <1>1, <1>2, PTL DEF ExclusiveSpec

\* With exclusive users, whose lookups do not fail, the duplicate check of
\* createKey keeps names unique; keychain_race shows what others find.
THEOREM UniqueNames ==
  ASSUME "lookup" \notin Faults
  PROVE  ExclusiveSpec => []NamesAreUnique
<1>1. AloneInv => NamesAreUnique
  BY DEF AloneInv
<1> QED
  BY <1>1, InductiveAlone, PTL

\* With exclusive users, whose lookups do not fail, a key that createKey has
\* acknowledged leaves the keychain only by a deleteKey, whatever else fails:
\* when a clean-up goes by its own name, that name is its own key's alone.
THEOREM AckedKeysAreAvailable ==
  ASSUME "lookup" \notin Faults
  PROVE  ExclusiveSpec => []AckedIsAvailable
<1>1. AloneInv => AckedIsAvailable
  BY DEF AloneInv
<1> QED
  BY <1>1, InductiveAlone, PTL

-----------------------------------------------------------------------------
(***************************************************************************)
(* Exclusive users have the store of KeyStore.                             *)
(***************************************************************************)
Alone == "lookup" \notin Faults

LEMMA AtomicInit == Init => Atomic!Init
<1> SUFFICES ASSUME Init PROVE Atomic!Init
  OBVIOUS
<1>1. Store = [n \in Names |-> NoKey]
  BY DEF Init, Store, Bound, Issued
<1>2. Outcome = [p \in Procs |-> "none"]
  BY DEF Init, Outcome
<1> QED
  BY <1>1, <1>2 DEF Init, Atomic!Init, Issued, Got

LEMMA SameStore == ASSUME UNCHANGED <<tag, Issued>> PROVE Store' = Store
BY DEF Store, Bound, Matching

LEMMA ChooseOne ==
  ASSUME NEW A, NEW T, NEW n, NEW k \in A, T[k] = n, \A l \in A : T[l] = n => l = k
  PROVE  (CHOOSE l \in A : T[l] = n) = k
OBVIOUS

\* The key that KeyStore sees under n is the issued key with the tag n.
LEMMA BoundIs ==
  ASSUME TypeOK, NamesAreUnique, NEW n \in Names
  PROVE  /\ \A k \in Issued : tag[k] = n => Bound(n) = k
         /\ (\A k \in Issued : tag[k] # n) => Bound(n) = NoKey
<1>1. ASSUME NEW k \in Issued, tag[k] = n PROVE Bound(n) = k
  <2>1. \A l \in Issued : tag[l] = n => l = k
    BY <1>1, DarwinKeychainAssumption DEF Issued, TypeOK, NamesAreUnique
  <2>2. (CHOOSE l \in Issued : tag[l] = n) = k
    BY <1>1, <2>1, ChooseOne
  <2>3. k \in Issued \cap Matching(n)
    BY <1>1 DEF Matching, Issued, TypeOK
  <2> QED
    BY <2>2, <2>3 DEF Bound
<1>2. ASSUME \A k \in Issued : tag[k] # n PROVE Bound(n) = NoKey
  BY <1>2 DEF Bound, Matching
<1> QED
  BY <1>1, <1>2

LEMMA BoundIsNext ==
  ASSUME TypeOK', NamesAreUnique', NEW n \in Names
  PROVE  /\ \A k \in Issued' : tag'[k] = n => Bound(n)' = k
         /\ (\A k \in Issued' : tag'[k] # n) => Bound(n)' = NoKey
<1>1. ASSUME NEW k \in Issued', tag'[k] = n PROVE Bound(n)' = k
  <2>1. \A l \in Issued' : tag'[l] = n => l = k
    BY <1>1, DarwinKeychainAssumption DEF Issued, TypeOK, NamesAreUnique
  <2>2. (CHOOSE l \in Issued' : tag'[l] = n) = k
    BY <1>1, <2>1, ChooseOne
  <2>3. k \in Issued' \cap Matching(n)'
    BY <1>1 DEF Matching, Issued, TypeOK
  <2> QED
    BY <2>2, <2>3 DEF Bound
<1>2. ASSUME \A k \in Issued' : tag'[k] # n PROVE Bound(n)' = NoKey
  BY <1>2 DEF Bound, Matching
<1> QED
  BY <1>1, <1>2

LEMMA StoreStays ==
  ASSUME TypeOK, TypeOK', NamesAreUnique, NamesAreUnique', Issued' = Issued,
         \A k \in Issued : tag'[k] = tag[k]
  PROVE  Store' = Store
<1>1. ASSUME NEW n \in Names PROVE Bound(n)' = Bound(n)
  <2>1. CASE \E k \in Issued : tag[k] = n
    BY <2>1, BoundIs, BoundIsNext
  <2>2. CASE \A k \in Issued : tag[k] # n
    BY <2>2, BoundIs, BoundIsNext
  <2> QED
    BY <2>1, <2>2
<1> QED
  BY <1>1 DEF Store

\* A step of p changes nobody else's call.
LEMMA OneCall ==
  ASSUME IInv, NEW p \in Procs, Step(p)
  PROVE  /\ Got' = [Got EXCEPT ![p] = Got'[p]]
         /\ Outcome' = [Outcome EXCEPT ![p] = Outcome'[p]]
         /\ Got'[p] = Got[p] => Got' = Got
         /\ Outcome'[p] = Outcome[p] => Outcome' = Outcome
<1>1. /\ Got = [q \in Procs |-> Got[q]] /\ Got' = [q \in Procs |-> Got'[q]]
      /\ Outcome = [q \in Procs |-> Outcome[q]]
      /\ Outcome' = [q \in Procs |-> Outcome'[q]]
  BY DEF Got, Outcome
<1>2. \A q \in Procs \ {p} : Outcome'[q] = Outcome[q]
  BY OthersWait DEF Outcome
<1>3. \A q \in Procs \ {p} : Got'[q] = Got[q]
  BY <1>2, OthersWait DEF Got
<1> QED
  BY <1>1, <1>2, <1>3

\* Who is not in the middle of a createKey sees the names taken that KeyStore
\* sees taken.
LEMMA TakenIsBound ==
  ASSUME Alone, IInv, AloneInv, NEW p \in Procs, pc[p] \notin {"export", "undo"},
         name[p] \in Names
  PROVE  /\ \A k \in Matching(name[p]) : k \in Issued /\ Store[name[p]] = k /\ k # NoKey
         /\ Matching(name[p]) = {} => Store[name[p]] = NoKey
<1> USE DarwinKeychainAssumption DEF IInv
<1>1. ASSUME NEW k \in Matching(name[p]) PROVE k \in Issued
  <2> SUFFICES ASSUME NEW q \in Procs, ref[q] = k, pc[q] \in {"export", "undo"} PROVE FALSE
    BY DEF NoOrphans, Issued, Matching, TypeOK
  <2>1. tag[k] = name[q] /\ op[q] = "create"
    BY DEF ItemInv, CallInv, Creating, Matching, TypeOK
  <2> QED
    BY <2>1 DEF AloneInv, Exclusive, Matching
<1>2. NamesAreUnique
  BY DEF AloneInv
<1>3. \A k \in Matching(name[p]) : Bound(name[p]) = k /\ k # NoKey
  BY <1>1, <1>2, BoundIs DEF Matching
<1>4. Matching(name[p]) = {} => Bound(name[p]) = NoKey
  BY DEF Bound
<1> QED
  BY <1>1, <1>3, <1>4 DEF Store

LEMMA OutcomeIs ==
  ASSUME NEW p \in Procs
  PROVE  /\ pc[p] = "undo" => Outcome[p] = "none"
         /\ pc[p] # "undo" => Outcome[p] = res[p]
         /\ pc'[p] = "undo" => Outcome'[p] = "none"
         /\ pc'[p] # "undo" => Outcome'[p] = res'[p]
BY DEF Outcome

-----------------------------------------------------------------------------
LEMMA AtomicCall ==
  ASSUME Alone, IInv, AloneInv, IInv', AloneInv', NEW p \in Procs, CallCreate(p) \/ CallLoad(p) \/ CallDelete(p)
  PROVE  Atomic!Next
<1> USE DEF CallCreate, CallLoad, CallDelete, Call, At, Goto, histVars, IInv, TypeOK
<1>1. Store' = Store
  BY SameStore DEF Issued
<1>2. op[p] = "none" /\ res[p] = "none" /\ pc'[p] # "undo" /\ pc'[p] # "exportFound"
  BY DEF CallInv
<1>3. Outcome[p] = "none" /\ Outcome'[p] = "none"
  BY <1>2, OutcomeIs
<1>4. Got[p] = NoKey /\ Got'[p] = NoKey
  BY <1>2, <1>3 DEF Got
<1>5. Got' = Got /\ Outcome' = Outcome /\ Issued' = Issued
  BY <1>3, <1>4, OneCall DEF Step, Issued
<1> QED
  BY <1>1, <1>2, <1>5 DEF Atomic!Next, Atomic!Call, Atomic!Invoke, Atomic!Ops

LEMMA AtomicReturn ==
  ASSUME Alone, IInv, AloneInv, IInv', AloneInv', NEW p \in Procs, ReturnSigner(p) \/ ReturnNoSigner(p)
  PROVE  Atomic!Next
<1> USE DEF ReturnSigner, ReturnNoSigner, Leave, At, histVars, IInv, TypeOK
<1>1. Store' = Store
  BY SameStore DEF Issued
<1>2. op[p] # "none"
  BY DEF CallInv
<1>3. Outcome'[p] = "none"
  BY OutcomeIs
<1>4. Got'[p] = NoKey
  BY <1>3 DEF Got
<1>5. /\ Got' = [Got EXCEPT ![p] = NoKey] /\ Outcome' = [Outcome EXCEPT ![p] = "none"]
      /\ Issued' = Issued
  BY <1>3, <1>4, OneCall DEF Step, Issued
<1> QED
  BY <1>1, <1>2, <1>5 DEF Atomic!Next, Atomic!Leave

LEMMA AtomicCheckName ==
  ASSUME Alone, IInv, AloneInv, IInv', AloneInv', NEW p \in Procs, CheckName(p)
  PROVE  Atomic!Next \/ UNCHANGED Atomic!vars
<1> USE DEF CheckName, At, Goto, Finish, Decide, histVars, IInv, TypeOK
<1>1. Store' = Store
  BY SameStore DEF Issued
<1>2. op[p] = "create" /\ res[p] = "none" /\ name[p] \in Names
  BY DEF CallInv, Creating
<1>3. Outcome[p] = "none" /\ Outcome'[p] = res'[p] /\ res'[p] # "ok"
  BY <1>2, OutcomeIs
<1>4. Got'[p] = Got[p]
  BY <1>2, <1>3 DEF Got
<1>5. Got' = Got /\ Outcome' = [Outcome EXCEPT ![p] = res'[p]]
      /\ (res' = res => Outcome' = Outcome) /\ Issued' = Issued
  BY <1>2, <1>3, <1>4, OneCall DEF Step, Issued
<1>6. Matching(name[p]) # {} => Store[name[p]] # NoKey
  BY <1>2, TakenIsBound
<1> QED
  BY <1>1, <1>2, <1>3, <1>5, <1>6
  DEF Atomic!Next, Atomic!Exists, Atomic!Pending, Atomic!Decide, Atomic!vars

LEMMA AtomicMakeKey ==
  ASSUME Alone, IInv, AloneInv, IInv', AloneInv', NEW p \in Procs, MakeKey(p)
  PROVE  Atomic!Next \/ UNCHANGED Atomic!vars
<1> USE DEF MakeKey, At, Goto, Finish, Decide
<1>1. TypeOK /\ TypeOK' /\ NamesAreUnique /\ NamesAreUnique'
  BY DEF IInv, AloneInv
<1>2. \A k \in Issued : tag'[k] = tag[k]
  BY <1>1 DEF Issued, TypeOK
<1>3. Issued' = Issued /\ Store' = Store
  <2>1. Issued' = Issued
    BY DEF Issued
  <2> QED
    BY <1>1, <1>2, <2>1, StoreStays
<1>4. op[p] = "create" /\ res[p] = "none" /\ pc'[p] # "undo" /\ pc'[p] # "exportFound"
      /\ res'[p] \in {"none", "error"}
  BY <1>1 DEF IInv, CallInv, Creating, TypeOK
<1>5. Outcome[p] = "none" /\ Outcome'[p] = res'[p]
  BY <1>4, OutcomeIs
<1>6. Got'[p] = NoKey /\ Got[p] = NoKey
  BY <1>1, <1>4, <1>5 DEF Got, TypeOK
<1>7. Got' = Got /\ Got' = [Got EXCEPT ![p] = NoKey]
      /\ Outcome' = [Outcome EXCEPT ![p] = res'[p]]
  BY <1>5, <1>6, OneCall DEF Step
<1>8. CASE res'[p] = "none"
  <2>1. Outcome' = Outcome
    BY <1>5, <1>8, OneCall DEF Step
  <2> QED
    BY <1>3, <1>7, <2>1 DEF Atomic!vars
<1>9. CASE res'[p] = "error"
  BY <1>3, <1>4, <1>5, <1>7, <1>9
  DEF Atomic!Next, Atomic!Fail, Atomic!Pending, Atomic!Decide, Atomic!Ops
<1> QED
  BY <1>4, <1>8, <1>9

\* A createKey that leaves its key in the keychain binds it.
LEMMA KeyIsBound ==
  ASSUME Alone, IInv, AloneInv, IInv', AloneInv', NEW p \in Procs, Export(p) \/ Undo(p),
         tag' = tag, Issued' = Issued \union {ref[p]}
  PROVE  ref[p] \in Keys \ Issued /\ Atomic!BindKey(name[p], ref[p])
<1>1. TypeOK /\ TypeOK' /\ NamesAreUnique /\ NamesAreUnique'
  BY DEF IInv, AloneInv
<1>2. op[p] = "create" /\ name[p] \in Names /\ pc[p] \in {"export", "undo"}
      /\ UNCHANGED <<op, name, ref>>
  BY DEF IInv, CallInv, Creating, Export, Undo, At
<1>3. ref[p] \in Keys \ Issued /\ tag[ref[p]] = name[p] /\ \A k \in Issued : tag[k] # name[p]
  BY <1>1, <1>2 DEF AloneInv, Matching, Issued, TypeOK
<1>4. Store[name[p]] = NoKey
  BY <1>1, <1>2, <1>3, BoundIs DEF Store
<1>5. Bound(name[p])' = ref[p]
  BY <1>1, <1>2, <1>3, BoundIsNext
<1>6. ASSUME NEW n \in Names \ {name[p]} PROVE Bound(n)' = Bound(n)
  <2>1. \A k \in Issued' : tag'[k] = n <=> k \in Issued /\ tag[k] = n
    BY <1>3
  <2>2. CASE \E k \in Issued : tag[k] = n
    BY <1>1, <2>2, BoundIs, BoundIsNext
  <2>3. CASE \A k \in Issued : tag[k] # n
    <3>1. Bound(n) = NoKey
      BY <1>1, <2>3, BoundIs
    <3>2. Bound(n)' = NoKey
      BY <1>1, <2>1, <2>3, BoundIsNext
    <3> QED
      BY <3>1, <3>2
  <2> QED
    BY <2>2, <2>3
<1>7. Store' = [Store EXCEPT ![name[p]] = ref[p]]
  BY <1>2, <1>5, <1>6 DEF Store
<1> QED
  BY <1>3, <1>4, <1>7 DEF Atomic!BindKey

LEMMA AtomicExport ==
  ASSUME Alone, IInv, AloneInv, IInv', AloneInv', NEW p \in Procs, Export(p)
  PROVE  Atomic!Next \/ UNCHANGED Atomic!vars
<1> USE DEF Export, At, Finish, Decide
<1>1. TypeOK
  BY DEF IInv
<1>2. op[p] = "create" /\ res[p] = "none" /\ Outcome[p] = "none"
  BY OutcomeIs DEF IInv, CallInv, Creating
<1>3. CASE pc' = [pc EXCEPT ![p] = "done"] /\ res' = [res EXCEPT ![p] = "ok"]
           /\ acked' = acked \union {ref[p]}
  <2>1. Outcome'[p] = "ok"
    BY <1>1, <1>3, OutcomeIs DEF TypeOK
  <2>2. ref[p] \in Keys \ Issued /\ Atomic!BindKey(name[p], ref[p])
    BY <1>3, KeyIsBound DEF Issued
  <2>3. Got'[p] = ref[p]
    BY <1>2, <2>1 DEF Got
  <2>4. Got' = [Got EXCEPT ![p] = ref[p]] /\ Outcome' = [Outcome EXCEPT ![p] = "ok"]
    BY <2>1, <2>3, OneCall DEF Step
  <2> QED
    BY <1>2, <2>2, <2>4 DEF Atomic!Next, Atomic!Bind, Atomic!Pending, Atomic!Decide
<1>4. CASE pc' = [pc EXCEPT ![p] = "undo"] /\ UNCHANGED acked
  <2>1. Issued' = Issued
    BY <1>4 DEF Issued
  <2>2. Store' = Store
    BY <2>1, SameStore
  <2>3. Outcome'[p] = "none" /\ pc'[p] = "undo"
    BY <1>1, <1>4, OutcomeIs DEF TypeOK
  <2>4. Got'[p] = NoKey /\ Got[p] = NoKey
    BY <1>2, <2>3 DEF Got
  <2> QED
    BY <1>2, <2>1, <2>2, <2>3, <2>4, OneCall DEF Step, Atomic!vars
<1> QED
  BY <1>3, <1>4

LEMMA AtomicUndo ==
  ASSUME Alone, IInv, AloneInv, IInv', AloneInv', NEW p \in Procs, Undo(p)
  PROVE  Atomic!Next
<1> USE DEF Undo, At, Goto, Decide
<1>1. TypeOK /\ TypeOK' /\ NamesAreUnique /\ NamesAreUnique'
  BY DEF IInv, AloneInv
<1>2. op[p] = "create" /\ res[p] = "error" /\ Outcome[p] = "none" /\ pc'[p] = "done"
  BY <1>1, OutcomeIs DEF IInv, CallInv, Creating, TypeOK
<1>3. Outcome'[p] = "error"
  BY <1>2, OutcomeIs
<1>4. Got'[p] = NoKey
  BY <1>2, <1>3 DEF Got
<1>5. Got' = [Got EXCEPT ![p] = NoKey] /\ Outcome' = [Outcome EXCEPT ![p] = "error"]
  BY <1>3, <1>4, OneCall DEF Step
<1>6. CASE RemoveMatching(name[p]) /\ UNCHANGED orphans
  <2>1. Issued' = Issued
    BY <1>6 DEF Issued
  <2>2. \A k \in Issued : tag'[k] = tag[k]
    BY <1>1, <1>6 DEF AloneInv, RemoveMatching, Matching, TypeOK, Issued
  <2>3. Store' = Store
    BY <1>1, <2>1, <2>2, StoreStays
  <2> QED
    BY <1>2, <1>5, <2>1, <2>3
    DEF Atomic!Next, Atomic!Fail, Atomic!Pending, Atomic!Decide, Atomic!Ops
<1>7. CASE orphans' = orphans \union {ref[p]} /\ UNCHANGED tag
  <2>1. ref[p] \in Keys \ Issued /\ Atomic!BindKey(name[p], ref[p])
    BY <1>7, KeyIsBound DEF Issued
  <2> QED
    BY <1>2, <1>5, <2>1 DEF Atomic!Next, Atomic!Orphan, Atomic!Decide
<1> QED
  BY <1>6, <1>7

LEMMA AtomicFindKey ==
  ASSUME Alone, IInv, AloneInv, IInv', AloneInv', NEW p \in Procs, FindKey(p)
  PROVE  Atomic!Next
<1> USE DEF FindKey, At, Goto, Fails, Finish, Decide, histVars
<1>1. TypeOK
  BY DEF IInv
<1>2. Store' = Store
  BY SameStore DEF Issued
<1>3. op[p] = "load" /\ name[p] \in Names /\ Outcome[p] = "none" /\ Issued' = Issued
  BY OutcomeIs DEF IInv, CallInv, Loading, Issued
<1>4. Got[p] = NoKey
  BY <1>3 DEF Got
<1>5. ASSUME NEW k \in Matching(name[p]), ref' = [ref EXCEPT ![p] = k],
             pc' = [pc EXCEPT ![p] = "exportFound"], UNCHANGED res
      PROVE  Atomic!Next
  <2>1. Store[name[p]] = k /\ Store[name[p]] # NoKey
    BY <1>3, TakenIsBound
  <2>2. Got'[p] = k /\ Outcome'[p] = "none"
    BY <1>1, <1>3, <1>5, OutcomeIs DEF Got, IInv, CallInv, TypeOK
  <2>3. Got' = [Got EXCEPT ![p] = k] /\ Outcome' = Outcome
    BY <1>3, <2>2, OneCall DEF Step
  <2> QED
    BY <1>2, <1>3, <1>4, <1>5, <2>1, <2>3
    DEF Atomic!Next, Atomic!LookUp, Atomic!Pending
<1>6. CASE Matching(name[p]) = {} /\ res' = [res EXCEPT ![p] = "notfound"]
           /\ pc' = [pc EXCEPT ![p] = "done"]
  <2>1. Store[name[p]] = NoKey
    BY <1>3, <1>6, TakenIsBound
  <2>2. Outcome'[p] = "notfound"
    BY <1>1, <1>6, OutcomeIs DEF TypeOK
  <2>3. Got'[p] = NoKey
    BY <1>1, <1>6, <2>2 DEF Got, TypeOK
  <2>4. Got' = Got /\ Outcome' = [Outcome EXCEPT ![p] = "notfound"]
    BY <1>4, <2>2, <2>3, OneCall DEF Step
  <2> QED
    BY <1>2, <1>3, <1>4, <1>6, <2>1, <2>4
    DEF Atomic!Next, Atomic!NotFound, Atomic!Pending, Atomic!Decide
<1> QED
  BY <1>5, <1>6 DEF Alone

LEMMA AtomicExportFound ==
  ASSUME Alone, IInv, AloneInv, IInv', AloneInv', NEW p \in Procs, ExportFound(p)
  PROVE  Atomic!Next
<1> USE DEF ExportFound, At, Fails, Finish, Decide, histVars
<1>1. TypeOK
  BY DEF IInv
<1>2. Store' = Store
  BY SameStore DEF Issued
<1>3. /\ op[p] = "load" /\ ref[p] # NoKey
      /\ Outcome[p] = "none" /\ Outcome'[p] = res'[p] /\ Issued' = Issued
  BY OutcomeIs
  DEF IInv, CallInv, Loading, HeldInv, ReleasedOnce, HoldsReference, Issued, TypeOK
<1>4. Got[p] = ref[p]
  BY DEF Got
<1>5. CASE res' = [res EXCEPT ![p] = "ok"] /\ UNCHANGED ref
  <2>1. Got'[p] = Got[p] /\ Outcome'[p] = "ok"
    BY <1>1, <1>3, <1>4, <1>5 DEF Got, TypeOK
  <2>2. Got' = Got /\ Outcome' = [Outcome EXCEPT ![p] = "ok"]
    BY <2>1, OneCall DEF Step
  <2> QED
    BY <1>2, <1>3, <1>4, <1>5, <2>2
    DEF Atomic!Next, Atomic!Loaded, Atomic!Pending, Atomic!Decide
<1>6. CASE res' = [res EXCEPT ![p] = "error"]
  <2>1. Outcome'[p] = "error" /\ pc'[p] = "done"
    BY <1>1, <1>3, <1>6 DEF TypeOK
  <2>2. Got'[p] = NoKey
    BY <2>1 DEF Got
  <2>3. Got' = [Got EXCEPT ![p] = NoKey] /\ Outcome' = [Outcome EXCEPT ![p] = "error"]
    BY <2>1, <2>2, OneCall DEF Step
  <2> QED
    BY <1>2, <1>3, <1>6, <2>3
    DEF Atomic!Next, Atomic!Fail, Atomic!Pending, Atomic!Decide, Atomic!Ops
<1> QED
  BY <1>5, <1>6

LEMMA AtomicDeleteKey ==
  ASSUME Alone, IInv, AloneInv, IInv', AloneInv', NEW p \in Procs, DeleteKey(p)
  PROVE  Atomic!Next
<1> USE DEF DeleteKey, At, Fails, Finish, Decide
<1>1. TypeOK /\ TypeOK' /\ NamesAreUnique /\ NamesAreUnique'
  BY DEF IInv, AloneInv
<1>2. /\ op[p] = "delete" /\ name[p] \in Names /\ pc'[p] = "done" /\ Issued' = Issued
      /\ Outcome[p] = "none" /\ Outcome'[p] = res'[p]
  BY <1>1, OutcomeIs DEF IInv, CallInv, Issued, TypeOK
<1>3. Got[p] = NoKey /\ Got'[p] = NoKey
  BY <1>1, <1>2 DEF Got, TypeOK
<1>4. /\ Got' = Got /\ Got' = [Got EXCEPT ![p] = NoKey]
      /\ Outcome' = [Outcome EXCEPT ![p] = res'[p]]
  BY <1>2, <1>3, OneCall DEF Step
<1>5. CASE Matching(name[p]) # {} /\ RemoveMatching(name[p])
           /\ res' = [res EXCEPT ![p] = "ok"]
  <2>1. Store[name[p]] # NoKey
    BY <1>2, <1>5, TakenIsBound
  <2>2. tag' = [k \in Keys |-> IF tag[k] = name[p] THEN NoName ELSE tag[k]]
    BY <1>5 DEF RemoveMatching
  <2>3. Bound(name[p])' = NoKey
    BY <1>1, <1>2, <2>2, BoundIsNext, DarwinKeychainAssumption DEF Issued, TypeOK
  <2>4. ASSUME NEW n \in Names \ {name[p]} PROVE Bound(n)' = Bound(n)
    <3>1. \A k \in Issued : tag'[k] = n <=> tag[k] = n
      BY <1>1, <2>2, DarwinKeychainAssumption DEF Issued, TypeOK
    <3>2. CASE \E k \in Issued : tag[k] = n
      BY <1>1, <1>2, <3>1, <3>2, BoundIs, BoundIsNext
    <3>3. CASE \A k \in Issued : tag[k] # n
      BY <1>1, <1>2, <3>1, <3>3, BoundIs, BoundIsNext
    <3> QED
      BY <3>2, <3>3
  <2>5. Store' = [Store EXCEPT ![name[p]] = NoKey]
    BY <1>2, <2>3, <2>4 DEF Store
  <2> QED
    BY <1>1, <1>2, <1>4, <1>5, <2>1, <2>5
    DEF TypeOK, Atomic!Next, Atomic!Unbind, Atomic!Pending, Atomic!Decide
<1>6. CASE Matching(name[p]) = {} /\ UNCHANGED tag /\ res' = [res EXCEPT ![p] = "notfound"]
  <2>1. Store[name[p]] = NoKey
    BY <1>2, <1>6, TakenIsBound
  <2>2. Store' = Store
    BY <1>2, <1>6, SameStore
  <2> QED
    BY <1>1, <1>2, <1>3, <1>4, <1>6, <2>1, <2>2
    DEF TypeOK, Atomic!Next, Atomic!NotFound, Atomic!Pending, Atomic!Decide
<1>7. CASE UNCHANGED tag /\ res' = [res EXCEPT ![p] = "error"]
  <2>1. Store' = Store
    BY <1>2, <1>7, SameStore
  <2> QED
    BY <1>1, <1>2, <1>4, <1>7, <2>1
    DEF TypeOK, Atomic!Next, Atomic!Fail, Atomic!Pending, Atomic!Decide, Atomic!Ops
<1> QED
  BY <1>5, <1>6, <1>7

\* The signer's steps are none of KeyStore's business.
LEMMA AtomicSigner ==
  ASSUME Alone, IInv, AloneInv, IInv', AloneInv', NEW p \in Procs, BeginSign(p) \/ EndSign(p) \/ CloseSigner(p)
  PROVE  UNCHANGED Atomic!vars
<1> USE DEF BeginSign, EndSign, CloseSigner, Close, At, Goto, callVars, histVars
<1>1. Store' = Store
  BY SameStore DEF Issued
<1>2. Outcome'[p] = Outcome[p]
  BY OutcomeIs DEF IInv, TypeOK, CallInv
<1>3. Got'[p] = Got[p]
  BY <1>2 DEF Got, IInv, TypeOK, CallInv
<1>4. Got' = Got /\ Outcome' = Outcome /\ Issued' = Issued
  BY <1>2, <1>3, OneCall DEF Step, Issued
<1> QED
  BY <1>1, <1>4 DEF Atomic!vars

LEMMA AtomicNext ==
  ASSUME Alone
  PROVE  /\ IInv /\ AloneInv /\ IInv' /\ AloneInv'
         /\ [Next]_vars
         => [Atomic!Next]_(Atomic!vars)
<1> SUFFICES ASSUME IInv, AloneInv, IInv', AloneInv', [Next]_vars
             PROVE  Atomic!Next \/ UNCHANGED Atomic!vars
  OBVIOUS
<1>1. CASE UNCHANGED vars
  BY <1>1 DEF vars, callVars, histVars, Atomic!vars, Store, Bound, Matching, Issued, Outcome,
       Got
<1> QED
  BY <1>1, AtomicCall, AtomicReturn, AtomicCheckName, AtomicMakeKey, AtomicExport,
     AtomicUndo, AtomicFindKey, AtomicExportFound, AtomicDeleteKey, AtomicSigner
  DEF Next, Step

\* Exclusive users, whose lookups do not fail, have an atomic store, however
\* many they are and whatever else fails: createKey binds a free name, loadKey
\* finds what it bound, and a createKey that fails after its key was persisted
\* has had no effect, unless its clean-up could not delete the key.
THEOREM Refinement ==
  ASSUME "lookup" \notin Faults
  PROVE  ExclusiveSpec => ImplementsKeyStore
<1>1. Init => Atomic!Init
  BY AtomicInit
<1>2. /\ IInv /\ AloneInv /\ IInv' /\ AloneInv'
      /\ [Next /\ Exclusive']_vars
      => [Atomic!Next]_(Atomic!vars)
  BY AtomicNext DEF Alone
<1> QED
  BY <1>1, <1>2, InductiveAlone, PTL DEF ExclusiveSpec, ImplementsKeyStore, Atomic!Spec

=============================================================================
