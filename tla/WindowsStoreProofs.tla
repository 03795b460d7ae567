------------------------- MODULE WindowsStoreProofs -------------------------
(***************************************************************************)
(* Proofs about WindowsStore, for any number of callers, names, keys,      *)
(* handles and Signs, with any faults.                                     *)
(***************************************************************************)
EXTENDS WindowsStore, TLAPS

(***************************************************************************)
(* The inductive invariant.  CallInv says which function is where, KeyInv  *)
(* which keys can be behind a handle or a name: a key that is not          *)
(* persisted yet is behind the one handle of the createKey that made it.   *)
(***************************************************************************)
Deferred == {"freeKey", "freeProv", "done"}
Making   == {"setProperty", "finalize"}

SignerAt == {"signer", "closeKey", "closeProv", "closed"}

CallOK(c) ==
  /\ pc[c] \in SignerAt \union {"idle"} => op[c] = "none" /\ name[c] = NoName
  /\ pc[c] \notin SignerAt \union {"idle"} => op[c] # "none" /\ name[c] \in Names
  /\ pc[c] \in Making \union {"createPersisted"} => op[c] = "create"
  /\ pc[c] = "openKey" => op[c] \in {"load", "delete"}
  /\ pc[c] = "export" => op[c] \in {"create", "load"}
  /\ pc[c] = "delete" => op[c] = "delete"
  /\ pc[c] \in Deferred <=> res[c] # "none"
  /\ op[c] \in {"create", "load"} /\ pc[c] \in {"freeKey", "freeProv"} => res[c] # "ok"
  /\ signing[c] > 0 => pc[c] \in {"signer", "closed"}
  /\ pc[c] \in {"idle", "closed"} => hKey[c] = Zero /\ hProv[c] = Zero
  /\ pc[c] = "closeProv" => hKey[c] = Zero

CallInv == \A c \in Callers : CallOK(c)

KeyInv ==
  /\ \A h \in Handles : object[h] \in made \union {Provider, NoKey}
  /\ \A n \in Names : store[n] \in persisted \union {NoKey}
  /\ \A c \in Callers : pc[c] \in Making => KeyOf(c) \notin persisted
  /\ \A c, d \in Callers :
        c # d /\ pc[c] \in Making /\ pc[d] \in Making => KeyOf(c) # KeyOf(d)

IInv == TypeOK /\ CallInv /\ KeyInv /\ HandlesAreOwn /\ NoHandleLeaks

-----------------------------------------------------------------------------
LEMMA InitIInv == Init => IInv
<1> SUFFICES ASSUME Init PROVE IInv
  OBVIOUS
<1> USE WindowsStoreAssumption DEF Init
<1>1. TypeOK
  BY DEF TypeOK, Locations, Results
<1>2. CallInv /\ KeyInv
  BY DEF CallInv, CallOK, KeyInv, Making, Deferred, SignerAt, At
<1>3. HandlesAreOwn /\ NoHandleLeaks
  BY DEF HandlesAreOwn, NoHandleLeaks, Held, HoldsProv, HoldsKey, HoldsSigner, Closing, At
<1> QED
  BY <1>1, <1>2, <1>3 DEF IInv

\* What c's own handles are.
OwnOK(c) ==
  /\ HoldsProv(c) => hProv[c] \in Handles /\ object[hProv[c]] = Provider
  /\ HoldsKey(c) => hKey[c] \in Handles /\ KeyOf(c) \in Keys
  /\ HoldsSigner(c) => KeyOf(c) = pub[c]
  /\ signing[c] > 0 => HoldsSigner(c) \/ hKey[c] = Zero

\* A handle that somebody holds is in use.
LEMMA HeldInUse ==
  ASSUME IInv, NEW c \in Callers
  PROVE  \A h \in Held(c) : h \in Handles /\ object[h] # NoKey
BY WindowsStoreAssumption DEF IInv, HandlesAreOwn, Held, KeyOf

\* A step of c that touches no handle but its own and unused ones disturbs
\* nobody else.
LEMMA Frame ==
  ASSUME IInv, TypeOK', KeyInv', NEW c \in Callers,
         \A d \in Callers \ {c} :
            /\ pc'[d] = pc[d] /\ op'[d] = op[d] /\ name'[d] = name[d]
            /\ hProv'[d] = hProv[d] /\ hKey'[d] = hKey[d] /\ pub'[d] = pub[d]
            /\ res'[d] = res[d] /\ signing'[d] = signing[d],
         CallOK(c)', OwnOK(c)',
         Held(c)' \subseteq Held(c) \union Unused,
         \A h \in Handles :
            /\ h \notin Held(c) \union Unused => object'[h] = object[h]
            /\ h \in Held(c) \union Unused /\ object'[h] # NoKey => h \in Held(c)'
  PROVE  IInv'
<1> USE WindowsStoreAssumption
<1>1. CallInv'
  <2>1. \A d \in Callers \ {c} : CallOK(d)'
    BY DEF IInv, CallInv, CallOK, At
  <2> QED
    BY <2>1 DEF CallInv
<1>2. \A d \in Callers : Held(d) \intersect Unused = {}
  BY HeldInUse DEF Unused
<1>3. \A d \in Callers \ {c} : Held(d)' = Held(d)
  BY DEF Held, HoldsProv, HoldsKey, HoldsSigner, Closing, ReturnsSigner, At
<1>4. \A d \in Callers \ {c} : Held(c) \intersect Held(d) = {}
  BY DEF IInv, HandlesAreOwn
<1>5. \A d \in Callers \ {c} : \A h \in Held(d) : object'[h] = object[h]
  BY <1>2, <1>4 DEF Held
<1>6. ASSUME NEW d \in Callers \ {c} PROVE OwnOK(d)'
  <2>1. OwnOK(d)
    BY DEF IInv, HandlesAreOwn, OwnOK
  <2>2. /\ HoldsProv(d)' = HoldsProv(d) /\ HoldsKey(d)' = HoldsKey(d)
        /\ HoldsSigner(d)' = HoldsSigner(d)
    BY DEF HoldsProv, HoldsKey, HoldsSigner, Closing, ReturnsSigner, At
  <2>3. /\ HoldsProv(d) => hProv[d] \in Held(d)
        /\ HoldsKey(d) => hKey[d] \in Held(d)
    BY <2>1 DEF Held, OwnOK
  <2>4. HoldsSigner(d) => HoldsKey(d)
    BY DEF HoldsKey
  <2> QED
    BY <1>5, <2>1, <2>2, <2>3, <2>4 DEF OwnOK, KeyOf
<1>7. HandlesAreOwn'
  <2>1. \A d, e \in Callers : d # e => Held(d)' \intersect Held(e)' = {}
    BY <1>2, <1>3, <1>4 DEF IInv, HandlesAreOwn
  <2>2. \A d \in Callers : OwnOK(d)'
    BY <1>6
  <2> QED
    BY <2>1, <2>2 DEF HandlesAreOwn, OwnOK
<1>8. NoHandleLeaks'
  <2> SUFFICES ASSUME NEW h \in Handles, object'[h] # NoKey
               PROVE  \E d \in Callers : h \in Held(d)'
    BY DEF NoHandleLeaks
  <2>1. CASE h \in Held(c) \union Unused
    BY <2>1
  <2>2. CASE h \notin Held(c) \union Unused
    <3>1. PICK d \in Callers : h \in Held(d)
      BY <2>2 DEF IInv, NoHandleLeaks, Unused
    <3>2. d # c
      BY <2>2, <3>1
    <3> QED
      BY <1>3, <3>1, <3>2
  <2> QED
    BY <2>1, <2>2
<1> QED
  BY <1>1, <1>7, <1>8 DEF IInv

\* A step of c that opens and frees nothing, and persists nothing.
LEMMA QuietStep ==
  ASSUME IInv, TypeOK', NEW c \in Callers,
         \A d \in Callers \ {c} :
            /\ pc'[d] = pc[d] /\ op'[d] = op[d] /\ name'[d] = name[d]
            /\ hProv'[d] = hProv[d] /\ hKey'[d] = hKey[d] /\ pub'[d] = pub[d]
            /\ res'[d] = res[d] /\ signing'[d] = signing[d],
         UNCHANGED <<object, storeVars>>,
         pc'[c] \in Making => pc[c] \in Making /\ hKey'[c] = hKey[c],
         CallOK(c)', OwnOK(c)',
         Held(c)' = Held(c)
  PROVE  IInv'
<1>1. KeyInv'
  BY DEF IInv, KeyInv, KeyOf, storeVars
<1> QED
  BY <1>1, HeldInUse, Frame DEF Unused

LEMMA OwnStart == ASSUME IInv, NEW c \in Callers PROVE OwnOK(c)
BY DEF IInv, HandlesAreOwn, OwnOK

-----------------------------------------------------------------------------
(***************************************************************************)
(* One lemma per action; first those that open, free and persist nothing.  *)
(***************************************************************************)

LEMMA CallFunctionStep == ASSUME IInv, NEW c \in Callers, CallFunction(c) PROVE IInv'
<1> USE WindowsStoreAssumption DEF IInv, CallFunction, Call, At, Goto
<1>1. TypeOK'
  BY DEF TypeOK, Locations, storeVars
<1>2. CallOK(c)'
  BY DEF CallInv, CallOK, SignerAt, TypeOK, Making, Deferred
<1>3. OwnOK(c)'
  BY OwnStart DEF CallInv, CallOK, SignerAt, OwnOK, HoldsProv, HoldsKey, HoldsSigner, Closing, ReturnsSigner, KeyOf, TypeOK, Making, Deferred
<1>4. Held(c)' = Held(c)
  BY DEF CallInv, CallOK, SignerAt, Held, HoldsProv, HoldsKey, HoldsSigner, Closing, ReturnsSigner, TypeOK, Deferred
<1> QED
  BY <1>1, <1>2, <1>3, <1>4, QuietStep DEF TypeOK, Making

LEMMA SetPropertyStep == ASSUME IInv, NEW c \in Callers, SetProperty(c) PROVE IInv'
<1> USE WindowsStoreAssumption DEF IInv, SetProperty, FinalizeFails, At, Goto, Decide
<1>1. TypeOK'
  BY DEF TypeOK, Locations, Results, callVars, storeVars
<1>2. CallOK(c)'
  BY DEF CallInv, CallOK, SignerAt, TypeOK, Making, Deferred, callVars
<1>3. OwnOK(c)'
  BY OwnStart DEF CallInv, CallOK, SignerAt, OwnOK, HoldsProv, HoldsKey, HoldsSigner, Closing, ReturnsSigner, KeyOf, TypeOK, Making, Deferred, callVars
<1>4. Held(c)' = Held(c)
  BY DEF CallInv, CallOK, SignerAt, Held, HoldsProv, HoldsKey, HoldsSigner, Closing, ReturnsSigner, TypeOK, Deferred, callVars
<1> QED
  BY <1>1, <1>2, <1>3, <1>4, QuietStep DEF TypeOK, Making, callVars

LEMMA ExportPublicKeyStep == ASSUME IInv, NEW c \in Callers, ExportPublicKey(c) PROVE IInv'
<1> USE WindowsStoreAssumption DEF IInv, ExportPublicKey, At, Decide
<1>1. TypeOK'
  BY OwnStart DEF TypeOK, Locations, Results, storeVars, OwnOK, HoldsKey
<1>2. CallOK(c)'
  BY DEF CallInv, CallOK, SignerAt, TypeOK, Making, Deferred
<1>3. OwnOK(c)'
  BY OwnStart DEF CallInv, CallOK, SignerAt, OwnOK, HoldsProv, HoldsKey, HoldsSigner, Closing, ReturnsSigner, KeyOf, TypeOK, Making, Deferred
<1>4. Held(c)' = Held(c)
  BY DEF CallInv, CallOK, SignerAt, Held, HoldsProv, HoldsKey, HoldsSigner, Closing, ReturnsSigner, TypeOK, Deferred
<1> QED
  BY <1>1, <1>2, <1>3, <1>4, QuietStep DEF TypeOK, Making

LEMMA ReturnSignerStep == ASSUME IInv, NEW c \in Callers, ReturnSigner(c) PROVE IInv'
<1> USE WindowsStoreAssumption DEF IInv, ReturnSigner, Leave, At
<1>1. TypeOK'
  BY DEF TypeOK, Locations, Results, storeVars
<1>2. CallOK(c)'
  BY DEF CallInv, CallOK, SignerAt, TypeOK, Making, Deferred
<1>3. OwnOK(c)'
  BY OwnStart DEF CallInv, CallOK, SignerAt, OwnOK, HoldsProv, HoldsKey, HoldsSigner, Closing, ReturnsSigner, KeyOf, TypeOK, Making, Deferred
<1>4. Held(c)' = Held(c)
  BY DEF CallInv, CallOK, SignerAt, Held, HoldsProv, HoldsKey, HoldsSigner, Closing, ReturnsSigner, TypeOK, Deferred
<1> QED
  BY <1>1, <1>2, <1>3, <1>4, QuietStep DEF TypeOK, Making

LEMMA ReturnNoSignerStep == ASSUME IInv, NEW c \in Callers, ReturnNoSigner(c) PROVE IInv'
<1> USE WindowsStoreAssumption DEF IInv, ReturnNoSigner, Leave, At
<1>1. TypeOK'
  BY DEF TypeOK, Locations, Results, storeVars
<1>2. CallOK(c)'
  BY DEF CallInv, CallOK, SignerAt, TypeOK, Making, Deferred
<1>3. OwnOK(c)'
  BY OwnStart DEF CallInv, CallOK, SignerAt, OwnOK, HoldsProv, HoldsKey, HoldsSigner, Closing, ReturnsSigner, KeyOf, TypeOK, Making, Deferred
<1>4. Held(c)' = Held(c)
  BY DEF CallInv, CallOK, SignerAt, Held, HoldsProv, HoldsKey, HoldsSigner, Closing, ReturnsSigner, TypeOK, Deferred
<1> QED
  BY <1>1, <1>2, <1>3, <1>4, QuietStep DEF TypeOK, Making

LEMMA BeginSignStep == ASSUME IInv, NEW c \in Callers, BeginSign(c) PROVE IInv'
<1> USE WindowsStoreAssumption DEF IInv, BeginSign, At
<1>1. TypeOK'
  BY DEF TypeOK, callVars, storeVars
<1>2. CallOK(c)'
  BY DEF CallInv, CallOK, SignerAt, TypeOK, Making, Deferred, callVars
<1>3. OwnOK(c)'
  BY OwnStart DEF CallInv, CallOK, SignerAt, OwnOK, HoldsProv, HoldsKey, HoldsSigner, Closing, ReturnsSigner, KeyOf, TypeOK, Making, Deferred, callVars
<1>4. Held(c)' = Held(c)
  BY DEF CallInv, CallOK, SignerAt, Held, HoldsProv, HoldsKey, HoldsSigner, Closing, ReturnsSigner, TypeOK, Deferred, callVars
<1> QED
  BY <1>1, <1>2, <1>3, <1>4, QuietStep DEF TypeOK, Making, callVars

LEMMA EndSignStep == ASSUME IInv, NEW c \in Callers, EndSign(c) PROVE IInv'
<1> USE WindowsStoreAssumption DEF IInv, EndSign, At
<1>1. TypeOK'
  BY DEF TypeOK, callVars, storeVars
<1>2. CallOK(c)'
  BY DEF CallInv, CallOK, SignerAt, TypeOK, Making, Deferred, callVars
<1>3. OwnOK(c)'
  BY OwnStart DEF CallInv, CallOK, SignerAt, OwnOK, HoldsProv, HoldsKey, HoldsSigner, Closing, ReturnsSigner, KeyOf, TypeOK, Making, Deferred, callVars
<1>4. Held(c)' = Held(c)
  BY DEF CallInv, CallOK, SignerAt, Held, HoldsProv, HoldsKey, HoldsSigner, Closing, ReturnsSigner, TypeOK, Deferred, callVars
<1> QED
  BY <1>1, <1>2, <1>3, <1>4, QuietStep DEF TypeOK, Making, callVars

LEMMA CloseSignerStep == ASSUME IInv, NEW c \in Callers, CloseSigner(c) PROVE IInv'
<1> USE WindowsStoreAssumption DEF IInv, CloseSigner, CallClose, At, Goto
<1>1. TypeOK'
  BY DEF TypeOK, Locations, callVars, storeVars
<1>2. CallOK(c)'
  BY DEF CallInv, CallOK, SignerAt, TypeOK, Making, Deferred, callVars
<1>3. OwnOK(c)'
  BY OwnStart
  DEF CallInv, CallOK, OwnOK, HoldsProv, HoldsKey, HoldsSigner, Closing, KeyOf, TypeOK,
      callVars
<1>4. Held(c)' = Held(c)
  BY OwnStart
  DEF CallInv, CallOK, OwnOK, Held, HoldsProv, HoldsKey, HoldsSigner, Closing, TypeOK,
      callVars
<1> QED
  BY <1>1, <1>2, <1>3, <1>4, QuietStep DEF TypeOK, Making, callVars

LEMMA DropSignerStep == ASSUME IInv, NEW c \in Callers, DropSigner(c) PROVE IInv'
<1> USE WindowsStoreAssumption DEF IInv, DropSigner, At
<1>1. TypeOK'
  BY DEF TypeOK, Locations, storeVars
<1>2. CallOK(c)'
  BY DEF CallInv, CallOK, SignerAt, TypeOK, Making, Deferred
<1>3. OwnOK(c)'
  BY OwnStart
  DEF CallInv, CallOK, OwnOK, HoldsProv, HoldsKey, HoldsSigner, Closing, KeyOf, TypeOK
<1>4. Held(c)' = Held(c)
  BY DEF CallInv, CallOK, SignerAt, Held, HoldsProv, HoldsKey, HoldsSigner, Closing, TypeOK
<1> QED
  BY <1>1, <1>2, <1>3, <1>4, QuietStep DEF TypeOK, Making

-----------------------------------------------------------------------------
(***************************************************************************)
(* The actions that open and free handles, and that persist a key.         *)
(***************************************************************************)

LEMMA OpenStep ==
  ASSUME IInv, TypeOK', KeyInv', NEW c \in Callers, NEW h \in Unused, NEW x, Open(h, x),
         \A d \in Callers \ {c} :
            /\ pc'[d] = pc[d] /\ op'[d] = op[d] /\ name'[d] = name[d]
            /\ hProv'[d] = hProv[d] /\ hKey'[d] = hKey[d] /\ pub'[d] = pub[d]
            /\ res'[d] = res[d] /\ signing'[d] = signing[d],
         CallOK(c)', OwnOK(c)',
         Held(c)' = Held(c) \union {h}
  PROVE  IInv'
<1>1. \A g \in Handles \ {h} : object'[g] = object[g]
  BY DEF Open, IInv, TypeOK
<1> QED
  BY <1>1, HeldInUse, Frame DEF Unused

LEMMA FreeStep ==
  ASSUME IInv, TypeOK', KeyInv', NEW c \in Callers, NEW h \in Held(c), Free(h),
         \A d \in Callers \ {c} :
            /\ pc'[d] = pc[d] /\ op'[d] = op[d] /\ name'[d] = name[d]
            /\ hProv'[d] = hProv[d] /\ hKey'[d] = hKey[d] /\ pub'[d] = pub[d]
            /\ res'[d] = res[d] /\ signing'[d] = signing[d],
         CallOK(c)', OwnOK(c)',
         Held(c)' = Held(c) \ {h}
  PROVE  IInv'
<1>1. object'[h] = NoKey /\ \A g \in Handles \ {h} : object'[g] = object[g]
  BY HeldInUse DEF Free, IInv, TypeOK
<1> QED
  BY <1>1, Frame DEF Unused

\* Opening a handle changes no key of a createKey that is not persisted yet, and
\* neither does freeing the handle of somebody else.
LEMMA KeysOfOthers ==
  ASSUME IInv, NEW c \in Callers, NEW h \in Held(c) \union Unused,
         \A g \in Handles \ {h} : object'[g] = object[g],
         \A d \in Callers \ {c} : pc'[d] = pc[d] /\ hKey'[d] = hKey[d]
  PROVE  \A d \in Callers \ {c} :
            pc'[d] \in Making => pc[d] \in Making /\ KeyOf(d)' = KeyOf(d)
<1> SUFFICES ASSUME NEW d \in Callers \ {c}, pc[d] \in Making
             PROVE  hKey[d] \in Handles \ {h}
  BY DEF KeyOf
<1>1. hKey[d] \in Held(d)
  BY OwnStart DEF OwnOK, Held, HoldsKey, Making
<1>2. Held(c) \intersect Held(d) = {}
  BY DEF IInv, HandlesAreOwn
<1> QED
  BY <1>1, <1>2, HeldInUse DEF Unused

LEMMA OpenProviderStep == ASSUME IInv, NEW c \in Callers, OpenProvider(c) PROVE IInv'
<1> USE WindowsStoreAssumption DEF IInv, OpenProvider, At, Goto, Decide
<1>1. TypeOK'
  BY DEF TypeOK, Locations, Results, Open, Unused, storeVars
<1>2. CallOK(c)'
  BY DEF CallInv, CallOK, SignerAt, TypeOK, Making, Deferred
<1>3. Held(c) = {}
  BY DEF Held, HoldsProv, HoldsKey, HoldsSigner, Closing
<1>4. ASSUME NEW h \in Unused, Open(h, Provider), hProv' = [hProv EXCEPT ![c] = h],
             pc' = [pc EXCEPT ![c] = IF op[c] = "create" THEN "createPersisted"
                                                        ELSE "openKey"]
      PROVE  IInv'
  <2>1. h \in Handles /\ object' = [object EXCEPT ![h] = Provider]
    BY <1>4 DEF Unused, Open
  <2>2. OwnOK(c)'
    BY <1>4, <2>1, OwnStart
    DEF CallInv, CallOK, SignerAt, OwnOK, HoldsProv, HoldsKey, HoldsSigner, Closing, ReturnsSigner, TypeOK
  <2>3. Held(c)' = Held(c) \union {h}
    BY <1>3, <1>4, <2>1 DEF Held, HoldsProv, HoldsKey, HoldsSigner, Closing, ReturnsSigner, TypeOK
  <2>4. KeyInv'
    <3>1. \A d \in Callers :
             pc'[d] \in Making => d # c /\ pc[d] \in Making /\ KeyOf(d)' = KeyOf(d)
      BY <1>4, <2>1, KeysOfOthers DEF Making, TypeOK
    <3> QED
      BY <2>1, <3>1 DEF KeyInv, storeVars, TypeOK
  <2> QED
    BY <1>1, <1>2, <1>4, <2>2, <2>3, <2>4, OpenStep DEF TypeOK
<1>5. CASE pc' = [pc EXCEPT ![c] = "done"] /\ res' = [res EXCEPT ![c] = "error"]
           /\ UNCHANGED <<hProv, object>>
  <2>1. OwnOK(c)'
    BY <1>5, OwnStart
    DEF CallInv, CallOK, SignerAt, OwnOK, HoldsProv, HoldsKey, HoldsSigner, Closing, ReturnsSigner, TypeOK
  <2>2. Held(c)' = {}
    BY <1>5 DEF Held, HoldsProv, HoldsKey, HoldsSigner, Closing, ReturnsSigner, TypeOK
  <2> QED
    BY <1>1, <1>2, <1>3, <1>5, <2>1, <2>2, QuietStep DEF TypeOK, Making
<1> QED
  BY <1>4, <1>5

LEMMA CreatePersistedKeyStep ==
  ASSUME IInv, NEW c \in Callers, CreatePersistedKey(c) PROVE IInv'
<1> USE WindowsStoreAssumption DEF IInv, CreatePersistedKey, At, Goto, Decide
<1>1. TypeOK'
  BY DEF TypeOK, Locations, Results, Open, Unused
<1>2. CallOK(c)'
  BY DEF CallInv, CallOK, SignerAt, TypeOK, Making, Deferred
<1>3. Held(c) = {hProv[c]} /\ hProv[c] \in Handles /\ object[hProv[c]] = Provider
  BY OwnStart DEF Held, OwnOK, HoldsProv, HoldsKey, HoldsSigner, Closing
<1>4. ASSUME NEW h \in Unused, NEW k \in Keys \ made, Open(h, k),
             hKey' = [hKey EXCEPT ![c] = h], made' = made \union {k},
             pc' = [pc EXCEPT ![c] = "setProperty"]
      PROVE  IInv'
  <2>1. h \in Handles /\ h # hProv[c] /\ object' = [object EXCEPT ![h] = k]
    BY <1>3, <1>4 DEF Unused, Open
  <2>2. OwnOK(c)'
    BY <1>3, <1>4, <2>1, OwnStart
    DEF CallInv, CallOK, SignerAt, OwnOK, HoldsProv, HoldsKey, HoldsSigner, Closing, ReturnsSigner, KeyOf, TypeOK
  <2>3. Held(c)' = Held(c) \union {h}
    BY <1>3, <1>4, <2>1 DEF Held, HoldsProv, HoldsKey, HoldsSigner, Closing, TypeOK
  <2>4. KeyInv'
    <3>1. \A d \in Callers \ {c} :
             pc'[d] \in Making =>
                pc[d] \in Making /\ KeyOf(d)' = KeyOf(d) /\ KeyOf(d) \in made
      <4>1. \A d \in Callers \ {c} :
               pc[d] \in Making => hKey[d] \in Handles /\ KeyOf(d) \in Keys
        BY OwnStart DEF OwnOK, HoldsKey, Making
      <4> QED
        BY <1>4, <2>1, <4>1, KeysOfOthers DEF KeyInv, KeyOf, TypeOK
    <3>2. KeyOf(c)' = k /\ k \notin persisted
      BY <1>4, <2>1 DEF KeyOf, TypeOK
    <3> QED
      BY <1>4, <2>1, <3>1, <3>2 DEF KeyInv, TypeOK
  <2> QED
    BY <1>1, <1>2, <1>4, <2>2, <2>3, <2>4, OpenStep DEF TypeOK
<1>5. CASE /\ \E r \in Results : res' = [res EXCEPT ![c] = r]
           /\ pc' = [pc EXCEPT ![c] = "freeProv"]
           /\ UNCHANGED <<hKey, made, object>>
  <2>1. OwnOK(c)'
    BY <1>2, <1>3, <1>5, OwnStart
    DEF CallOK, SignerAt, OwnOK, HoldsProv, HoldsKey, HoldsSigner, Closing, ReturnsSigner, TypeOK
  <2>2. Held(c)' = Held(c)
    BY <1>3, <1>5 DEF Held, HoldsProv, HoldsKey, HoldsSigner, Closing, TypeOK
  <2> QED
    BY <1>1, <1>2, <1>5, <2>1, <2>2, QuietStep DEF TypeOK, Making, storeVars
<1> QED
  BY <1>4, <1>5 DEF Results

LEMMA FinalizeKeyStep == ASSUME IInv, NEW c \in Callers, FinalizeKey(c) PROVE IInv'
<1> USE WindowsStoreAssumption DEF IInv, FinalizeKey, FinalizeFails, At, Goto, Decide
<1>1. hKey[c] \in Handles /\ KeyOf(c) \in Keys \intersect made
  BY OwnStart DEF OwnOK, HoldsKey, KeyInv, KeyOf, TypeOK
<1>2. TypeOK'
  BY <1>1 DEF TypeOK, Locations, Results, callVars
<1>3. CallOK(c)'
  BY DEF CallInv, CallOK, SignerAt, TypeOK, Making, Deferred, callVars
<1>4. OwnOK(c)'
  BY OwnStart
  DEF OwnOK, HoldsProv, HoldsKey, HoldsSigner, Closing, ReturnsSigner, KeyOf, TypeOK, callVars
<1>5. Held(c)' = Held(c)
  BY DEF Held, HoldsProv, HoldsKey, HoldsSigner, Closing, TypeOK, callVars
<1>6. CASE /\ store' = [store EXCEPT ![name[c]] = KeyOf(c)]
           /\ persisted' = persisted \union {KeyOf(c)}
           /\ pc' = [pc EXCEPT ![c] = "export"]
  <2>1. KeyInv'
    BY <1>6 DEF KeyInv, KeyOf, Making, TypeOK, callVars
  <2> QED
    BY <1>2, <1>3, <1>4, <1>5, <1>6, <2>1, HeldInUse, Frame DEF TypeOK, Unused, callVars
<1>7. CASE pc' = [pc EXCEPT ![c] = "freeKey"] /\ UNCHANGED <<store, persisted>>
  BY <1>2, <1>3, <1>4, <1>5, <1>7, QuietStep DEF TypeOK, Making, storeVars, callVars
<1> QED
  BY <1>6, <1>7

LEMMA OpenKeyStep == ASSUME IInv, NEW c \in Callers, OpenKey(c) PROVE IInv'
<1> USE WindowsStoreAssumption DEF IInv, OpenKey, At, Goto, Decide
<1>1. name[c] \in Names
  BY DEF CallInv, CallOK
<1>2. store[name[c]] \in Keys \union {NoKey}
  BY <1>1 DEF TypeOK
<1>3. TypeOK'
  BY <1>2 DEF TypeOK, Locations, Results, Open, Unused, storeVars
<1>4. CallOK(c)'
  BY DEF CallInv, CallOK, SignerAt, TypeOK, Making, Deferred
<1>5. Held(c) = {hProv[c]} /\ hProv[c] \in Handles /\ object[hProv[c]] = Provider
  BY OwnStart DEF Held, OwnOK, HoldsProv, HoldsKey, HoldsSigner, Closing
<1>6. ASSUME NEW h \in Unused, Open(h, store[name[c]]), store[name[c]] # NoKey,
             hKey' = [hKey EXCEPT ![c] = h],
             pc' = [pc EXCEPT ![c] = IF op[c] = "load" THEN "export" ELSE "delete"]
      PROVE  IInv'
  <2>1. /\ h \in Handles /\ h # hProv[c]
        /\ object' = [object EXCEPT ![h] = store[name[c]]]
    BY <1>5, <1>6 DEF Unused, Open
  <2>2. OwnOK(c)'
    BY <1>2, <1>5, <1>6, <2>1, OwnStart
    DEF CallInv, CallOK, SignerAt, OwnOK, HoldsProv, HoldsKey, HoldsSigner, Closing, ReturnsSigner, KeyOf, TypeOK
  <2>3. Held(c)' = Held(c) \union {h}
    BY <1>5, <1>6, <2>1 DEF Held, HoldsProv, HoldsKey, HoldsSigner, Closing, TypeOK
  <2>4. KeyInv'
    <3>1. \A d \in Callers :
             pc'[d] \in Making => d # c /\ pc[d] \in Making /\ KeyOf(d)' = KeyOf(d)
      BY <1>6, <2>1, KeysOfOthers DEF Making, TypeOK
    <3> QED
      BY <1>1, <2>1, <3>1 DEF KeyInv, storeVars, TypeOK
  <2> QED
    BY <1>3, <1>4, <1>6, <2>2, <2>3, <2>4, OpenStep DEF TypeOK
<1>7. CASE /\ \E r \in Results : res' = [res EXCEPT ![c] = r]
           /\ pc' = [pc EXCEPT ![c] = "freeProv"]
           /\ UNCHANGED <<hKey, object>>
  <2>1. OwnOK(c)'
    BY <1>5, <1>7, OwnStart
    DEF OwnOK, HoldsProv, HoldsKey, HoldsSigner, Closing, ReturnsSigner, TypeOK
  <2>2. Held(c)' = Held(c)
    BY <1>5, <1>7 DEF Held, HoldsProv, HoldsKey, HoldsSigner, Closing, TypeOK
  <2> QED
    BY <1>3, <1>4, <1>7, <2>1, <2>2, QuietStep DEF TypeOK, Making
<1> QED
  BY <1>6, <1>7 DEF Results

\* The handles of a c that is about to use or to free both of them.
LEMMA TwoHandles ==
  ASSUME IInv, NEW c \in Callers, pc[c] \in {"delete", "freeKey"}
  PROVE  /\ hProv[c] \in Handles /\ object[hProv[c]] = Provider
         /\ hKey[c] \in Handles /\ object[hKey[c]] \in Keys
         /\ hProv[c] # hKey[c]
         /\ Held(c) = {hProv[c], hKey[c]}
BY WindowsStoreAssumption, OwnStart
DEF OwnOK, Held, HoldsProv, HoldsKey, KeyOf

LEMMA DeleteKeyStep == ASSUME IInv, NEW c \in Callers, DeleteKey(c) PROVE IInv'
<1> USE WindowsStoreAssumption
    DEF IInv, DeleteKey, Delete, DeletePersisted, DeleteFails, At, Decide
<1>1. TypeOK'
  BY DEF TypeOK, Locations, Results, Free, callVars
<1>2. CallOK(c)'
  BY DEF CallInv, CallOK, SignerAt, TypeOK, Making, Deferred, callVars
<1>3. CASE /\ store' = [store EXCEPT ![name[c]] = NoKey]
           /\ Free(hKey[c])
           /\ pc' = [pc EXCEPT ![c] = "freeProv"]
  <2>1. object' = [object EXCEPT ![hKey[c]] = NoKey]
    BY <1>3 DEF Free
  <2>2. OwnOK(c)'
    BY <1>3, <2>1, OwnStart, TwoHandles
    DEF CallInv, CallOK, SignerAt, OwnOK, HoldsProv, HoldsKey, HoldsSigner, Closing, ReturnsSigner, TypeOK,
        callVars
  <2>3. Held(c)' = Held(c) \ {hKey[c]}
    BY <1>3, TwoHandles DEF Held, HoldsProv, HoldsKey, HoldsSigner, Closing, TypeOK, callVars
  <2>4. KeyInv'
    <3>1. \A d \in Callers :
             pc'[d] \in Making => d # c /\ pc[d] \in Making /\ KeyOf(d)' = KeyOf(d)
      <4>1. hKey[c] \in Held(c) /\ \A g \in Handles \ {hKey[c]} : object'[g] = object[g]
        BY <2>1, TwoHandles DEF TypeOK
      <4> QED
        BY <1>3, <4>1, KeysOfOthers DEF Making, TypeOK, callVars
    <3> QED
      BY <1>3, <2>1, <3>1 DEF KeyInv, TypeOK
  <2> QED
    BY <1>1, <1>2, <1>3, <2>2, <2>3, <2>4, TwoHandles, FreeStep DEF TypeOK, callVars
<1>4. CASE /\ pc' = [pc EXCEPT ![c] = "freeKey"]
           /\ res' = [res EXCEPT ![c] = "error"]
           /\ UNCHANGED <<store, object>>
  <2>1. OwnOK(c)'
    BY <1>4, OwnStart
    DEF CallInv, CallOK, SignerAt, OwnOK, HoldsProv, HoldsKey, HoldsSigner, Closing, ReturnsSigner, KeyOf,
        TypeOK, callVars
  <2>2. Held(c)' = Held(c)
    BY <1>4 DEF Held, HoldsProv, HoldsKey, HoldsSigner, Closing, TypeOK, callVars
  <2> QED
    BY <1>1, <1>2, <1>4, <2>1, <2>2, QuietStep
    DEF TypeOK, Making, storeVars, callVars
<1> QED
  BY <1>3, <1>4

LEMMA FreeKeyStep == ASSUME IInv, NEW c \in Callers, FreeKey(c) PROVE IInv'
<1> USE WindowsStoreAssumption DEF IInv, FreeKey, Free, At, Goto
<1>1. TypeOK'
  BY DEF TypeOK, Locations, callVars, storeVars
<1>2. CallOK(c)'
  BY DEF CallInv, CallOK, SignerAt, TypeOK, Making, Deferred, callVars
<1>3. OwnOK(c)'
  BY OwnStart, TwoHandles
  DEF CallInv, CallOK, SignerAt, OwnOK, HoldsProv, HoldsKey, HoldsSigner, Closing, ReturnsSigner, TypeOK,
      callVars
<1>4. Held(c)' = Held(c) \ {hKey[c]}
  BY TwoHandles DEF Held, HoldsProv, HoldsKey, HoldsSigner, Closing, TypeOK, callVars
<1>5. KeyInv'
  <2>1. \A d \in Callers :
           pc'[d] \in Making => d # c /\ pc[d] \in Making /\ KeyOf(d)' = KeyOf(d)
    <3>1. hKey[c] \in Held(c) /\ \A g \in Handles \ {hKey[c]} : object'[g] = object[g]
      BY TwoHandles DEF TypeOK
    <3> QED
      BY <3>1, KeysOfOthers DEF Making, TypeOK, callVars
  <2> QED
    BY <2>1 DEF KeyInv, TypeOK, storeVars
<1> QED
  BY <1>1, <1>2, <1>3, <1>4, <1>5, TwoHandles, FreeStep DEF TypeOK, callVars

LEMMA FreeProvStep == ASSUME IInv, NEW c \in Callers, FreeProv(c) PROVE IInv'
<1> USE WindowsStoreAssumption DEF IInv, FreeProv, Free, At, Goto
<1>1. TypeOK'
  BY DEF TypeOK, Locations, callVars, storeVars
<1>2. CallOK(c)'
  BY DEF CallInv, CallOK, SignerAt, TypeOK, Making, Deferred, callVars
<1>3. Held(c) = {hProv[c]}
  BY OwnStart DEF OwnOK, Held, HoldsProv, HoldsKey, HoldsSigner, Closing
<1>4. HoldsSigner(c)' = FALSE
  BY DEF CallInv, CallOK, HoldsSigner, ReturnsSigner, TypeOK, callVars
<1>5. OwnOK(c)'
  BY <1>4, OwnStart
  DEF CallInv, CallOK, SignerAt, OwnOK, HoldsProv, HoldsKey, HoldsSigner, Closing, TypeOK, callVars
<1>6. Held(c)' = Held(c) \ {hProv[c]}
  BY <1>3, <1>4 DEF Held, HoldsProv, HoldsKey, Closing, TypeOK, callVars
<1>7. KeyInv'
  <2>1. \A d \in Callers :
           pc'[d] \in Making => d # c /\ pc[d] \in Making /\ KeyOf(d)' = KeyOf(d)
    BY <1>3, KeysOfOthers DEF Making, TypeOK, callVars
  <2> QED
    BY <2>1 DEF KeyInv, TypeOK, storeVars
<1> QED
  BY <1>1, <1>2, <1>3, <1>5, <1>6, <1>7, FreeStep DEF TypeOK, callVars

\* What a Close finds: a handle that is 0 or its own.
LEMMA ClosingHandles ==
  ASSUME IInv, NEW c \in Callers, pc[c] \in {"closeKey", "closeProv"}
  PROVE  /\ hProv[c] # Zero => hProv[c] \in Handles /\ object[hProv[c]] = Provider
         /\ hKey[c] # Zero => /\ hKey[c] \in Handles /\ object[hKey[c]] \in Keys
                             /\ hProv[c] # Zero /\ hProv[c] # hKey[c]
         /\ Held(c) = {hProv[c], hKey[c]} \ {Zero}
<1>1. /\ HoldsKey(c) <=> hKey[c] # Zero
      /\ HoldsProv(c) <=> hKey[c] # Zero \/ hProv[c] # Zero
  BY DEF HoldsKey, HoldsProv, HoldsSigner, Closing, At
<1> QED
  BY <1>1, WindowsStoreAssumption, OwnStart DEF OwnOK, Held, KeyOf

LEMMA CloseKeyStep == ASSUME IInv, NEW c \in Callers, CloseKey(c) PROVE IInv'
<1> USE WindowsStoreAssumption DEF IInv, CloseKey, FreeUnlessZero, Free, At, Goto
<1>1. TypeOK'
  BY DEF TypeOK, Locations, storeVars
<1>2. CallOK(c)'
  BY DEF CallInv, CallOK, SignerAt, TypeOK, Making, Deferred
<1>3. /\ ~HoldsSigner(c)' /\ ~HoldsKey(c)'
      /\ HoldsProv(c)' <=> hProv[c] # Zero
  BY DEF HoldsSigner, HoldsKey, HoldsProv, Closing, TypeOK
<1>4. OwnOK(c)'
  BY <1>3, ClosingHandles DEF OwnOK, TypeOK
<1>5. Held(c)' = Held(c) \ {hKey[c]}
  BY <1>3, ClosingHandles DEF Held
<1>6. CASE hKey[c] = Zero
  <2>1. Held(c)' = Held(c)
    BY <1>5, <1>6, ClosingHandles
  <2> QED
    BY <1>1, <1>2, <1>4, <1>6, <2>1, QuietStep DEF TypeOK, Making, storeVars
<1>7. CASE hKey[c] # Zero
  <2>1. hKey[c] \in Held(c) /\ \A g \in Handles \ {hKey[c]} : object'[g] = object[g]
    BY <1>7, ClosingHandles DEF TypeOK
  <2>2. \A d \in Callers :
           pc'[d] \in Making => d # c /\ pc[d] \in Making /\ KeyOf(d)' = KeyOf(d)
    BY <2>1, KeysOfOthers DEF Making, TypeOK
  <2>3. KeyInv'
    BY <1>7, <2>2 DEF KeyInv, TypeOK, storeVars
  <2> QED
    BY <1>1, <1>2, <1>4, <1>5, <1>7, <2>1, <2>3, FreeStep DEF TypeOK
<1> QED
  BY <1>6, <1>7

LEMMA CloseProvStep == ASSUME IInv, NEW c \in Callers, CloseProv(c) PROVE IInv'
<1> USE WindowsStoreAssumption DEF IInv, CloseProv, FreeUnlessZero, Free, At, Goto
<1>1. TypeOK'
  BY DEF TypeOK, Locations, storeVars
<1>2. CallOK(c)'
  BY DEF CallInv, CallOK, SignerAt, TypeOK, Making, Deferred
<1>3. hKey[c] = Zero
  BY DEF CallInv, CallOK
<1>4. ~HoldsSigner(c)' /\ ~HoldsKey(c)' /\ ~HoldsProv(c)'
  BY <1>3 DEF HoldsSigner, HoldsKey, HoldsProv, Closing, TypeOK
<1>5. OwnOK(c)'
  BY <1>3, <1>4 DEF OwnOK, TypeOK
<1>6. Held(c)' = Held(c) \ {hProv[c]}
  BY <1>3, <1>4, ClosingHandles DEF Held
<1>7. CASE hProv[c] = Zero
  <2>1. Held(c)' = Held(c)
    BY <1>6, <1>7, ClosingHandles
  <2> QED
    BY <1>1, <1>2, <1>5, <1>7, <2>1, QuietStep DEF TypeOK, Making, storeVars
<1>8. CASE hProv[c] # Zero
  <2>1. hProv[c] \in Held(c) /\ \A g \in Handles \ {hProv[c]} : object'[g] = object[g]
    BY <1>8, ClosingHandles DEF TypeOK
  <2>2. \A d \in Callers :
           pc'[d] \in Making => d # c /\ pc[d] \in Making /\ KeyOf(d)' = KeyOf(d)
    BY <2>1, KeysOfOthers DEF Making, TypeOK
  <2>3. KeyInv'
    BY <1>8, <2>2 DEF KeyInv, TypeOK, storeVars
  <2> QED
    BY <1>1, <1>2, <1>5, <1>6, <1>8, <2>1, <2>3, FreeStep DEF TypeOK
<1> QED
  BY <1>7, <1>8

LEMMA NextIInv == IInv /\ [Next]_vars => IInv'
<1> SUFFICES ASSUME IInv, [Next]_vars PROVE IInv'
  OBVIOUS
<1>1. CASE UNCHANGED vars
  BY <1>1
  DEF vars, callVars, storeVars, IInv, TypeOK, CallInv, CallOK, KeyInv, HandlesAreOwn,
      NoHandleLeaks, Held, HoldsProv, HoldsKey, HoldsSigner, Closing, ReturnsSigner, KeyOf, At
<1> QED
  BY <1>1, CallFunctionStep, OpenProviderStep, CreatePersistedKeyStep, SetPropertyStep,
     FinalizeKeyStep, ExportPublicKeyStep, OpenKeyStep, DeleteKeyStep, FreeKeyStep,
     FreeProvStep, ReturnSignerStep, ReturnNoSignerStep, BeginSignStep, EndSignStep,
     CloseSignerStep, CloseKeyStep, CloseProvStep, DropSignerStep
  DEF Next

LEMMA Inductive == Spec => []IInv
<1>1. Init => IInv
  BY InitIInv
<1>2. IInv /\ [Next]_vars => IInv'
  BY NextIInv
<1> QED
  BY <1>1, <1>2, PTL DEF Spec

-----------------------------------------------------------------------------
(***************************************************************************)
(* Theorems                                                                *)
(***************************************************************************)

\* Every variable of WindowsStore keeps its type, whatever fails.
THEOREM TypeCorrect == Spec => []TypeOK
<1>1. IInv => TypeOK
  BY DEF IInv
<1> QED
  BY <1>1, Inductive, PTL

\* createKey, loadKey, deleteKey and the signer use and free only handles of
\* their own that are open, and a signer signs with the key it shows.
THEOREM NoForeignHandles == Spec => []HandlesAreOwn
<1>1. IInv => HandlesAreOwn
  BY DEF IInv
<1> QED
  BY <1>1, Inductive, PTL

\* Every path through createKey, loadKey and deleteKey frees what it opened or
\* hands it to the signer, whose Close frees it.
THEOREM NoLeaks == Spec => []NoHandleLeaks
<1>1. IInv => NoHandleLeaks
  BY DEF IInv
<1> QED
  BY <1>1, Inductive, PTL

-----------------------------------------------------------------------------
(***************************************************************************)
(* WindowsStore implements KeyStore.                                       *)
(***************************************************************************)

\* The parts of c's state that KeyStore's variables are made of.
Shown(c) == <<pc[c], op[c], name[c], pub[c], res[c]>>

LEMMA AtomicInit == Init => Atomic!Init
BY DEF Init, Atomic!Init, Got, Res, At

LEMMA DifferAtOne ==
  ASSUME NEW S, NEW F, NEW G, NEW c \in S,
         F = [x \in S |-> F[x]], G = [x \in S |-> G[x]],
         \A d \in S \ {c} : F[d] = G[d]
  PROVE  F = [G EXCEPT ![c] = F[c]] /\ (F[c] = G[c] => F = G)
<1>1. \A d \in S : F[d] = [G EXCEPT ![c] = F[c]][d]
  OBVIOUS
<1>2. F[c] = G[c] => \A d \in S : F[d] = G[d]
  OBVIOUS
<1> QED
  BY <1>1, <1>2

\* A step of c changes what KeyStore sees of c alone.
LEMMA OthersStay ==
  ASSUME IInv, NEW c \in Callers,
         \A d \in Callers \ {c} : Shown(d)' = Shown(d),
         \A d \in Callers \ {c} : pc[d] = "export" => KeyOf(d)' = KeyOf(d)
  PROVE  /\ Got' = [Got EXCEPT ![c] = Got'[c]] /\ Res' = [Res EXCEPT ![c] = Res'[c]]
         /\ (Got'[c] = Got[c] => Got' = Got) /\ (Res'[c] = Res[c] => Res' = Res)
<1>1. \A d \in Callers \ {c} :
         pc'[d] = pc[d] /\ op'[d] = op[d] /\ pub'[d] = pub[d] /\ res'[d] = res[d]
  BY DEF Shown
<1>2. \A d \in Callers \ {c} : Got'[d] = Got[d] /\ Res'[d] = Res[d]
  BY <1>1 DEF Got, Res, ReturnsSigner, At
<1>3. /\ Got = [x \in Callers |-> Got[x]] /\ Got' = [x \in Callers |-> Got'[x]]
      /\ Res = [x \in Callers |-> Res[x]] /\ Res' = [x \in Callers |-> Res'[x]]
  BY DEF Got, Res
<1>4. Got' = [Got EXCEPT ![c] = Got'[c]] /\ (Got'[c] = Got[c] => Got' = Got)
  BY <1>2, <1>3, DifferAtOne
<1>5. Res' = [Res EXCEPT ![c] = Res'[c]] /\ (Res'[c] = Res[c] => Res' = Res)
  BY <1>2, <1>3, DifferAtOne
<1> QED
  BY <1>4, <1>5

\* Opening and freeing handles of c leaves the keys of the others alone.
LEMMA ExportKeysStay ==
  ASSUME IInv, NEW c \in Callers, NEW h \in Held(c) \union Unused,
         \A g \in Handles \ {h} : object'[g] = object[g],
         \A d \in Callers \ {c} : hKey'[d] = hKey[d]
  PROVE  \A d \in Callers \ {c} : pc[d] = "export" => KeyOf(d)' = KeyOf(d)
<1> SUFFICES ASSUME NEW d \in Callers \ {c}, pc[d] = "export"
             PROVE  hKey[d] \in Handles \ {h}
  BY DEF KeyOf
<1>1. hKey[d] \in Held(d)
  BY OwnStart DEF OwnOK, Held, HoldsKey
<1>2. Held(c) \intersect Held(d) = {}
  BY DEF IInv, HandlesAreOwn
<1> QED
  BY <1>1, <1>2, HeldInUse DEF Unused

\* What KeyStore sees of a call that has not been decided.
LEMMA Pending ==
  ASSUME IInv, NEW c \in Callers,
         pc[c] \notin Deferred \union SignerAt \union {"idle", "export"}
  PROVE  /\ op[c] \in Atomic!Ops /\ name[c] \in Names
         /\ Got[c] = NoKey /\ Res[c] = "none" /\ res[c] = "none"
BY DEF IInv, TypeOK, CallInv, CallOK, SignerAt, Deferred, Got, Res, At, Atomic!Ops

\* It goes on without a result, or gets one that is not "ok".
LEMMA AtomicGoOn ==
  ASSUME IInv, NEW c \in Callers,
         pc[c] \notin Deferred \union SignerAt \union {"idle", "export"},
         pc'[c] \notin Deferred \union SignerAt \union {"idle", "export"},
         UNCHANGED <<op, name, res[c], store, persisted>>,
         \A d \in Callers \ {c} : Shown(d)' = Shown(d),
         \A d \in Callers \ {c} : pc[d] = "export" => KeyOf(d)' = KeyOf(d)
  PROVE  UNCHANGED Atomic!vars
<1>1. Got'[c] = Got[c] /\ Res'[c] = Res[c]
  BY Pending DEF Got, Res, At, SignerAt, Deferred
<1> QED
  BY <1>1, OthersStay DEF Atomic!vars

LEMMA AtomicRefuse ==
  ASSUME IInv, NEW c \in Callers, NEW r \in {"exists", "notfound", "error"},
         pc[c] \notin Deferred \union SignerAt \union {"idle", "export"},
         pc'[c] \in Deferred, res'[c] = r,
         UNCHANGED <<op, name, store, persisted>>,
         r = "exists" => op[c] = "create" /\ store[name[c]] # NoKey,
         r = "notfound" => op[c] \in {"load", "delete"} /\ store[name[c]] = NoKey,
         \A d \in Callers \ {c} : Shown(d)' = Shown(d),
         \A d \in Callers \ {c} : pc[d] = "export" => KeyOf(d)' = KeyOf(d)
  PROVE  Atomic!Next
<1>1. Got'[c] = NoKey /\ Res'[c] = r
  BY Pending DEF Got, Res, ReturnsSigner, At, Deferred, Atomic!Ops
<1>2. UNCHANGED Got /\ Got = [Got EXCEPT ![c] = NoKey]
      /\ Res' = [Res EXCEPT ![c] = r]
  BY <1>1, Pending, OthersStay
<1>3. CASE r = "exists"
  BY <1>2, <1>3, Pending
  DEF Atomic!Next, Atomic!Exists, Atomic!Pending, Atomic!Decide
<1>4. CASE r = "notfound"
  BY <1>2, <1>4, Pending
  DEF Atomic!Next, Atomic!NotFound, Atomic!Pending, Atomic!Decide
<1>5. CASE r = "error"
  BY <1>2, <1>5, Pending
  DEF Atomic!Next, Atomic!Fail, Atomic!Pending, Atomic!Decide
<1> QED
  BY <1>3, <1>4, <1>5

LEMMA AtomicCall ==
  ASSUME IInv, NEW c \in Callers, CallFunction(c)
  PROVE  Atomic!Next
<1> USE DEF IInv, TypeOK, CallFunction, Call, At, Goto, storeVars
<1>1. PICK o \in Atomic!Ops, n \in Names :
         op' = [op EXCEPT ![c] = o] /\ name' = [name EXCEPT ![c] = n]
  BY DEF Atomic!Ops
<1>2. op[c] = "none" /\ Got[c] = NoKey /\ Res[c] = "none"
  BY DEF CallInv, CallOK, Got, Res, ReturnsSigner, Deferred
<1>3. Got'[c] = NoKey /\ Res'[c] = "none"
  BY <1>1 DEF CallInv, CallOK, Got, Res, ReturnsSigner, Deferred, Atomic!Ops
<1>4. \A d \in Callers \ {c} :
         Shown(d)' = Shown(d) /\ (pc[d] = "export" => KeyOf(d)' = KeyOf(d))
  BY DEF Shown, KeyOf
<1>5. UNCHANGED <<store, persisted, Got, Res>>
  BY <1>2, <1>3, <1>4, OthersStay
<1> QED
  BY <1>1, <1>2, <1>5 DEF Atomic!Next, Atomic!Call, Atomic!Invoke

LEMMA AtomicOpenProvider ==
  ASSUME IInv, NEW c \in Callers, OpenProvider(c)
  PROVE  Atomic!Next \/ UNCHANGED Atomic!vars
<1> USE DEF IInv, TypeOK, OpenProvider, At, Goto, Decide, SignerAt, Deferred, storeVars
<1>1. \A d \in Callers \ {c} :
         Shown(d)' = Shown(d) /\ (pc[d] = "export" => KeyOf(d)' = KeyOf(d))
  <2>1. \A d \in Callers \ {c} : Shown(d)' = Shown(d)
    BY DEF Shown
  <2>2. CASE object' = object
    BY <2>1, <2>2 DEF KeyOf
  <2>3. ASSUME NEW h \in Unused, Open(h, Provider)
        PROVE  \A d \in Callers \ {c} : pc[d] = "export" => KeyOf(d)' = KeyOf(d)
    <3>1. \A g \in Handles \ {h} : object'[g] = object[g]
      BY <2>3 DEF Open
    <3> QED
      BY <3>1, ExportKeysStay
  <2> QED
    BY <2>1, <2>2, <2>3
<1>2. CASE pc' = [pc EXCEPT ![c] = "done"] /\ res' = [res EXCEPT ![c] = "error"]
  BY <1>1, <1>2, AtomicRefuse
<1>3. CASE /\ pc' = [pc EXCEPT ![c] = IF op[c] = "create" THEN "createPersisted"
                                                          ELSE "openKey"]
           /\ UNCHANGED res
  BY <1>1, <1>3, AtomicGoOn
<1> QED
  BY <1>2, <1>3

LEMMA AtomicCreatePersistedKey ==
  ASSUME IInv, NEW c \in Callers, CreatePersistedKey(c)
  PROVE  Atomic!Next \/ UNCHANGED Atomic!vars
<1> USE DEF IInv, TypeOK, CreatePersistedKey, At, Goto, Decide, SignerAt, Deferred
<1>1. \A d \in Callers \ {c} : Shown(d)' = Shown(d)
  BY DEF Shown
<1>2. CASE object' = object
  <2>1. \A d \in Callers \ {c} : pc[d] = "export" => KeyOf(d)' = KeyOf(d)
    BY <1>2, CreatePersistedKeyStep DEF KeyOf
  <2>2. op[c] = "create"
    BY DEF CallInv, CallOK, Making
  <2>3. CASE store[name[c]] # NoKey /\ pc' = [pc EXCEPT ![c] = "freeProv"]
             /\ res' = [res EXCEPT ![c] = "exists"]
    BY <1>1, <2>1, <2>2, <2>3, AtomicRefuse
  <2>4. CASE pc' = [pc EXCEPT ![c] = "freeProv"] /\ res' = [res EXCEPT ![c] = "error"]
    BY <1>1, <2>1, <2>4, AtomicRefuse
  <2>5. CASE pc' = [pc EXCEPT ![c] = "setProperty"] /\ UNCHANGED res
    BY <1>1, <2>1, <2>5, AtomicGoOn
  <2> QED
    BY <2>3, <2>4, <2>5
<1>3. ASSUME NEW h \in Unused, NEW k \in Keys \ made, Open(h, k),
             hKey' = [hKey EXCEPT ![c] = h], pc' = [pc EXCEPT ![c] = "setProperty"],
             UNCHANGED res
      PROVE  UNCHANGED Atomic!vars
  <2>1. \A g \in Handles \ {h} : object'[g] = object[g]
    BY <1>3 DEF Open
  <2>2. \A d \in Callers \ {c} : pc[d] = "export" => KeyOf(d)' = KeyOf(d)
    BY <1>3, <2>1, ExportKeysStay
  <2> QED
    BY <1>1, <1>3, <2>2, AtomicGoOn
<1> QED
  BY <1>2, <1>3

LEMMA AtomicSetProperty ==
  ASSUME IInv, NEW c \in Callers, SetProperty(c)
  PROVE  Atomic!Next \/ UNCHANGED Atomic!vars
<1> USE DEF IInv, TypeOK, SetProperty, FinalizeFails, At, Goto, Decide, SignerAt, Deferred,
            callVars, storeVars
<1>1. \A d \in Callers \ {c} :
         Shown(d)' = Shown(d) /\ (pc[d] = "export" => KeyOf(d)' = KeyOf(d))
  BY DEF Shown, KeyOf
<1>2. CASE pc' = [pc EXCEPT ![c] = "freeKey"] /\ res' = [res EXCEPT ![c] = "error"]
  BY <1>1, <1>2, AtomicRefuse
<1>3. CASE pc' = [pc EXCEPT ![c] = "finalize"] /\ UNCHANGED res
  BY <1>1, <1>3, AtomicGoOn
<1> QED
  BY <1>2, <1>3

LEMMA AtomicFinalizeKey ==
  ASSUME IInv, NEW c \in Callers, FinalizeKey(c)
  PROVE  Atomic!Next
<1> USE DEF IInv, TypeOK, FinalizeKey, FinalizeFails, At, Goto, Decide, SignerAt, Deferred, callVars
<1>1. \A d \in Callers \ {c} :
         Shown(d)' = Shown(d) /\ (pc[d] = "export" => KeyOf(d)' = KeyOf(d))
  BY DEF Shown, KeyOf
<1>2. op[c] = "create"
  BY DEF CallInv, CallOK, Making
<1>3. CASE store[name[c]] # NoKey /\ pc' = [pc EXCEPT ![c] = "freeKey"]
           /\ res' = [res EXCEPT ![c] = "exists"] /\ UNCHANGED <<store, persisted>>
  BY <1>1, <1>2, <1>3, AtomicRefuse
<1>4. CASE pc' = [pc EXCEPT ![c] = "freeKey"] /\ res' = [res EXCEPT ![c] = "error"]
           /\ UNCHANGED <<store, persisted>>
  BY <1>1, <1>4, AtomicRefuse
<1>5. CASE /\ store[name[c]] = NoKey
           /\ store' = [store EXCEPT ![name[c]] = KeyOf(c)]
           /\ persisted' = persisted \union {KeyOf(c)}
           /\ pc' = [pc EXCEPT ![c] = "export"]
           /\ UNCHANGED res
  <2>1. KeyOf(c) \in Keys \ persisted
    BY OwnStart DEF KeyInv, Making, OwnOK, HoldsKey
  <2>2. /\ Got'[c] = KeyOf(c) /\ Res'[c] = "ok"
    BY <1>2, <1>5, Pending DEF Got, Res, KeyOf
  <2>3. /\ Got' = [Got EXCEPT ![c] = KeyOf(c)]
        /\ Res' = [Res EXCEPT ![c] = "ok"]
    BY <1>1, <2>2, OthersStay
  <2> QED
    BY <1>2, <1>5, <2>1, <2>3, Pending
    DEF Atomic!Next, Atomic!Bind, Atomic!BindKey, Atomic!Pending, Atomic!Decide
<1> QED
  BY <1>3, <1>4, <1>5

LEMMA AtomicExport ==
  ASSUME IInv, NEW c \in Callers, ExportPublicKey(c)
  PROVE  Atomic!Next \/ UNCHANGED Atomic!vars
<1> USE DEF IInv, TypeOK, ExportPublicKey, At, Decide, storeVars
<1>1. \A d \in Callers \ {c} :
         Shown(d)' = Shown(d) /\ (pc[d] = "export" => KeyOf(d)' = KeyOf(d))
  BY DEF Shown, KeyOf
<1>2. op[c] \in {"create", "load"} /\ res[c] = "none" /\ KeyOf(c) \in Keys
  BY OwnStart DEF CallInv, CallOK, Deferred, OwnOK, HoldsKey
<1>3. /\ Got[c] = KeyOf(c)
      /\ Res[c] = IF op[c] = "create" THEN "ok" ELSE "none"
  BY <1>2 DEF Got, Res
<1>4. CASE pc' = [pc EXCEPT ![c] = "done"] /\ res' = [res EXCEPT ![c] = "ok"]
           /\ pub' = [pub EXCEPT ![c] = KeyOf(c)]
  <2>1. Got'[c] = Got[c] /\ Res'[c] = "ok"
    BY <1>2, <1>3, <1>4 DEF Got, Res, ReturnsSigner
  <2>2. UNCHANGED Got /\ Res' = [Res EXCEPT ![c] = "ok"]
    BY <1>1, <2>1, OthersStay
  <2>3. CASE op[c] = "create"
    BY <1>1, <1>3, <2>1, <2>2, <2>3, OthersStay DEF Atomic!vars
  <2>4. CASE op[c] = "load"
    BY <1>2, <1>3, <2>2, <2>4, WindowsStoreAssumption
    DEF Atomic!Next, Atomic!Loaded, Atomic!Pending, Atomic!Decide
  <2> QED
    BY <1>2, <2>3, <2>4
<1>5. CASE pc' = [pc EXCEPT ![c] = "freeKey"] /\ res' = [res EXCEPT ![c] = "error"]
  <2>1. Got'[c] = NoKey /\ Res'[c] = "error"
    BY <1>3, <1>5 DEF Got, Res, ReturnsSigner
  <2>2. Got' = [Got EXCEPT ![c] = NoKey]
        /\ Res' = [Res EXCEPT ![c] = "error"]
    BY <1>1, <2>1, OthersStay
  <2>3. CASE op[c] = "load"
    BY <1>3, <2>2, <2>3
    DEF Atomic!Next, Atomic!Fail, Atomic!Pending, Atomic!Decide, Atomic!Ops
  <2>4. CASE op[c] = "create"
    BY <1>3, <2>2, <2>4 DEF Atomic!Next, Atomic!Orphan, Atomic!Decide
  <2> QED
    BY <1>2, <2>3, <2>4
<1> QED
  BY <1>4, <1>5

LEMMA AtomicOpenKey ==
  ASSUME IInv, NEW c \in Callers, OpenKey(c)
  PROVE  Atomic!Next \/ UNCHANGED Atomic!vars
<1> USE DEF IInv, TypeOK, OpenKey, At, Goto, Decide, SignerAt, Deferred, storeVars
<1>1. \A d \in Callers \ {c} : Shown(d)' = Shown(d)
  BY DEF Shown
<1>2. op[c] \in {"load", "delete"} /\ name[c] \in Names
  BY DEF CallInv, CallOK
<1>3. CASE object' = object /\ UNCHANGED hKey
  <2>1. \A d \in Callers \ {c} : pc[d] = "export" => KeyOf(d)' = KeyOf(d)
    BY <1>3 DEF KeyOf
  <2>2. CASE store[name[c]] = NoKey /\ pc' = [pc EXCEPT ![c] = "freeProv"]
             /\ res' = [res EXCEPT ![c] = "notfound"]
    BY <1>1, <1>2, <2>1, <2>2, AtomicRefuse
  <2>3. CASE pc' = [pc EXCEPT ![c] = "freeProv"] /\ res' = [res EXCEPT ![c] = "error"]
    BY <1>1, <2>1, <2>3, AtomicRefuse
  <2>4. ~(\E h \in Unused : Open(h, store[name[c]])) \/ store[name[c]] = NoKey
    BY <1>3, WindowsStoreAssumption DEF Unused, Open
  <2> QED
    BY <2>2, <2>3, <2>4
<1>4. ASSUME NEW h \in Unused, Open(h, store[name[c]]), store[name[c]] # NoKey,
             hKey' = [hKey EXCEPT ![c] = h], UNCHANGED res,
             pc' = [pc EXCEPT ![c] = IF op[c] = "load" THEN "export" ELSE "delete"]
      PROVE  Atomic!Next \/ UNCHANGED Atomic!vars
  <2>1. h \in Handles /\ \A g \in Handles \ {h} : object'[g] = object[g]
    BY <1>4 DEF Open, Unused
  <2>2. \A d \in Callers \ {c} : pc[d] = "export" => KeyOf(d)' = KeyOf(d)
    BY <1>4, <2>1, ExportKeysStay
  <2>3. CASE op[c] = "load"
    <3>1. KeyOf(c)' = store[name[c]]
      BY <1>4, <2>1 DEF KeyOf, Open
    <3>2. /\ Res'[c] = Res[c]
          /\ Got'[c] = store[name[c]]
      BY <1>4, <2>3, <3>1, Pending DEF Got, Res
    <3>3. UNCHANGED Res /\ Got' = [Got EXCEPT ![c] = store[name[c]]]
      BY <1>1, <2>2, <3>2, OthersStay
    <3> QED
      BY <1>4, <2>3, <3>3, Pending DEF Atomic!Next, Atomic!LookUp, Atomic!Pending
  <2>4. CASE op[c] = "delete"
    BY <1>1, <1>4, <2>2, <2>4, AtomicGoOn
  <2> QED
    BY <1>2, <2>3, <2>4
<1> QED
  BY <1>3, <1>4

LEMMA AtomicDeleteKey ==
  ASSUME IInv, NEW c \in Callers, DeleteKey(c)
  PROVE  Atomic!Next
<1> USE DEF IInv, TypeOK, DeleteKey, Delete, DeletePersisted, DeleteFails, At, Decide,
            SignerAt, Deferred, callVars
<1>1. \A d \in Callers \ {c} : Shown(d)' = Shown(d)
  BY DEF Shown
<1>2. op[c] = "delete"
  BY DEF CallInv, CallOK
<1>3. CASE store[name[c]] = KeyOf(c) /\ store' = [store EXCEPT ![name[c]] = NoKey]
           /\ Free(hKey[c]) /\ pc' = [pc EXCEPT ![c] = "freeProv"]
           /\ res' = [res EXCEPT ![c] = "ok"]
  <2>1. \A d \in Callers \ {c} : pc[d] = "export" => KeyOf(d)' = KeyOf(d)
    <3>1. hKey[c] \in Held(c) /\ \A g \in Handles \ {hKey[c]} : object'[g] = object[g]
      BY <1>3, TwoHandles DEF Free
    <3> QED
      BY <3>1, ExportKeysStay
  <2>2. KeyOf(c) # NoKey
    BY TwoHandles, WindowsStoreAssumption DEF KeyOf
  <2>3. Got'[c] = Got[c] /\ Res'[c] = "ok"
    BY <1>2, <1>3, Pending DEF Got, Res, ReturnsSigner
  <2>4. UNCHANGED Got /\ Res' = [Res EXCEPT ![c] = "ok"]
    BY <1>1, <2>1, <2>3, OthersStay
  <2> QED
    BY <1>2, <1>3, <2>2, <2>4, Pending
    DEF Atomic!Next, Atomic!Unbind, Atomic!Pending, Atomic!Decide
<1>4. CASE pc' = [pc EXCEPT ![c] = "freeKey"] /\ res' = [res EXCEPT ![c] = "error"]
           /\ UNCHANGED <<store, object>>
  <2>1. \A d \in Callers \ {c} : pc[d] = "export" => KeyOf(d)' = KeyOf(d)
    BY <1>4 DEF KeyOf
  <2> QED
    BY <1>1, <1>4, <2>1, AtomicRefuse
<1> QED
  BY <1>3, <1>4

\* The deferred frees come after the call has been decided and change nothing
\* that KeyStore sees.
LEMMA AtomicFree ==
  ASSUME IInv, NEW c \in Callers, FreeKey(c) \/ FreeProv(c)
  PROVE  UNCHANGED Atomic!vars
<1> USE DEF IInv, TypeOK, FreeKey, FreeProv, Free, At, Goto, SignerAt, Deferred, callVars, storeVars
<1>1. \A d \in Callers \ {c} : Shown(d)' = Shown(d)
  BY DEF Shown
<1>2. PICK h \in Held(c) : \A g \in Handles \ {h} : object'[g] = object[g]
  BY OwnStart, TwoHandles DEF OwnOK, Held, HoldsProv
<1>3. \A d \in Callers \ {c} : pc[d] = "export" => KeyOf(d)' = KeyOf(d)
  BY <1>2, ExportKeysStay
<1>4. Got'[c] = Got[c] /\ Res'[c] = Res[c]
  BY DEF CallInv, CallOK, Got, Res, ReturnsSigner
<1> QED
  BY <1>1, <1>3, <1>4, OthersStay DEF Atomic!vars

LEMMA AtomicReturn ==
  ASSUME IInv, NEW c \in Callers, ReturnSigner(c) \/ ReturnNoSigner(c)
  PROVE  Atomic!Next
<1> USE DEF IInv, TypeOK, ReturnSigner, ReturnNoSigner, Leave, At, SignerAt, Deferred, storeVars
<1>1. \A d \in Callers \ {c} :
         Shown(d)' = Shown(d) /\ (pc[d] = "export" => KeyOf(d)' = KeyOf(d))
  BY DEF Shown, KeyOf
<1>2. Got'[c] = NoKey /\ Res'[c] = "none"
  BY DEF Got, Res, ReturnsSigner
<1>3. Got' = [Got EXCEPT ![c] = NoKey] /\ Res' = [Res EXCEPT ![c] = "none"]
  BY <1>1, <1>2, OthersStay
<1>4. op[c] # "none"
  BY DEF CallInv, CallOK, SignerAt
<1> QED
  BY <1>3, <1>4 DEF Atomic!Next, Atomic!Leave

\* The signer's steps are none of KeyStore's business.
LEMMA AtomicSigner ==
  ASSUME IInv, NEW c \in Callers,
         BeginSign(c) \/ EndSign(c) \/ CloseSigner(c) \/ DropSigner(c)
  PROVE  UNCHANGED Atomic!vars
<1> USE DEF IInv, TypeOK, BeginSign, EndSign, CloseSigner, CallClose, DropSigner,
            At, Goto, callVars, storeVars
<1>1. \A d \in Callers \ {c} :
         Shown(d)' = Shown(d) /\ (pc[d] = "export" => KeyOf(d)' = KeyOf(d))
  BY DEF Shown, KeyOf
<1>2. pc[c] \in {"done", "export"} => pc' = pc /\ pub' = pub
  OBVIOUS
<1>3. Got'[c] = Got[c] /\ Res'[c] = Res[c]
  BY <1>2 DEF CallInv, CallOK, SignerAt, Deferred, Got, Res, ReturnsSigner, KeyOf
<1> QED
  BY <1>1, <1>3, OthersStay DEF Atomic!vars

LEMMA AtomicClose ==
  ASSUME IInv, NEW c \in Callers, CloseKey(c) \/ CloseProv(c)
  PROVE  UNCHANGED Atomic!vars
<1> USE DEF IInv, TypeOK, CloseKey, CloseProv, FreeUnlessZero, Free, At, Goto, storeVars
<1>1. \A d \in Callers \ {c} : Shown(d)' = Shown(d)
  BY DEF Shown
<1>2. CASE object' = object
  <2>1. \A d \in Callers \ {c} : pc[d] = "export" => KeyOf(d)' = KeyOf(d)
    BY <1>2 DEF KeyOf
  <2>2. Got'[c] = Got[c] /\ Res'[c] = Res[c]
    BY DEF Got, Res
  <2> QED
    BY <1>1, <2>1, <2>2, OthersStay DEF Atomic!vars
<1>3. CASE object' # object
  <2>1. PICK h \in {hKey[c], hProv[c]} :
           h # Zero /\ object' = [object EXCEPT ![h] = NoKey]
    BY <1>3
  <2>2. h \in Held(c) /\ \A g \in Handles \ {h} : object'[g] = object[g]
    BY <2>1, ClosingHandles
  <2>3. \A d \in Callers \ {c} : pc[d] = "export" => KeyOf(d)' = KeyOf(d)
    BY <2>2, ExportKeysStay
  <2>4. Got'[c] = Got[c] /\ Res'[c] = Res[c]
    BY DEF Got, Res
  <2> QED
    BY <1>1, <2>3, <2>4, OthersStay DEF Atomic!vars
<1> QED
  BY <1>2, <1>3

LEMMA AtomicNext == IInv /\ [Next]_vars => [Atomic!Next]_(Atomic!vars)
<1> SUFFICES ASSUME IInv, [Next]_vars PROVE Atomic!Next \/ UNCHANGED Atomic!vars
  OBVIOUS
<1>1. CASE UNCHANGED vars
  BY <1>1
  DEF vars, callVars, storeVars, Atomic!vars, Got, Res,
      ReturnsSigner, KeyOf, At
<1> QED
  BY <1>1, AtomicCall, AtomicOpenProvider, AtomicCreatePersistedKey, AtomicSetProperty,
     AtomicFinalizeKey, AtomicExport, AtomicOpenKey, AtomicDeleteKey, AtomicFree,
     AtomicReturn, AtomicSigner, AtomicClose
  DEF Next

\* The Windows backend keeps the promises of KeyStore, whatever fails and for any
\* number of callers: a create binds a name that is free, at most once, and a load
\* returns the key bound to its name, although each is several calls to CNG.
THEOREM Refinement == Spec => ImplementsKeyStore
<1>1. Init => Atomic!Init
  BY AtomicInit
<1>2. IInv /\ [Next]_vars => [Atomic!Next]_(Atomic!vars)
  BY AtomicNext
<1> QED
  BY <1>1, <1>2, Inductive, PTL DEF Spec, ImplementsKeyStore, Atomic!Spec

=============================================================================
