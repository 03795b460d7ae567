--------------------------- MODULE CommandsProofs ---------------------------
(***************************************************************************)
(* Proofs about Commands, for any number of processes, names, uuids, keys  *)
(* and rounds of the timing loop, whatever fails.                          *)
(***************************************************************************)
EXTENDS Commands, TLAPS

(***************************************************************************)
(* The inductive invariant.  CommandInv says what each command knows where *)
(* it is; NameInv, that a name which has not been printed is the name of   *)
(* one command at most, and that certtest's is one of these until it has   *)
(* ended well; KeyInv, that what certtest found out about its key is still *)
(* so; EffectInv, that the key a command has bound or unbound is under its *)
(* name or was unbound; StoreInv, that a key is under one name at most,    *)
(* and under none once it was unbound.                                     *)
(***************************************************************************)
StoreType ==
  /\ store \in [Names -> Keys \union {NoKey}]
  /\ issued \subseteq Keys
  /\ op \in [Procs -> {"none", "create", "delete"}]
  /\ name \in [Procs -> Names \union {NoName}]
  /\ got \in [Procs -> Keys \union {NoKey}]
  /\ res \in [Procs -> {"none", "ok", "exists", "notfound", "error"}]

CallOK(p) ==
  /\ pc[p] = "call" <=> op[p] # "none"
  /\ op[p] # "none" => name[p] = keyName[p]
  /\ op[p] = "none" => res[p] = "none" /\ got[p] = NoKey
  /\ cmd[p] = "create" => op[p] # "delete"
  /\ cmd[p] = "delete" => op[p] # "create"

AllSigns == CertSigns + SignOps

SignsOK(p) ==
  /\ pc[p] \in {"sign", "verify", "close"} => cmd[p] = "certtest"
  /\ pc[p] = "idle" \/ op[p] = "create" => signs[p] = 0
  /\ pc[p] = "sign" => signs[p] < AllSigns
  /\ pc[p] = "verify" => signs[p] = CertSigns
  /\ pc[p] = "close" => signs[p] = AllSigns
  /\ cmd[p] = "certtest" /\ (op[p] = "delete" \/ status[p] = "ok") => signs[p] = AllSigns

CommandOK(p) ==
  /\ pc[p] = "idle" <=> cmd[p] = "none"
  /\ cmd[p] # "none" => keyName[p] \in Names
  /\ pc[p] # "exited" <=> status[p] = "running"
  /\ signer[p] # NoKey => cmd[p] = "certtest" /\ pc[p] # "call" /\ status[p] # "ok"
  /\ CallOK(p)
  /\ SignsOK(p)

CommandInv == \A p \in Procs : CommandOK(p)

NameOK(p) ==
  /\ keyName[p] \in Uuids => keyName[p] \in drawn
  /\ keyName[p] \notin printed =>
        \A q \in Procs \ {p} : cmd[q] # "none" => keyName[q] # keyName[p]
  /\ cmd[p] = "certtest" /\ status[p] # "ok" => keyName[p] \notin printed
  /\ cmd[p] = "create" /\ status[p] = "ok" => keyName[p] \in printed

NameInv ==
  /\ printed \intersect Uuids \subseteq drawn
  /\ \A p \in Procs : cmd[p] # "none" => NameOK(p)

KeyOK(p) ==
  /\ op[p] = "create" /\ res[p] = "ok" => store[keyName[p]] = got[p]
  /\ op[p] = "delete" /\ res[p] = "ok" => store[keyName[p]] = NoKey
  /\ signer[p] # NoKey => store[keyName[p]] = signer[p]

KeyInv == \A p \in Procs : cmd[p] = "certtest" => KeyOK(p)

EffectOK(p) ==
  /\ effect[p] # NoKey =>
        /\ cmd[p] # "none"
        /\ store[keyName[p]] = effect[p] \/ effect[p] \in removed
  /\ op[p] = "create" /\ res[p] = "ok" => effect[p] # NoKey
  /\ pc[p] \in {"sign", "verify", "close"} => effect[p] # NoKey
  /\ cmd[p] = "certtest" /\ op[p] = "delete" => effect[p] # NoKey
  /\ status[p] = "ok" => effect[p] # NoKey
  /\ \/ op[p] = "delete" /\ res[p] = "ok"
     \/ cmd[p] = "delete" /\ status[p] = "ok"
     \/ cmd[p] = "certtest" /\ status[p] = "ok" /\ keyName[p] \notin printed
     => effect[p] \in removed

EffectInv == \A p \in Procs : EffectOK(p)

StoreInv ==
  /\ removed \subseteq issued
  /\ \A n \in Names : store[n] # NoKey => store[n] \in issued \ removed
  /\ \A m, n \in Names : m # n /\ store[m] # NoKey => store[m] # store[n]

IInv == CTypeOK /\ StoreType /\ CommandInv /\ NameInv /\ KeyInv /\ EffectInv /\ StoreInv

-----------------------------------------------------------------------------
LEMMA InitIInv == CInit => IInv
<1> SUFFICES ASSUME CInit PROVE IInv
  OBVIOUS
<1> USE CommandsAssumption DEF CInit, Init
<1>1. CTypeOK /\ StoreType
  BY DEF CTypeOK, StoreType, Locations, CertSigns
<1>2. CommandInv /\ NameInv /\ KeyInv /\ EffectInv /\ StoreInv
  BY DEF CommandInv, CommandOK, CallOK, SignsOK, NameInv, KeyInv, EffectInv, EffectOK, StoreInv
<1> QED
  BY <1>1, <1>2 DEF IInv

\* What belongs to p alone.
Row(p) == <<pc[p], cmd[p], keyName[p], signer[p], signs[p], status[p],
            op[p], name[p], got[p], res[p], effect[p]>>

\* A step of p that neither takes nor prints a name that somebody else holds
\* unprinted, nor touches the key under it, and that records each key it unbinds,
\* disturbs nobody else.
LEMMA Frame ==
  ASSUME IInv, CTypeOK', StoreType', NEW p \in Procs,
         \A q \in Procs \ {p} : Row(q)' = Row(q),
         drawn \subseteq drawn', printed \subseteq printed',
         printed' \intersect Uuids \subseteq drawn',
         CommandOK(p)', cmd'[p] # "none" => NameOK(p)', cmd'[p] = "certtest" => KeyOK(p)',
         EffectOK(p)', StoreInv', removed \subseteq removed',
         \A n \in Names : store[n] \in {NoKey, store'[n]} \union removed',
         \A q \in Procs \ {p} :
            cmd[q] # "none" /\ keyName[q] \notin printed =>
               /\ cmd'[p] # "none" => keyName'[p] # keyName[q]
               /\ keyName[q] \notin printed'
               /\ store'[keyName[q]] = store[keyName[q]]
  PROVE  IInv'
<1>1. \A q \in Procs \ {p} :
         /\ pc'[q] = pc[q] /\ cmd'[q] = cmd[q] /\ keyName'[q] = keyName[q]
         /\ signer'[q] = signer[q] /\ signs'[q] = signs[q] /\ status'[q] = status[q]
         /\ op'[q] = op[q] /\ name'[q] = name[q] /\ got'[q] = got[q] /\ res'[q] = res[q]
         /\ effect'[q] = effect[q]
  BY DEF Row
<1>2. ASSUME NEW q \in Procs \ {p} PROVE CommandOK(q)'
  <2>1. CommandOK(q)
    BY DEF IInv, CommandInv
  <2> QED
    BY <1>1, <2>1 DEF CommandOK, CallOK, SignsOK
<1>3. ASSUME NEW q \in Procs \ {p}, cmd'[q] # "none" PROVE NameOK(q)'
  <2>1. NameOK(q)
    BY <1>1, <1>3 DEF IInv, NameInv
  <2> QED
    BY <1>1, <1>3, <2>1 DEF NameOK
<1>4. ASSUME NEW q \in Procs \ {p}, cmd'[q] = "certtest" PROVE KeyOK(q)'
  <2>1. KeyOK(q) /\ NameOK(q) /\ CommandOK(q)
    BY <1>1, <1>4 DEF IInv, NameInv, KeyInv, CommandInv
  <2>2. keyName[q] \in printed' \/ store'[keyName[q]] = store[keyName[q]]
    BY <1>1, <1>4
  <2> QED
    BY <1>1, <1>4, <2>1, <2>2 DEF KeyOK, NameOK, CommandOK, CallOK
<1>5. ASSUME NEW q \in Procs \ {p} PROVE EffectOK(q)'
  <2>1. EffectOK(q) /\ CommandOK(q)
    BY DEF IInv, EffectInv, CommandInv
  <2>2. effect[q] # NoKey => keyName[q] \in Names
    BY <2>1 DEF EffectOK, CommandOK
  <2> QED
    BY <1>1, <2>1, <2>2 DEF EffectOK
<1> QED
  BY <1>2, <1>3, <1>4, <1>5 DEF IInv, CommandInv, NameInv, KeyInv, EffectInv

\* One that starts no command, prints nothing and leaves the store alone.
LEMMA QuietStep ==
  ASSUME IInv, CTypeOK', StoreType', NEW p \in Procs,
         \A q \in Procs \ {p} : Row(q)' = Row(q),
         UNCHANGED <<store, issued, drawn, printed, removed>>,
         cmd'[p] # "none" => cmd[p] # "none" /\ keyName'[p] = keyName[p],
         CommandOK(p)', cmd'[p] # "none" => NameOK(p)', cmd'[p] = "certtest" => KeyOK(p)',
         EffectOK(p)'
  PROVE  IInv'
<1>1. \A q \in Procs \ {p} :
         cmd[q] # "none" /\ keyName[q] \notin printed =>
            /\ cmd'[p] # "none" => keyName'[p] # keyName[q]
            /\ keyName[q] \notin printed'
            /\ store'[keyName[q]] = store[keyName[q]]
  BY DEF IInv, NameInv, NameOK
<1>2. printed' \intersect Uuids \subseteq drawn'
  BY DEF IInv, NameInv
<1>3. StoreInv'
  BY DEF IInv, StoreInv
<1> QED
  BY <1>1, <1>2, <1>3, Frame

\* What the invariant says of one process.
LEMMA Known ==
  ASSUME IInv, NEW p \in Procs
  PROVE  /\ CommandOK(p) /\ (cmd[p] # "none" => NameOK(p))
         /\ cmd[p] = "certtest" => KeyOK(p)
         /\ EffectOK(p)
BY DEF IInv, CommandInv, NameInv, KeyInv, EffectInv

\* Names are not taken from whoever holds them unprinted.
LEMMA Distinct ==
  ASSUME IInv, NEW p \in Procs, NEW q \in Procs \ {p}, cmd[p] # "none", cmd[q] # "none",
         keyName[p] = keyName[q]
  PROVE  keyName[p] \in printed
BY DEF IInv, NameInv, NameOK

-----------------------------------------------------------------------------
(***************************************************************************)
(* One lemma per action.                                                   *)
(***************************************************************************)

LEMMA StartStep ==
  ASSUME IInv, NEW p \in Procs, NEW c \in {"create", "delete", "certtest"}, NEW n \in Names,
         NEW o \in {"create", "delete"}, Start(p, c, n, o),
         o = IF c = "delete" THEN "delete" ELSE "create",
         \/ n \in printed /\ c # "certtest" /\ UNCHANGED drawn
         \/ n \in Uuids \ drawn /\ drawn' = drawn \union {n}
  PROVE  IInv'
<1> USE CommandsAssumption DEF Start, Invoke, At, Goto, histVars
<1>1. CTypeOK' /\ StoreType'
  BY DEF IInv, CTypeOK, StoreType, Locations
<1>2. /\ pc[p] = "idle" /\ pc'[p] = "call" /\ cmd'[p] = c /\ keyName'[p] = n
      /\ op'[p] = o /\ name'[p] = n
  BY DEF IInv, CTypeOK, StoreType
<1>3. CommandOK(p)'
  BY <1>2, Known DEF CommandOK, CallOK, SignsOK
<1>4. \A q \in Procs \ {p} : cmd[q] # "none" /\ keyName[q] \notin printed => keyName[q] # n
  BY DEF IInv, NameInv, NameOK
<1>5. \A q \in Procs \ {p} : Row(q)' = Row(q)
  BY DEF Row, IInv, CTypeOK, StoreType
<1>6. NameOK(p)'
  <2>1. \A q \in Procs \ {p} : cmd'[q] = cmd[q] /\ keyName'[q] = keyName[q]
    BY <1>5 DEF Row
  <2>2. n \notin printed => n \in Uuids \ drawn
    OBVIOUS
  <2>3. n \notin printed => \A q \in Procs \ {p} : cmd[q] # "none" => keyName[q] # n
    BY <2>2 DEF IInv, NameInv, NameOK
  <2>4. status'[p] # "ok"
    BY <1>2, <1>3 DEF CommandOK
  <2>5. c = "certtest" => n \notin printed
    BY DEF IInv, NameInv
  <2>6. n \in Uuids => n \in drawn'
    BY DEF IInv, NameInv
  <2> QED
    BY <1>2, <2>1, <2>3, <2>4, <2>5, <2>6 DEF NameOK
<1>7. KeyOK(p)'
  <2>1. res'[p] = "none" /\ signer'[p] = NoKey /\ status'[p] # "ok"
    BY <1>2, <1>3, Known DEF CommandOK, CallOK
  <2> QED
    BY <2>1 DEF KeyOK
<1>8. EffectOK(p)'
  BY <1>2, <1>3, Known DEF EffectOK, CommandOK, CallOK
<1>9. StoreInv' /\ removed' = removed
  BY DEF IInv, StoreInv
<1> QED
  BY <1>1, <1>2, <1>3, <1>4, <1>5, <1>6, <1>7, <1>8, <1>9, Frame DEF IInv, NameInv

LEMMA StartCreateStep == ASSUME IInv, NEW p \in Procs, StartCreate(p) PROVE IInv'
<1>1. printed \subseteq Names /\ Uuids \subseteq Names
  BY CommandsAssumption DEF IInv, CTypeOK
<1> QED
  BY <1>1, StartStep DEF StartCreate

LEMMA StartDeleteStep == ASSUME IInv, NEW p \in Procs, StartDelete(p) PROVE IInv'
<1>1. printed \subseteq Names
  BY DEF IInv, CTypeOK
<1> QED
  BY <1>1, StartStep DEF StartDelete

LEMMA StartCerttestStep == ASSUME IInv, NEW p \in Procs, StartCerttest(p) PROVE IInv'
BY StartStep, CommandsAssumption DEF StartCerttest

\* What the backend does to the store, and what history keeps of it.
LEMMA BackendCases ==
  ASSUME IInv, NEW p \in Procs, Backend(p)
  PROVE  /\ op[p] \in {"create", "delete"} /\ name[p] = keyName[p] /\ name[p] \in Names
         /\ pc[p] = "call" /\ cmd[p] # "none" /\ signer[p] = NoKey /\ status[p] = "running"
         /\ \/ /\ op[p] = "create" /\ res[p] = "none"
               /\ \E k \in Keys \ issued :
                     /\ BindKey(name[p], k)
                     /\ effect' = [effect EXCEPT ![p] = k]
                     /\ res'[p] = "ok" => got'[p] = k
               /\ removed' = removed
            \/ /\ UNCHANGED <<store, issued, effect, removed>>
               /\ res'[p] # "ok"
            \/ /\ op[p] = "delete"
               /\ store[name[p]] # NoKey
               /\ store' = [store EXCEPT ![name[p]] = NoKey]
               /\ effect' = [effect EXCEPT ![p] = store[name[p]]]
               /\ removed' = removed \union {store[name[p]]}
               /\ issued' = issued
<1>1. op[p] \in {"create", "delete"}
  BY DEF Backend, Bind, Exists, Orphan, Unbind, NotFound, Fail, Pending, IInv, StoreType, Ops
<1>2. /\ name[p] = keyName[p] /\ name[p] \in Names
      /\ pc[p] = "call" /\ cmd[p] # "none" /\ signer[p] = NoKey /\ status[p] = "running"
  BY <1>1, Known DEF CommandOK, CallOK
<1> USE CommandsAssumption DEF IInv, CTypeOK, StoreType, Record
<1>3. CASE UNCHANGED <<store, issued>> /\ res'[p] # "ok"
  BY <1>1, <1>2, <1>3 DEF Backend
<1>4. CASE Bind(p) \/ Orphan(p)
  <2>1. CASE \E k \in Keys \ issued :
               BindKey(name[p], k) /\ (res'[p] = "ok" => got'[p] = k)
    <3>1. PICK k \in Keys \ issued : BindKey(name[p], k) /\ (res'[p] = "ok" => got'[p] = k)
      BY <2>1
    <3>2. store[name[p]] = NoKey /\ store'[name[p]] = k /\ k # NoKey
      BY <1>2, <3>1 DEF BindKey
    <3>3. effect' = [effect EXCEPT ![p] = k] /\ removed' = removed
      BY <3>2 DEF Backend
    <3>4. op[p] = "create" /\ res[p] = "none"
      BY <1>4, <3>1, <3>2 DEF Bind, Orphan, Pending, BindKey
    <3> QED
      BY <1>1, <1>2, <3>1, <3>3, <3>4
  <2> QED
    BY <1>3, <1>4, <2>1 DEF Bind, Orphan, Decide
<1>5. CASE Unbind(p)
  BY <1>1, <1>2, <1>5 DEF Unbind, Pending, Backend
<1>6. CASE Exists(p) \/ NotFound(p) \/ Fail(p)
  BY <1>3, <1>6 DEF Exists, NotFound, Fail, Decide
<1> QED
  BY <1>4, <1>5, <1>6 DEF Backend

LEMMA BackendEffect ==
  ASSUME IInv, NEW p \in Procs, Backend(p)
  PROVE  /\ StoreInv' /\ EffectOK(p)'
         /\ removed \subseteq removed'
         /\ \A n \in Names : store[n] \in {NoKey, store'[n]} \union removed'
<1> USE CommandsAssumption DEF IInv, CTypeOK, StoreType
<1>1. /\ op[p] \in {"create", "delete"} /\ name[p] = keyName[p] /\ name[p] \in Names
      /\ pc[p] = "call" /\ cmd[p] # "none" /\ status[p] = "running"
  BY BackendCases
<1>2. UNCHANGED <<op, cliVars>>
  BY DEF Backend, Bind, Exists, Orphan, Unbind, NotFound, Fail
<1>3. EffectOK(p)
  BY Known
<1>4. CASE \E k \in Keys \ issued :
             BindKey(name[p], k) /\ op[p] = "create" /\ res[p] = "none"
             /\ effect' = [effect EXCEPT ![p] = k] /\ removed' = removed
  <2>1. PICK k \in Keys \ issued :
          BindKey(name[p], k) /\ effect' = [effect EXCEPT ![p] = k] /\ removed' = removed
          /\ op[p] = "create"
    BY <1>4
  <2>2. StoreInv'
    BY <1>1, <2>1 DEF StoreInv, BindKey
  <2>3. EffectOK(p)'
    BY <1>1, <1>2, <2>1 DEF EffectOK, BindKey, cliVars
  <2> QED
    BY <1>1, <2>1, <2>2, <2>3 DEF BindKey
<1>5. CASE UNCHANGED <<store, issued, effect, removed>> /\ res'[p] # "ok"
  BY <1>1, <1>2, <1>3, <1>5 DEF StoreInv, EffectOK, cliVars
<1>6. CASE /\ op[p] = "delete"
           /\ store[name[p]] # NoKey
           /\ store' = [store EXCEPT ![name[p]] = NoKey]
           /\ effect' = [effect EXCEPT ![p] = store[name[p]]]
           /\ removed' = removed \union {store[name[p]]}
           /\ issued' = issued
  <2>1. StoreInv'
    BY <1>1, <1>6 DEF StoreInv
  <2>2. EffectOK(p)'
    BY <1>1, <1>2, <1>6 DEF EffectOK, cliVars
  <2> QED
    BY <1>1, <1>6, <2>1, <2>2
<1> QED
  BY <1>4, <1>5, <1>6, BackendCases

LEMMA BackendStep == ASSUME IInv, NEW p \in Procs, Backend(p) PROVE IInv'
<1>1. /\ op[p] \in {"create", "delete"} /\ name[p] = keyName[p] /\ name[p] \in Names
      /\ pc[p] = "call" /\ cmd[p] # "none" /\ signer[p] = NoKey /\ status[p] = "running"
  BY BackendCases
<1>2. /\ UNCHANGED <<op, name, cliVars>>
      /\ \E g \in Keys \union {NoKey}, r \in {"ok", "exists", "notfound", "error"} :
            got' = [got EXCEPT ![p] = g] /\ res' = [res EXCEPT ![p] = r]
  <2>1. got = [got EXCEPT ![p] = got[p]] /\ got[p] \in Keys \union {NoKey}
    BY DEF IInv, StoreType
  <2> QED
    BY <2>1 DEF Backend, Bind, Exists, Orphan, Unbind, NotFound, Fail, Decide
<1> USE DEF cliVars
<1>3. CTypeOK' /\ StoreType'
  <2>1. store \in [Names -> Keys \union {NoKey}] /\ issued \subseteq Keys
        /\ effect \in [Procs -> Keys \union {NoKey}] /\ removed \subseteq Keys
    BY DEF IInv, CTypeOK, StoreType
  <2>2. store' \in [Names -> Keys \union {NoKey}] /\ issued' \subseteq Keys
        /\ effect' \in [Procs -> Keys \union {NoKey}] /\ removed' \subseteq Keys
    BY <1>1, <2>1, BackendCases DEF BindKey
  <2>3. CTypeOK'
    BY <1>2, <2>2 DEF IInv, CTypeOK
  <2>4. StoreType'
    BY <1>2, <2>2 DEF IInv, StoreType
  <2> QED
    BY <2>3, <2>4
<1>4. \A q \in Procs \ {p} : Row(q)' = Row(q)
  BY <1>2, BackendCases DEF Row, IInv, CTypeOK, StoreType
<1>5. res'[p] # "none"
  BY <1>2 DEF IInv, StoreType
<1>6. CommandOK(p)'
  BY <1>1, <1>2, Known DEF CommandOK, CallOK, SignsOK
<1>7. NameOK(p)'
  BY <1>1, <1>2, Known DEF NameOK
<1>8. KeyOK(p)'
  BY <1>1, <1>2, BackendCases DEF KeyOK, BindKey, IInv, StoreType
<1>9. \A q \in Procs \ {p} :
         cmd[q] # "none" /\ keyName[q] \notin printed =>
            keyName[q] # keyName[p] /\ store'[keyName[q]] = store[keyName[q]]
  <2> SUFFICES ASSUME NEW q \in Procs \ {p}, cmd[q] # "none", keyName[q] \notin printed
               PROVE  keyName[q] # keyName[p] /\ store'[keyName[q]] = store[keyName[q]]
    OBVIOUS
  <2>1. keyName[q] # keyName[p] /\ keyName[q] \in Names
    BY <1>1, Distinct, Known DEF CommandOK
  <2> QED
    BY <1>1, <2>1, BackendCases DEF BindKey, IInv, StoreType
<1> QED
  BY <1>1, <1>2, <1>3, <1>4, <1>6, <1>7, <1>8, <1>9, BackendEffect, Frame DEF IInv, NameInv

\* What a command knows when its call has returned.
LEMMA ReturnedStep ==
  ASSUME IInv, NEW p \in Procs, Returned(p)
  PROVE  /\ pc[p] = "call" /\ cmd[p] # "none" /\ name[p] = keyName[p] /\ signer[p] = NoKey
         /\ op'[p] = "none" /\ res'[p] = "none" /\ got'[p] = NoKey
         /\ store' = store /\ issued' = issued
         /\ StoreType'
BY Known DEF Returned, At, Leave, CommandOK, CallOK, IInv, StoreType

LEMMA FinishCreateStep == ASSUME IInv, NEW p \in Procs, FinishCreate(p) PROVE IInv'
<1> USE DEF FinishCreate, Exit, Goto, histVars
<1>1. keyName[p] \in Names
  BY Known DEF CommandOK
<1>2. CTypeOK'
  BY <1>1 DEF IInv, CTypeOK, Locations
<1>3. \A q \in Procs \ {p} : Row(q)' = Row(q)
  BY DEF Row, IInv, CTypeOK, StoreType, Returned, Leave
<1>4. CommandOK(p)'
  BY ReturnedStep, Known DEF CommandOK, CallOK, SignsOK, IInv, CTypeOK
<1>5. NameOK(p)' /\ printed' \intersect Uuids \subseteq drawn'
  BY Known DEF NameOK, NameInv, IInv, CTypeOK
<1>6. \A q \in Procs \ {p} :
         cmd[q] # "none" /\ keyName[q] \notin printed => keyName[q] # keyName[p]
  BY Distinct
<1>7. EffectOK(p)'
  BY <1>4, ReturnedStep, Known
  DEF EffectOK, CommandOK, CallOK, Returned, IInv, CTypeOK, StoreType
<1>8. StoreInv' /\ removed' = removed
  BY ReturnedStep DEF IInv, StoreInv
<1> QED
  BY <1>2, <1>3, <1>4, <1>5, <1>6, <1>7, <1>8, ReturnedStep, Frame

LEMMA FinishDeleteStep == ASSUME IInv, NEW p \in Procs, FinishDelete(p) PROVE IInv'
<1> USE DEF FinishDelete, Exit, Goto, histVars
<1>1. CTypeOK'
  BY DEF IInv, CTypeOK, Locations
<1>2. \A q \in Procs \ {p} : Row(q)' = Row(q)
  BY DEF Row, IInv, CTypeOK, StoreType, Returned, Leave
<1>3. CommandOK(p)'
  BY ReturnedStep, Known DEF CommandOK, CallOK, SignsOK, IInv, CTypeOK
<1>4. NameOK(p)'
  BY Known DEF NameOK
<1>5. NoKey \notin removed
  BY CommandsAssumption DEF IInv, CTypeOK
<1>6. EffectOK(p)'
  BY <1>3, <1>5, ReturnedStep, Known
  DEF EffectOK, CommandOK, CallOK, Returned, IInv, CTypeOK, StoreType
<1> QED
  BY <1>1, <1>2, <1>3, <1>4, <1>6, ReturnedStep, QuietStep

LEMMA BeginTestStep == ASSUME IInv, NEW p \in Procs, BeginTest(p) PROVE IInv'
<1> USE CommandsAssumption DEF BeginTest, Exit, Goto, histVars
<1>1. got[p] \in Keys \union {NoKey}
  BY DEF IInv, StoreType
<1>2. CTypeOK'
  BY <1>1 DEF IInv, CTypeOK, Locations
<1>3. \A q \in Procs \ {p} : Row(q)' = Row(q)
  BY DEF Row, IInv, CTypeOK, StoreType, Returned, Leave
<1>4. CommandOK(p)'
  BY ReturnedStep, Known
  DEF CommandOK, CallOK, SignsOK, AllSigns, CertSigns, IInv, CTypeOK
<1>5. NameOK(p)'
  BY Known DEF NameOK, CommandOK, IInv, CTypeOK, Returned, At
<1>6. KeyOK(p)'
  BY ReturnedStep, Known DEF KeyOK, CommandOK, IInv, CTypeOK
<1>7. EffectOK(p)'
  BY <1>4, ReturnedStep, Known DEF EffectOK, CommandOK, CallOK, Returned, IInv, CTypeOK
<1> QED
  BY <1>2, <1>3, <1>4, <1>5, <1>6, <1>7, ReturnedStep, QuietStep

LEMMA SignOnceStep == ASSUME IInv, NEW p \in Procs, SignOnce(p) PROVE IInv'
<1> USE CommandsAssumption DEF SignOnce, Exit, Goto, At, vars, histVars
<1>1. signs[p] \in Nat /\ signs[p] < AllSigns /\ AllSigns \in Nat
  BY Known DEF CommandOK, SignsOK, AllSigns, CertSigns, IInv, CTypeOK
<1>2. /\ AfterSign(signs[p] + 1) \in {"sign", "verify", "close"}
      /\ AfterSign(signs[p] + 1) = "verify" => signs[p] + 1 = CertSigns
      /\ AfterSign(signs[p] + 1) = "close" => signs[p] + 1 = AllSigns
      /\ AfterSign(signs[p] + 1) = "sign" => signs[p] + 1 # AllSigns
  BY <1>1 DEF AfterSign, AllSigns
<1>3. CTypeOK' /\ StoreType'
  BY <1>1, <1>2 DEF IInv, CTypeOK, StoreType, Locations, AllSigns
<1>4. \A q \in Procs \ {p} : Row(q)' = Row(q)
  BY DEF Row, IInv, CTypeOK
<1>5. cmd[p] = "certtest" /\ op[p] = "none"
  BY Known DEF CommandOK, SignsOK, CallOK
<1>6. CommandOK(p)'
  BY <1>1, <1>2, <1>5, Known DEF CommandOK, CallOK, SignsOK, IInv, CTypeOK
<1>7. NameOK(p)' /\ KeyOK(p)'
  BY <1>5, Known DEF NameOK, KeyOK, CommandOK, IInv, CTypeOK
<1>8. EffectOK(p)'
  BY <1>2, <1>5, <1>6, Known DEF EffectOK, CommandOK, CallOK, IInv, CTypeOK
<1> QED
  BY <1>3, <1>4, <1>5, <1>6, <1>7, <1>8, QuietStep

LEMMA VerifyStep == ASSUME IInv, NEW p \in Procs, Verify(p) PROVE IInv'
<1> USE CommandsAssumption DEF Verify, Exit, Goto, At, vars, histVars
<1>1. CTypeOK' /\ StoreType'
  BY DEF IInv, CTypeOK, StoreType, Locations
<1>2. \A q \in Procs \ {p} : Row(q)' = Row(q)
  BY DEF Row, IInv, CTypeOK
<1>3. cmd[p] = "certtest" /\ op[p] = "none" /\ signs[p] = CertSigns
  BY Known DEF CommandOK, SignsOK, CallOK
<1>4. CommandOK(p)'
  BY <1>3, Known DEF CommandOK, CallOK, SignsOK, AllSigns, CertSigns, IInv, CTypeOK
<1>5. NameOK(p)' /\ KeyOK(p)'
  BY <1>3, Known DEF NameOK, KeyOK, CommandOK, IInv, CTypeOK
<1>6. EffectOK(p)'
  BY <1>3, <1>4, Known DEF EffectOK, CommandOK, CallOK, IInv, CTypeOK
<1> QED
  BY <1>1, <1>2, <1>3, <1>4, <1>5, <1>6, QuietStep

LEMMA CloseAndDeleteStep == ASSUME IInv, NEW p \in Procs, CloseAndDelete(p) PROVE IInv'
<1> USE DEF CloseAndDelete, Invoke, Goto, At, histVars
<1>1. cmd[p] = "certtest" /\ keyName[p] \in Names /\ signs[p] = AllSigns /\ res[p] = "none"
      /\ got[p] = NoKey /\ status[p] = "running"
  BY Known DEF CommandOK, SignsOK, CallOK
<1>2. CTypeOK' /\ StoreType'
  BY <1>1 DEF IInv, CTypeOK, StoreType, Locations
<1>3. \A q \in Procs \ {p} : Row(q)' = Row(q)
  BY DEF Row, IInv, CTypeOK, StoreType
<1>4. CommandOK(p)'
  BY <1>1, Known DEF CommandOK, CallOK, SignsOK, IInv, CTypeOK, StoreType
<1>5. NameOK(p)' /\ KeyOK(p)'
  BY <1>1, Known DEF NameOK, KeyOK, CommandOK, IInv, CTypeOK
<1>6. EffectOK(p)'
  BY <1>1, <1>4, Known DEF EffectOK, CommandOK, CallOK, IInv, CTypeOK, StoreType
<1> QED
  BY <1>1, <1>2, <1>3, <1>4, <1>5, <1>6, QuietStep

LEMMA FinishTestStep == ASSUME IInv, NEW p \in Procs, FinishTest(p) PROVE IInv'
<1> USE DEF FinishTest, Exit, Goto, histVars
<1>1. keyName[p] \in Names
  BY Known DEF CommandOK
<1>2. CTypeOK'
  BY <1>1 DEF IInv, CTypeOK, Locations
<1>3. \A q \in Procs \ {p} : Row(q)' = Row(q)
  BY DEF Row, IInv, CTypeOK, StoreType, Returned, Leave
<1>4. CommandOK(p)'
  BY ReturnedStep, Known DEF CommandOK, CallOK, SignsOK, IInv, CTypeOK
<1>5. NameOK(p)' /\ printed' \intersect Uuids \subseteq drawn'
  BY <1>4, Known DEF NameOK, NameInv, IInv, CTypeOK
<1>6. KeyOK(p)'
  BY ReturnedStep, Known DEF KeyOK, IInv, CTypeOK
<1>7. \A q \in Procs \ {p} :
         cmd[q] # "none" /\ keyName[q] \notin printed => keyName[q] # keyName[p]
  BY Distinct
<1>8. EffectOK(p)'
  <2>1. res[p] = "ok" => effect[p] \in removed
    BY Known DEF EffectOK
  <2>2. res[p] # "ok" => keyName[p] \in printed'
    OBVIOUS
  <2> QED
    BY <1>4, <2>1, <2>2, ReturnedStep, Known
    DEF EffectOK, CommandOK, CallOK, Returned, IInv, CTypeOK, StoreType
<1>9. StoreInv' /\ removed' = removed
  BY ReturnedStep DEF IInv, StoreInv
<1> QED
  BY <1>2, <1>3, <1>4, <1>5, <1>6, <1>7, <1>8, <1>9, ReturnedStep, Frame

LEMMA KillStep == ASSUME IInv, NEW p \in Procs, Kill(p) PROVE IInv'
<1> USE DEF Kill, Exit, Goto, At, vars, histVars
<1>1. UNCHANGED <<store, issued>> /\ StoreType' /\ op'[p] = "none" /\ res'[p] = "none"
      /\ got'[p] = NoKey
  BY Known DEF IInv, StoreType, Leave, CommandOK, CallOK
<1>2. CTypeOK'
  BY DEF IInv, CTypeOK, Locations
<1>3. \A q \in Procs \ {p} : Row(q)' = Row(q)
  BY DEF Row, IInv, CTypeOK, StoreType, Leave
<1>4. CommandOK(p)' /\ cmd'[p] # "none" /\ status'[p] = "killed"
  BY <1>1, Known DEF CommandOK, CallOK, SignsOK, IInv, CTypeOK
<1>5. NameOK(p)' /\ KeyOK(p)'
  BY <1>1, <1>4, Known DEF NameOK, KeyOK, CommandOK, IInv, CTypeOK
<1>6. EffectOK(p)'
  BY <1>1, <1>4, Known DEF EffectOK, CommandOK, IInv, CTypeOK
<1> QED
  BY <1>1, <1>2, <1>3, <1>4, <1>5, <1>6, QuietStep

LEMMA ReapStep == ASSUME IInv, NEW p \in Procs, Reap(p) PROVE IInv'
<1> USE CommandsAssumption DEF Reap, Goto, At, vars
<1>1. CTypeOK' /\ StoreType'
  BY DEF IInv, CTypeOK, StoreType, Locations, CertSigns
<1>2. \A q \in Procs \ {p} : Row(q)' = Row(q)
  BY DEF Row, IInv, CTypeOK
<1>3. CommandOK(p)' /\ cmd'[p] = "none"
  BY Known DEF CommandOK, CallOK, SignsOK, IInv, CTypeOK
<1>4. EffectOK(p)'
  BY <1>3, Known DEF EffectOK, CommandOK, CallOK, IInv, CTypeOK
<1> QED
  BY <1>1, <1>2, <1>3, <1>4, QuietStep

LEMMA NextIInv == IInv /\ [CNext]_cvars => IInv'
<1> SUFFICES ASSUME IInv, [CNext]_cvars PROVE IInv'
  OBVIOUS
<1>1. CASE UNCHANGED cvars
  BY <1>1
  DEF cvars, vars, cliVars, histVars, IInv, CTypeOK, StoreType, CommandInv, CommandOK,
      CallOK, SignsOK, NameInv, NameOK, KeyInv, KeyOK, EffectInv, EffectOK, StoreInv
<1> QED
  BY <1>1, StartCreateStep, StartDeleteStep, StartCerttestStep, BackendStep,
     FinishCreateStep, FinishDeleteStep, BeginTestStep, SignOnceStep, VerifyStep,
     CloseAndDeleteStep, FinishTestStep, KillStep, ReapStep
  DEF CNext, Run

LEMMA Inductive == CSpec => []IInv
<1>1. CInit => IInv
  BY InitIInv
<1>2. IInv /\ [CNext]_cvars => IInv'
  BY NextIInv
<1> QED
  BY <1>1, <1>2, PTL DEF CSpec

-----------------------------------------------------------------------------
(***************************************************************************)
(* Theorems                                                                *)
(***************************************************************************)

\* Every variable of the commands keeps its type, whatever fails.
THEOREM TypeCorrect == CSpec => []CTypeOK
<1>1. IInv => CTypeOK
  BY DEF IInv
<1> QED
  BY <1>1, Inductive, PTL

\* While certtest signs, nobody unbinds, replaces or takes the key that it signs
\* with, although anybody may create and delete under any name he knows.
THEOREM SigningKeysAreBound == CSpec => []SigningKeyIsBound
<1>1. IInv => SigningKeyIsBound
  <2> SUFFICES ASSUME IInv, NEW p \in Procs, signer[p] # NoKey
               PROVE  store[keyName[p]] = signer[p]
    BY DEF SigningKeyIsBound
  <2> QED
    BY Known DEF CommandOK, KeyOK
<1> QED
  BY <1>1, Inductive, PTL

\* The name of a certtest's key is its own until it has ended well.
THEOREM CerttestsAreAlone == CSpec => []CerttestIsAlone
<1>1. ASSUME IInv PROVE CerttestIsAlone
  <2> SUFFICES ASSUME NEW p \in Procs, NEW q \in Procs, p # q, cmd[p] = "certtest",
                      status[p] # "ok", cmd[q] # "none"
               PROVE  keyName[q] # keyName[p]
    BY DEF CerttestIsAlone
  <2> QED
    BY <1>1 DEF IInv, NameInv, NameOK
<1> QED
  BY <1>1, Inductive, PTL

\* Exit status 0 tells the truth: the key that create has bound is there under a
\* name that the user knows, until it is unbound; delete has unbound a key, which
\* no name finds any more; certtest has made every signature and its key is gone,
\* or the user was told its name.
THEOREM ExitZeroIsTrue == CSpec => []ExitZeroMeansDone
<1>1. ASSUME IInv PROVE ExitZeroMeansDone
  <2> SUFFICES ASSUME NEW p \in Procs, status[p] = "ok"
               PROVE  LET k    == effect[p]
                          Kept == store[keyName[p]] = k /\ keyName[p] \in printed
                      IN  /\ k \in Keys
                          /\ cmd[p] = "create" => keyName[p] \in printed /\ (Kept \/ Gone(k))
                          /\ cmd[p] = "delete" => Gone(k)
                          /\ cmd[p] = "certtest" =>
                                /\ signs[p] = CertSigns + SignOps
                                /\ signer[p] = NoKey
                                /\ Kept \/ Gone(k)
    BY DEF ExitZeroMeansDone
  <2>1. EffectOK(p) /\ CommandOK(p) /\ cmd[p] # "none" /\ NameOK(p)
    BY <1>1, Known DEF EffectOK
  <2>2. effect[p] \in Keys
    BY <1>1, <2>1 DEF EffectOK, IInv, CTypeOK
  <2>3. effect[p] \in removed => Gone(effect[p])
    BY <1>1, <2>2, CommandsAssumption DEF IInv, StoreInv, Gone
  <2>4. cmd[p] = "certtest" => signs[p] = CertSigns + SignOps /\ signer[p] = NoKey
    BY <2>1 DEF CommandOK, SignsOK, AllSigns
  <2> QED
    BY <2>1, <2>2, <2>3, <2>4 DEF EffectOK, NameOK
<1> QED
  BY <1>1, Inductive, PTL

\* No certtest, and no create, ever destroys a key under a name that somebody
\* may know: it takes a delete of that very name.
THEOREM OnlyDeleteUnbinds == CSpec => NamedKeysAreKept
<1> DEFINE Kept ==
      \A n \in printed :
         store[n] # NoKey /\ store'[n] # store[n] =>
            \E p \in Procs : cmd[p] = "delete" /\ keyName[p] = n
<1>1. ASSUME IInv, NEW p \in Procs, Backend(p) PROVE Kept
  <2> SUFFICES ASSUME NEW n \in printed, store[n] # NoKey, store'[n] # store[n]
               PROVE  cmd[p] = "delete" /\ keyName[p] = n
    OBVIOUS
  <2>1. n = name[p] /\ op[p] = "delete"
    BY <1>1, BackendCases DEF BindKey, IInv, StoreType, CTypeOK
  <2>2. keyName[p] = n /\ cmd[p] \notin {"none", "create"} /\ status[p] # "ok"
    BY <1>1, <2>1, Known DEF CommandOK, CallOK
  <2>3. cmd[p] # "certtest"
    BY <1>1, <2>2, Known DEF NameOK
  <2> QED
    BY <1>1, <2>2, <2>3 DEF IInv, CTypeOK
<1>2. IInv /\ [CNext]_cvars => [Kept]_cvars
  <2> SUFFICES ASSUME IInv, CNext, ~(\E p \in Procs : Backend(p)) PROVE Kept
    BY <1>1
  <2>1. store' = store
    BY DEF CNext, Run, StartCreate, StartDelete, StartCerttest, Start, Invoke,
           FinishCreate, FinishDelete, BeginTest, SignOnce, Verify, CloseAndDelete,
           FinishTest, Kill, Reap, Returned, Leave, vars, cvars
  <2> QED
    BY <2>1
<1> QED
  BY <1>2, Inductive, PTL DEF CSpec, NamedKeysAreKept

-----------------------------------------------------------------------------
(***************************************************************************)
(* Why commands come to an end.  StepsLeft bounds the steps that a command *)
(* still has before it: three for a backend call (the backend decides it,  *)
(* may take the success of a create back, and the command takes the        *)
(* result), and in certtest two for every signature that is left, one of   *)
(* which pays for the check of the chain, and four for closing the signer  *)
(* and deleting the key.                                                   *)
(***************************************************************************)
Running(p) == pc[p] \notin {"idle", "exited"}

CallSteps(p) ==
  IF res[p] = "none" THEN 3 ELSE IF op[p] = "create" /\ res[p] = "ok" THEN 2 ELSE 1
TestSteps(p) == 2 * (AllSigns - signs[p]) + 4

StepsLeft(p) ==
  IF pc[p] = "call"
  THEN CallSteps(p) + (IF cmd[p] = "certtest" /\ op[p] = "create" THEN TestSteps(p) ELSE 0)
  ELSE IF pc[p] \in {"sign", "close"} THEN TestSteps(p)
  ELSE IF pc[p] = "verify" THEN TestSteps(p) + 1
  ELSE 0

\* Every step of a command, or of the backend for it, takes it nearer to its end,
\* no step of another process takes it further away, and it has no steps left
\* exactly when it has exited.  The bound is certtest's, who signs AllSigns times.
Descends ==
  \A p \in Procs :
     Running(p) =>
        /\ StepsLeft(p) \in 1 .. 2 * AllSigns + 7
        /\ StepsLeft(p)' \in 0 .. StepsLeft(p)
        /\ Run(p) => StepsLeft(p)' < StepsLeft(p)
        /\ StepsLeft(p)' = 0 => pc'[p] = "exited"

LEMMA OthersWait ==
  ASSUME IInv, NEW p \in Procs,
         \/ StartCreate(p) \/ StartDelete(p) \/ StartCerttest(p)
         \/ Run(p) \/ Kill(p) \/ Reap(p)
  PROVE  \A q \in Procs \ {p} : Row(q)' = Row(q)
<1> USE DEF IInv, CTypeOK, StoreType, Row, Goto, Exit, histVars
<1>1. CASE StartCreate(p) \/ StartDelete(p) \/ StartCerttest(p) \/ CloseAndDelete(p)
  BY <1>1 DEF StartCreate, StartDelete, StartCerttest, Start, CloseAndDelete, Invoke
<1>2. CASE Backend(p)
  BY <1>2, BackendCases
  DEF Backend, Bind, Exists, Orphan, Unbind, NotFound, Fail, Decide, cliVars
<1>3. CASE FinishCreate(p) \/ FinishDelete(p) \/ BeginTest(p) \/ FinishTest(p)
  BY <1>3 DEF FinishCreate, FinishDelete, BeginTest, FinishTest, Returned, Leave
<1>4. CASE SignOnce(p) \/ Verify(p) \/ Kill(p) \/ Reap(p)
  BY <1>4 DEF SignOnce, Verify, Kill, Reap, Leave, vars
<1> QED
  BY <1>1, <1>2, <1>3, <1>4 DEF Run

\* A running command has steps left, before a step and after it.
LEMMA StepsAreLeft ==
  ASSUME IInv, NEW p \in Procs
  PROVE  /\ TestSteps(p) \in Nat /\ TestSteps(p) >= 4
         /\ StepsLeft(p) \in 0 .. 2 * AllSigns + 7
         /\ StepsLeft(p) = 0 <=> ~Running(p)
<1>1. signs[p] \in 0 .. AllSigns /\ AllSigns \in Nat
  BY CommandsAssumption DEF IInv, CTypeOK, AllSigns, CertSigns
<1>2. TestSteps(p) \in 4 .. 2 * AllSigns + 4
  BY <1>1 DEF TestSteps
<1>3. pc[p] \in Locations
  BY DEF IInv, CTypeOK
<1> QED
  BY <1>1, <1>2, <1>3 DEF StepsLeft, CallSteps, Running, Locations

LEMMA StepsAreLeftNext ==
  ASSUME IInv', NEW p \in Procs
  PROVE  /\ TestSteps(p)' \in Nat /\ TestSteps(p)' >= 4 /\ StepsLeft(p)' \in Nat
         /\ StepsLeft(p)' = 0 <=> ~Running(p)'
<1>1. signs'[p] \in 0 .. AllSigns /\ AllSigns \in Nat
  BY CommandsAssumption DEF IInv, CTypeOK, AllSigns, CertSigns
<1>2. TestSteps(p)' \in Nat /\ TestSteps(p)' >= 4
  BY <1>1 DEF TestSteps, AllSigns, CertSigns
<1>3. pc'[p] \in Locations
  BY DEF IInv, CTypeOK, Locations
<1> QED
  BY <1>2, <1>3 DEF StepsLeft, CallSteps, Running, Locations

LEMMA BackendDescends ==
  ASSUME IInv, IInv', NEW p \in Procs, Backend(p)
  PROVE  StepsLeft(p)' < StepsLeft(p) /\ pc'[p] = "call"
<1>1. /\ op[p] # "none" /\ op'[p] = op[p]
      /\ \/ res[p] = "none" /\ res'[p] # "none"
         \/ op[p] = "create" /\ res[p] = "ok" /\ res'[p] = "error"
      /\ UNCHANGED cliVars
  BY DEF Backend, Bind, Exists, Orphan, Unbind, NotFound, Fail, Pending, Decide, Ops, IInv,
         StoreType
<1>2. pc[p] = "call" /\ pc'[p] = "call"
  BY <1>1, Known DEF CommandOK, CallOK, cliVars
<1>3. TestSteps(p)' = TestSteps(p) /\ TestSteps(p) \in Nat
  BY <1>1, StepsAreLeft DEF TestSteps, cliVars
<1> QED
  BY <1>1, <1>2, <1>3 DEF StepsLeft, CallSteps, cliVars

LEMMA RunDescends ==
  ASSUME IInv, IInv', NEW p \in Procs, Run(p)
  PROVE  StepsLeft(p)' < StepsLeft(p) /\ pc'[p] # "idle"
<1> USE DEF Goto, Exit, At
<1> DEFINE S == TestSteps(p)
<1>1. /\ S \in Nat /\ S >= 4 /\ StepsLeft(p) \in Nat
      /\ S' \in Nat /\ S' >= 4 /\ StepsLeft(p)' \in Nat
  BY StepsAreLeft, StepsAreLeftNext
<1>2. pc'[p] = "exited" /\ Running(p) => StepsLeft(p)' < StepsLeft(p)
  <2>1. pc'[p] = "exited" => StepsLeft(p)' = 0
    BY StepsAreLeftNext DEF Running
  <2>2. Running(p) => StepsLeft(p) # 0
    BY StepsAreLeft
  <2> QED
    BY <1>1, <2>1, <2>2
<1>3. CASE Backend(p)
  BY <1>3, BackendDescends
<1>4. CASE FinishCreate(p) \/ FinishDelete(p) \/ FinishTest(p)
  <2>1. pc[p] = "call" /\ pc'[p] = "exited"
    BY <1>4 DEF FinishCreate, FinishDelete, FinishTest, Returned, IInv, CTypeOK
  <2> QED
    BY <1>2, <2>1 DEF Running
<1>5. CASE BeginTest(p)
  <2>1. pc[p] = "call" /\ cmd[p] = "certtest" /\ op[p] = "create" /\ res[p] # "none"
        /\ pc'[p] \in {"sign", "exited"} /\ UNCHANGED signs
    BY <1>5 DEF BeginTest, Returned, IInv, CTypeOK
  <2>2. CASE pc'[p] = "sign"
    <3>1. StepsLeft(p) \in {1 + S, 2 + S} /\ StepsLeft(p)' = S' /\ S' = S
      BY <1>1, <2>1, <2>2 DEF StepsLeft, CallSteps, TestSteps
    <3> QED
      BY <1>1, <2>2, <3>1
  <2>3. CASE pc'[p] = "exited"
    BY <1>2, <2>1, <2>3 DEF Running
  <2> QED
    BY <2>1, <2>2, <2>3
<1>6. CASE SignOnce(p)
  <2>1. pc[p] = "sign"
    BY <1>6 DEF SignOnce
  <2>2. CASE pc' = [pc EXCEPT ![p] = AfterSign(signs[p] + 1)]
             /\ signs' = [signs EXCEPT ![p] = @ + 1]
    <3>1. AfterSign(signs[p] + 1) \in {"sign", "verify", "close"}
      BY DEF AfterSign
    <3>2. pc'[p] \in {"sign", "verify", "close"} /\ signs'[p] = signs[p] + 1
          /\ signs[p] \in Nat /\ AllSigns \in Nat
      BY <2>2, <3>1, CommandsAssumption DEF IInv, CTypeOK, AllSigns, CertSigns
    <3>3. S' = S - 2
      BY <3>2 DEF TestSteps, AllSigns
    <3>4. StepsLeft(p) = S /\ StepsLeft(p)' \in {S', S' + 1}
      BY <2>1, <3>2 DEF StepsLeft
    <3> QED
      BY <1>1, <3>2, <3>3, <3>4
  <2>3. CASE pc' = [pc EXCEPT ![p] = "exited"]
    BY <1>2, <2>1, <2>3 DEF Running, IInv, CTypeOK
  <2> QED
    BY <1>6, <2>2, <2>3 DEF SignOnce
<1>7. CASE Verify(p)
  <2>1. pc[p] = "verify" /\ pc'[p] \in {"sign", "close", "exited"} /\ UNCHANGED signs
    BY <1>7 DEF Verify, IInv, CTypeOK
  <2>2. CASE pc'[p] \in {"sign", "close"}
    <3>1. StepsLeft(p) = S + 1 /\ StepsLeft(p)' = S' /\ S' = S
      BY <2>1, <2>2 DEF StepsLeft, TestSteps
    <3> QED
      BY <1>1, <2>2, <3>1
  <2>3. CASE pc'[p] = "exited"
    BY <1>2, <2>1, <2>3 DEF Running
  <2> QED
    BY <2>1, <2>2, <2>3
<1>8. CASE CloseAndDelete(p)
  <2>1. pc[p] = "close" /\ pc'[p] = "call" /\ op'[p] = "delete"
    BY <1>8 DEF CloseAndDelete, Invoke, IInv, CTypeOK, StoreType
  <2>2. StepsLeft(p) = S /\ StepsLeft(p)' \in {1, 2, 3}
    BY <2>1 DEF StepsLeft, CallSteps
  <2> QED
    BY <1>1, <2>1, <2>2
<1> QED
  BY <1>3, <1>4, <1>5, <1>6, <1>7, <1>8 DEF Run

\* A command makes a bounded number of steps, whatever other processes do; with
\* the fairness of FairCSpec that is why it exits.
THEOREM CommandsDescend == CSpec => [][Descends]_cvars
<1>1. ASSUME IInv, IInv', CNext PROVE Descends
  <2> SUFFICES ASSUME NEW p \in Procs, Running(p)
               PROVE  /\ StepsLeft(p) \in 1 .. 2 * AllSigns + 7
                      /\ StepsLeft(p)' \in 0 .. StepsLeft(p)
                      /\ Run(p) => StepsLeft(p)' < StepsLeft(p)
                      /\ StepsLeft(p)' = 0 => pc'[p] = "exited"
    BY DEF Descends
  <2>1. StepsLeft(p) \in 1 .. 2 * AllSigns + 7 /\ StepsLeft(p)' \in Nat
    BY <1>1, StepsAreLeft, StepsAreLeftNext
  <2>2. CASE Run(p)
    BY <1>1, <2>1, <2>2, RunDescends, StepsAreLeftNext DEF Running
  <2>3. CASE Kill(p)
    <3>1. pc'[p] = "exited"
      BY <1>1, <2>3 DEF Kill, Exit, Goto, IInv, CTypeOK
    <3>2. StepsLeft(p)' = 0
      BY <1>1, <3>1, StepsAreLeftNext DEF Running
    <3>3. ~Run(p) \/ StepsLeft(p)' < StepsLeft(p)
      BY <1>1, RunDescends
    <3> QED
      BY <2>1, <3>1, <3>2, <3>3
  <2>4. CASE ~Run(p) /\ ~Kill(p)
    <3>1. PICK q \in Procs :
            \/ StartCreate(q) \/ StartDelete(q) \/ StartCerttest(q)
            \/ Run(q) \/ Kill(q) \/ Reap(q)
      BY <1>1 DEF CNext
    <3>2. q # p
      BY <2>4, <3>1
      DEF Running, StartCreate, StartDelete, StartCerttest, Start, Reap, At
    <3>3. Row(p)' = Row(p)
      BY <1>1, <3>1, <3>2, OthersWait
    <3>4. pc'[p] = pc[p] /\ StepsLeft(p)' = StepsLeft(p)
      BY <3>3 DEF Row, StepsLeft, CallSteps, TestSteps
    <3> QED
      BY <2>1, <2>4, <3>4
  <2> QED
    BY <2>2, <2>3, <2>4
<1>2. IInv /\ IInv' /\ [CNext]_cvars => [Descends]_cvars
  BY <1>1
<1> QED
  BY <1>2, Inductive, PTL DEF CSpec

=============================================================================
