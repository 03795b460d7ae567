-------------------------- MODULE TpmSessionProofs --------------------------
(***************************************************************************)
(* Proofs about TpmSession, for any number of sessions and handles, with   *)
(* any of the sessions on a raw device and any of the faults.              *)
(***************************************************************************)
EXTENDS TpmSession, FiniteSetTheorems, TLAPS

(***************************************************************************)
(* The inductive invariant.  Its heart is SpaceInv: while a session has    *)
(* the device open, what is loaded there and not lost is exactly what the  *)
(* session still has to flush or will hand to its signer.                  *)
(***************************************************************************)
HoldsParent(s) == pc[s] \in {"create", "load", "finish", "flushParent"}

HoldsChild(s) ==
  /\ child[s] # Zero
  /\ \/ pc[s] \in {"finish", "flushParent", "flushChild", "signer"}
     \/ At(s, "done") /\ success[s]

Held(s) ==
  {h \in Handles : (HoldsParent(s) /\ h = parent[s]) \/ (HoldsChild(s) /\ h = child[s])}

CallOK(s) ==
  /\ fd[s] <=> \/ pc[s] \in {"primary", "create", "load", "finish", "flushParent",
                             "flushChild", "close", "signer"}
               \/ At(s, "done") /\ success[s]
  /\ success[s] => pc[s] \in {"flushParent", "done"} /\ child[s] # Zero
  /\ HoldsParent(s) => parent[s] # Zero /\ parent[s] # child[s]
  /\ pc[s] \in {"idle", "store", "open", "primary", "create", "load"} => child[s] = Zero
  /\ pc[s] \in {"finish", "signer"} => child[s] # Zero

CallInv == \A s \in Sessions : CallOK(s)

RawInv ==
  /\ \A s, t \in Raw : fd[s] /\ fd[t] => s = t
  /\ \A s \in Raw : loaded[s] = {}

SpaceInv ==
  /\ \A x \in Spaces : lost[x] \subseteq loaded[x]
  /\ \A s \in Sessions : fd[s] => loaded[Space(s)] \ lost[Space(s)] = Held(s)
  /\ \A s \in Sessions \ Raw : ~fd[s] => loaded[s] = {}
  /\ (\A s \in Raw : ~fd[s]) => loaded[TheTPM] = lost[TheTPM]

IInv == TypeOK /\ CallInv /\ RawInv /\ SpaceInv

-----------------------------------------------------------------------------
\* What a session does to itself and to the handles it sees disturbs no other.
LEMMA Frame ==
  ASSUME IInv, TypeOK', NEW s \in Sessions,
         \A t \in Sessions \ {s} :
            /\ pc'[t] = pc[t] /\ success'[t] = success[t] /\ fd'[t] = fd[t]
            /\ parent'[t] = parent[t] /\ child'[t] = child[t],
         \A x \in Spaces \ {Space(s)} : loaded'[x] = loaded[x] /\ lost'[x] = lost[x],
         fd[s] \/ UNCHANGED spaceVars,
         CallOK(s)',
         lost'[Space(s)] \subseteq loaded'[Space(s)],
         fd'[s] => /\ loaded'[Space(s)] \ lost'[Space(s)] = Held(s)'
                   /\ fd[s] \/ (s \in Raw => \A t \in Raw : ~fd[t]),
         fd[s] /\ ~fd'[s] => IF s \in Raw THEN loaded'[TheTPM] = lost'[TheTPM]
                                          ELSE loaded'[s] = {}
  PROVE  IInv'
<1> USE TpmSessionAssumption
<1>1. \A t \in Sessions : Space(t) \in Spaces
  BY DEF Space, Spaces
<1>2. \A t \in Sessions \ {s} : Space(t) = Space(s) => t \in Raw /\ s \in Raw
  BY DEF Space
<1>3. CallInv'
  <2>1. \A t \in Sessions \ {s} : CallOK(t)'
    BY DEF IInv, CallInv, CallOK, HoldsParent, At
  <2> QED
    BY <2>1 DEF CallInv
<1>4. RawInv'
  <2>1. \A t \in Raw : loaded'[t] = loaded[t]
    BY DEF Space, Spaces
  <2> QED
    BY <2>1 DEF IInv, RawInv
<1>5. \A t \in Sessions \ {s} : fd[t] => UNCHANGED <<loaded[Space(t)], lost[Space(t)]>>
  BY <1>1, <1>2 DEF IInv, RawInv, spaceVars
<1>6. \A t \in Sessions : fd'[t] => loaded'[Space(t)] \ lost'[Space(t)] = Held(t)'
  <2>1. \A t \in Sessions \ {s} : Held(t)' = Held(t)
    BY DEF Held, HoldsParent, HoldsChild, At
  <2> QED
    BY <1>5, <2>1 DEF IInv, SpaceInv, Space
<1>7. \A x \in Spaces : lost'[x] \subseteq loaded'[x]
  BY DEF IInv, SpaceInv
<1>8. \A t \in Sessions \ Raw : ~fd'[t] => loaded'[t] = {}
  BY DEF IInv, SpaceInv, Space, Spaces, spaceVars
<1>9. (\A t \in Raw : ~fd'[t]) => loaded'[TheTPM] = lost'[TheTPM]
  BY DEF IInv, SpaceInv, Space, Spaces, spaceVars
<1> QED
  BY <1>3, <1>4, <1>6, <1>7, <1>8, <1>9 DEF IInv, SpaceInv, Space

LEMMA InitIInv == Init => IInv
<1> SUFFICES ASSUME Init PROVE IInv
  OBVIOUS
<1> USE TpmSessionAssumption DEF Init
<1>1. TypeOK
  BY DEF TypeOK, Locations
<1>2. CallInv
  BY DEF CallInv, CallOK, HoldsParent, At
<1>3. RawInv
  BY DEF RawInv, Spaces
<1>4. SpaceInv
  BY DEF SpaceInv, Spaces, Space
<1> QED
  BY <1>1, <1>2, <1>3, <1>4 DEF IInv

-----------------------------------------------------------------------------
(***************************************************************************)
(* One lemma per action                                                    *)
(***************************************************************************)

\* A step of s that leaves the device and the handles alone.
LEMMA QuietStep ==
  ASSUME IInv, TypeOK', NEW s \in Sessions,
         \A t \in Sessions \ {s} :
            /\ pc'[t] = pc[t] /\ success'[t] = success[t]
            /\ parent'[t] = parent[t] /\ child'[t] = child[t],
         UNCHANGED <<fd, spaceVars>>,
         CallOK(s)',
         fd[s] => Held(s)' = Held(s)
  PROVE  IInv'
<1>1. Space(s) \in Spaces
  BY DEF Space, Spaces
<1> QED
  BY <1>1, Frame DEF IInv, SpaceInv, spaceVars

LEMMA CallStep == ASSUME IInv, NEW s \in Sessions, Call(s) PROVE IInv'
<1> USE DEF IInv, Call, At, Goto
<1>1. TypeOK'
  BY DEF TypeOK, Locations, spaceVars
<1>2. CallOK(s) /\ CallOK(s)' /\ ~fd[s]
  BY DEF CallInv, CallOK, HoldsParent, TypeOK
<1> QED
  BY <1>1, <1>2, QuietStep DEF TypeOK

LEMMA LookAtStoreStep == ASSUME IInv, NEW s \in Sessions, LookAtStore(s) PROVE IInv'
<1> USE DEF IInv, LookAtStore, At, Goto
<1>1. TypeOK'
  BY DEF TypeOK, Locations, spaceVars
<1>2. CallOK(s) /\ CallOK(s)' /\ ~fd[s]
  BY DEF CallInv, CallOK, HoldsParent, TypeOK
<1> QED
  BY <1>1, <1>2, QuietStep DEF TypeOK

LEMMA OpenTPMStep == ASSUME IInv, NEW s \in Sessions, OpenTPM(s) PROVE IInv'
<1> USE TpmSessionAssumption DEF IInv, OpenTPM, At, Goto
<1>1. TypeOK'
  BY DEF TypeOK, Locations, spaceVars
<1>2. CallOK(s) /\ CallOK(s)' /\ ~fd[s] /\ child[s] = Zero
  BY DEF CallInv, CallOK, HoldsParent, TypeOK
<1>3. CASE fd'[s]
  <2>1. Held(s)' = {}
    BY <1>2, <1>3 DEF Held, HoldsParent, HoldsChild, TypeOK
  <2>2. CanOpen(s)
    BY <1>2, <1>3 DEF TypeOK
  <2>3. loaded[Space(s)] = lost[Space(s)] \/ loaded[Space(s)] = {}
    BY <1>2, <2>2 DEF CanOpen, SpaceInv, Space
  <2> QED
    BY <1>1, <1>2, <2>1, <2>2, <2>3, Frame
    DEF TypeOK, SpaceInv, CanOpen, Space, Spaces, spaceVars
<1>4. CASE ~fd'[s]
  BY <1>1, <1>2, <1>4, QuietStep DEF TypeOK
<1> QED
  BY <1>3, <1>4

\* A command that loads an object: the session holds one handle more.
LEMMA LoadStep ==
  ASSUME IInv, TypeOK', NEW s \in Sessions, NEW h \in Unused(s),
         Occupy(s, h), UNCHANGED <<fd, lost>>,
         \A t \in Sessions \ {s} :
            /\ pc'[t] = pc[t] /\ success'[t] = success[t]
            /\ parent'[t] = parent[t] /\ child'[t] = child[t],
         fd[s], CallOK(s)',
         Held(s)' = Held(s) \union {h}
  PROVE  IInv'
<1>1. Space(s) \in Spaces
  BY DEF Space, Spaces
<1>2. /\ loaded'[Space(s)] = loaded[Space(s)] \union {h}
      /\ \A x \in Spaces \ {Space(s)} : loaded'[x] = loaded[x]
  BY <1>1 DEF Occupy, IInv, TypeOK
<1>3. h \notin lost[Space(s)]
  BY <1>1 DEF Unused, IInv, SpaceInv
<1>4. loaded'[Space(s)] \ lost'[Space(s)] = Held(s)'
  BY <1>2, <1>3 DEF IInv, SpaceInv
<1> QED
  BY <1>1, <1>2, <1>4, Frame DEF IInv, CallInv, SpaceInv, CallOK

\* A flush, failed or not, of a handle of the session: it holds it no more.
LEMMA FlushStep ==
  ASSUME IInv, TypeOK', NEW s \in Sessions, NEW h \in Held(s) \union {Zero},
         Flush(s, h), UNCHANGED fd,
         \A t \in Sessions \ {s} :
            /\ pc'[t] = pc[t] /\ success'[t] = success[t]
            /\ parent'[t] = parent[t] /\ child'[t] = child[t],
         fd[s], CallOK(s)',
         Held(s)' = Held(s) \ {h}
  PROVE  IInv'
<1> USE TpmSessionAssumption
<1>1. Space(s) \in Spaces
  BY DEF Space, Spaces
<1>2. \A x \in Spaces \ {Space(s)} : loaded'[x] = loaded[x] /\ lost'[x] = lost[x]
  BY <1>1 DEF Flush, Release, Lose, IInv, TypeOK, spaceVars
<1>3. Held(s) = loaded[Space(s)] \ lost[Space(s)]
  BY DEF IInv, SpaceInv
<1>4. Zero \notin Held(s)
  BY DEF Held
<1>5. /\ loaded'[Space(s)] \ lost'[Space(s)] = Held(s)'
      /\ lost'[Space(s)] \subseteq loaded'[Space(s)]
  <2>1. lost[Space(s)] \subseteq loaded[Space(s)]
    BY <1>1 DEF IInv, SpaceInv
  <2>2. CASE h # Zero /\ Release(s, h) /\ UNCHANGED lost
    BY <1>1, <1>3, <2>1, <2>2 DEF Release, IInv, TypeOK
  <2>3. CASE (~fd[s] \/ h = Zero) /\ UNCHANGED spaceVars
    BY <1>3, <1>4, <2>1, <2>3 DEF spaceVars
  <2>4. CASE Lose(s, {h}) /\ UNCHANGED loaded
    BY <1>1, <1>3, <1>4, <2>1, <2>4 DEF Lose, IInv, TypeOK
  <2> QED
    BY <2>2, <2>3, <2>4 DEF Flush
<1> QED
  BY <1>1, <1>2, <1>5, Frame DEF IInv, TypeOK

\* A command that loads an object and fails: the session holds what it held.
LEMMA LoadFailsStep ==
  ASSUME IInv, TypeOK', NEW s \in Sessions, LoadFails(s), UNCHANGED fd,
         \A t \in Sessions \ {s} :
            /\ pc'[t] = pc[t] /\ success'[t] = success[t]
            /\ parent'[t] = parent[t] /\ child'[t] = child[t],
         fd[s], CallOK(s)',
         Held(s)' = Held(s)
  PROVE  IInv'
<1>1. CASE UNCHANGED spaceVars
  BY <1>1, QuietStep
<1>2. ASSUME NEW h \in Unused(s), Occupy(s, h),
             lost' = [lost EXCEPT ![Space(s)] = @ \union {h}]
      PROVE  IInv'
  <2>1. Space(s) \in Spaces
    BY DEF Space, Spaces
  <2>2. /\ loaded'[Space(s)] = loaded[Space(s)] \union {h}
        /\ lost'[Space(s)] = lost[Space(s)] \union {h}
        /\ \A x \in Spaces \ {Space(s)} : loaded'[x] = loaded[x] /\ lost'[x] = lost[x]
    BY <1>2, <2>1 DEF Occupy, IInv, TypeOK
  <2>3. /\ lost[Space(s)] \subseteq loaded[Space(s)]
        /\ h \notin loaded[Space(s)]
        /\ loaded[Space(s)] \ lost[Space(s)] = Held(s)
    BY <2>1 DEF Unused, IInv, SpaceInv
  <2>4. /\ loaded'[Space(s)] \ lost'[Space(s)] = Held(s)'
        /\ lost'[Space(s)] \subseteq loaded'[Space(s)]
    BY <2>2, <2>3
  <2> QED
    BY <2>1, <2>2, <2>4, Frame DEF IInv, TypeOK
<1> QED
  BY <1>1, <1>2 DEF LoadFails

LEMMA CreatePrimaryStep == ASSUME IInv, NEW s \in Sessions, CreatePrimary(s) PROVE IInv'
<1> USE TpmSessionAssumption DEF IInv, CreatePrimary, At, Goto
<1>1. Space(s) \in Spaces
  BY DEF Space, Spaces
<1>2. TypeOK'
  BY <1>1 DEF TypeOK, Locations, Occupy, Unused, LoadFails, spaceVars
<1>3. CallOK(s) /\ CallOK(s)' /\ fd[s] /\ child[s] = Zero
  BY DEF CallInv, CallOK, HoldsParent, TypeOK, Unused
<1>4. ASSUME NEW h \in Unused(s), Occupy(s, h), parent' = [parent EXCEPT ![s] = h],
             pc' = [pc EXCEPT ![s] = IF op[s] = "create" THEN "create" ELSE "load"]
      PROVE  IInv'
  <2>1. Held(s) = {} /\ Held(s)' = {h}
    BY <1>3, <1>4 DEF Held, HoldsParent, HoldsChild, TypeOK, Unused
  <2> QED
    BY <1>2, <1>3, <1>4, <2>1, LoadStep DEF TypeOK
<1>5. CASE LoadFails(s) /\ pc' = [pc EXCEPT ![s] = "flushChild"] /\ UNCHANGED parent
  <2>1. Held(s) = {} /\ Held(s)' = {}
    BY <1>3, <1>5 DEF Held, HoldsParent, HoldsChild, TypeOK
  <2> QED
    BY <1>2, <1>3, <1>5, <2>1, LoadFailsStep DEF TypeOK
<1> QED
  BY <1>4, <1>5

LEMMA CreateChildStep == ASSUME IInv, NEW s \in Sessions, CreateChild(s) PROVE IInv'
<1> USE DEF IInv, CreateChild, At, Goto
<1>1. TypeOK'
  BY DEF TypeOK, Locations, spaceVars
<1>2. CallOK(s) /\ CallOK(s)'
  BY DEF CallInv, CallOK, HoldsParent, TypeOK
<1>3. Held(s)' = Held(s)
  BY <1>2 DEF Held, HoldsParent, HoldsChild, TypeOK, CallOK
<1> QED
  BY <1>1, <1>2, <1>3, QuietStep DEF TypeOK

LEMMA LoadChildStep == ASSUME IInv, NEW s \in Sessions, LoadChild(s) PROVE IInv'
<1> USE TpmSessionAssumption DEF IInv, LoadChild, At, Goto
<1>1. Space(s) \in Spaces
  BY DEF Space, Spaces
<1>2. TypeOK'
  BY <1>1 DEF TypeOK, Locations, Occupy, Unused, LoadFails, spaceVars
<1>3. CallOK(s) /\ fd[s] /\ child[s] = Zero /\ parent[s] # Zero
  BY DEF CallInv, CallOK, HoldsParent, TypeOK
<1>4. parent[s] \in Handles
  BY <1>3 DEF TypeOK
<1>5. parent[s] \in loaded[Space(s)]
  <2>1. parent[s] \in Held(s)
    BY <1>4 DEF Held, HoldsParent
  <2> QED
    BY <1>3, <2>1 DEF SpaceInv
<1>6. CallOK(s)'
  BY <1>3, <1>5 DEF CallOK, HoldsParent, TypeOK, Unused
<1>7. ASSUME NEW h \in Unused(s), Occupy(s, h), child' = [child EXCEPT ![s] = h],
             pc' = [pc EXCEPT ![s] = "finish"]
      PROVE  IInv'
  <2>1. Held(s) = {parent[s]} /\ Held(s)' = {parent[s], h}
    BY <1>3, <1>4, <1>7 DEF Held, HoldsParent, HoldsChild, TypeOK, Unused
  <2> QED
    BY <1>2, <1>3, <1>6, <1>7, <2>1, LoadStep DEF TypeOK
<1>8. CASE LoadFails(s) /\ pc' = [pc EXCEPT ![s] = "flushParent"] /\ UNCHANGED child
  <2>1. Held(s)' = Held(s)
    BY <1>3, <1>8 DEF Held, HoldsParent, HoldsChild, TypeOK
  <2> QED
    BY <1>2, <1>3, <1>6, <1>8, <2>1, LoadFailsStep DEF TypeOK
<1> QED
  BY <1>7, <1>8

LEMMA FinishCallStep == ASSUME IInv, NEW s \in Sessions, FinishCall(s) PROVE IInv'
<1> USE DEF IInv, FinishCall, At, Goto
<1>1. TypeOK'
  BY DEF TypeOK, Locations, spaceVars
<1>2. CallOK(s) /\ CallOK(s)'
  BY DEF CallInv, CallOK, HoldsParent, TypeOK
<1>3. Held(s)' = Held(s)
  BY DEF Held, HoldsParent, HoldsChild, TypeOK
<1> QED
  BY <1>1, <1>2, <1>3, QuietStep DEF TypeOK

LEMMA FlushParentStep == ASSUME IInv, NEW s \in Sessions, FlushParent(s) PROVE IInv'
<1> USE TpmSessionAssumption DEF IInv, FlushParent, At, Goto, AfterParent
<1>1. Space(s) \in Spaces
  BY DEF Space, Spaces
<1>2. TypeOK'
  BY <1>1 DEF TypeOK, Locations, Flush, Release, Lose, spaceVars
<1>3. CallOK(s) /\ CallOK(s)' /\ fd[s]
  BY DEF CallInv, CallOK, HoldsParent, TypeOK
<1>4. parent[s] \in Held(s)
  BY <1>3 DEF Held, HoldsParent, CallOK, TypeOK
<1>5. Held(s)' = Held(s) \ {parent[s]}
  BY <1>3 DEF Held, HoldsParent, HoldsChild, CallOK, TypeOK
<1> QED
  BY <1>2, <1>3, <1>4, <1>5, FlushStep DEF TypeOK

LEMMA FlushChildStep == ASSUME IInv, NEW s \in Sessions, FlushChild(s) PROVE IInv'
<1> USE TpmSessionAssumption DEF IInv, FlushChild, At, Goto
<1>1. Space(s) \in Spaces
  BY DEF Space, Spaces
<1>2. TypeOK'
  BY <1>1 DEF TypeOK, Locations, Flush, Release, Lose, spaceVars
<1>3. CallOK(s) /\ CallOK(s)' /\ fd[s]
  BY DEF CallInv, CallOK, HoldsParent, TypeOK
<1>4. child[s] \in Held(s) \union {Zero}
  BY <1>3 DEF Held, HoldsChild, TypeOK
<1>5. Held(s)' = Held(s) \ {child[s]}
  BY <1>3 DEF Held, HoldsParent, HoldsChild, TypeOK
<1> QED
  BY <1>2, <1>3, <1>4, <1>5, FlushStep DEF TypeOK

LEMMA CloseDeviceStep == ASSUME IInv, NEW s \in Sessions, CloseDevice(s) PROVE IInv'
<1> USE TpmSessionAssumption DEF IInv, CloseDevice, Drop, At, Goto
<1>1. Space(s) \in Spaces /\ s \in Spaces
  BY DEF Space, Spaces
<1>2. TypeOK'
  BY <1>1 DEF TypeOK, Locations, spaceVars
<1>3. CallOK(s) /\ CallOK(s)' /\ fd[s] /\ ~fd'[s]
  BY DEF CallInv, CallOK, HoldsParent, TypeOK
<1>4. Held(s) = {}
  BY DEF Held, HoldsParent, HoldsChild
<1>5. CASE s \in Raw
  <2>1. loaded[TheTPM] = lost[TheTPM]
    BY <1>1, <1>3, <1>4, <1>5 DEF SpaceInv, Space
  <2> QED
    BY <1>1, <1>2, <1>3, <1>5, <2>1, Frame DEF TypeOK, SpaceInv, spaceVars
<1>6. CASE s \notin Raw
  <2>1. /\ loaded' = [loaded EXCEPT ![s] = {}]
        /\ lost' = [lost EXCEPT ![s] = {}]
    BY <1>6
  <2> QED
    BY <1>1, <1>2, <1>3, <1>6, <2>1, Frame DEF TypeOK, Space
<1> QED
  BY <1>5, <1>6

LEMMA ReturnSignerStep == ASSUME IInv, NEW s \in Sessions, ReturnSigner(s) PROVE IInv'
<1> USE DEF IInv, ReturnSigner, Clear, At, Goto
<1>1. TypeOK'
  BY DEF TypeOK, Locations, spaceVars
<1>2. CallOK(s) /\ CallOK(s)'
  BY DEF CallInv, CallOK, HoldsParent, TypeOK
<1>3. Held(s)' = Held(s)
  BY DEF Held, HoldsParent, HoldsChild, TypeOK
<1> QED
  BY <1>1, <1>2, <1>3, QuietStep DEF TypeOK

LEMMA ReturnNothingStep == ASSUME IInv, NEW s \in Sessions, ReturnNothing(s) PROVE IInv'
<1> USE DEF IInv, ReturnNothing, Clear, At, Goto
<1>1. TypeOK'
  BY DEF TypeOK, Locations, spaceVars
<1>2. CallOK(s) /\ CallOK(s)' /\ ~fd[s]
  BY DEF CallInv, CallOK, HoldsParent, TypeOK
<1> QED
  BY <1>1, <1>2, QuietStep DEF TypeOK

LEMMA CallCloseStep == ASSUME IInv, NEW s \in Sessions, CallClose(s) PROVE IInv'
<1> USE DEF IInv, CallClose, At, Goto
<1>1. TypeOK'
  BY DEF TypeOK, Locations, spaceVars
<1>2. CallOK(s) /\ CallOK(s)'
  BY DEF CallInv, CallOK, HoldsParent, TypeOK
<1>3. Held(s)' = Held(s)
  BY DEF Held, HoldsParent, HoldsChild, TypeOK
<1> QED
  BY <1>1, <1>2, <1>3, QuietStep DEF TypeOK

LEMMA ExitStep == ASSUME IInv, NEW s \in Sessions, Exit(s) PROVE IInv'
<1> USE TpmSessionAssumption DEF IInv, Exit, Clear, Drop, At, Goto
<1>1. Space(s) \in Spaces /\ s \in Spaces
  BY DEF Space, Spaces
<1>2. TypeOK'
  BY <1>1 DEF TypeOK, Locations, Lose
<1>3. CallOK(s)' /\ ~fd'[s]
  BY DEF CallOK, HoldsParent, TypeOK
<1>4. CASE s \in Raw
  <2>1. lost' = [lost EXCEPT ![TheTPM] =
                   @ \union ((IF fd[s] THEN {parent[s], child[s]} ELSE {})
                               \intersect loaded[TheTPM])]
    BY <1>4 DEF Lose, Space
  <2>2. ~fd[s] => lost' = lost
    BY <1>2, <2>1 DEF TypeOK
  <2>3. lost'[TheTPM] \subseteq loaded[TheTPM]
    BY <2>1 DEF SpaceInv, TypeOK, Spaces
  <2>4. fd[s] => loaded[TheTPM] = lost'[TheTPM]
    <3> SUFFICES ASSUME fd[s] PROVE loaded[TheTPM] \subseteq lost'[TheTPM]
      BY <2>3
    <3>1. loaded[TheTPM] \ lost[TheTPM] \subseteq {parent[s], child[s]}
      BY <1>4 DEF SpaceInv, Space, Held
    <3> QED
      BY <2>1, <3>1 DEF TypeOK, Spaces
  <2>5. \A x \in Spaces \ {TheTPM} : lost'[x] = lost[x]
    BY <2>1 DEF TypeOK
  <2> QED
    BY <1>2, <1>3, <1>4, <2>2, <2>3, <2>4, <2>5, Frame DEF TypeOK, Space, spaceVars
<1>5. CASE s \notin Raw
  <2>1. /\ loaded' = [loaded EXCEPT ![s] = {}]
        /\ lost' = [lost EXCEPT ![s] = {}]
    BY <1>5
  <2>2. ~fd[s] => UNCHANGED spaceVars
    BY <1>1, <1>5, <2>1 DEF SpaceInv, TypeOK, spaceVars
  <2> QED
    BY <1>1, <1>2, <1>3, <1>5, <2>1, <2>2, Frame DEF TypeOK, Space
<1> QED
  BY <1>4, <1>5

LEMMA NextIInv == IInv /\ [Next]_vars => IInv'
<1> SUFFICES ASSUME IInv, [Next]_vars PROVE IInv'
  OBVIOUS
<1>1. CASE UNCHANGED vars
  BY <1>1
  DEF vars, spaceVars, IInv, TypeOK, CallInv, CallOK, RawInv, SpaceInv, Held,
      HoldsParent, HoldsChild, At
<1> QED
  BY <1>1, CallStep, LookAtStoreStep, OpenTPMStep, CreatePrimaryStep, CreateChildStep,
     LoadChildStep, FinishCallStep, FlushParentStep, FlushChildStep, CloseDeviceStep,
     ReturnSignerStep, ReturnNothingStep, CallCloseStep, ExitStep
  DEF Next

LEMMA Inductive == Spec => []IInv
<1>1. Init => IInv
  BY InitIInv
<1>2. IInv /\ [Next]_vars => IInv'
  BY NextIInv
<1> QED
  BY <1>1, <1>2, PTL DEF Spec

-----------------------------------------------------------------------------
(***************************************************************************)
(* Theorems                                                                *)
(***************************************************************************)

\* Every variable of TpmSession keeps its type, whatever fails.
THEOREM TypeCorrect == Spec => []TypeOK
<1>1. IInv => TypeOK
  BY DEF IInv
<1> QED
  BY <1>1, Inductive, PTL

\* The deferred calls of createKey and loadKey spare the child and the device
\* of a signer that is returned.
THEOREM ReturnedSignersAreReady == Spec => []SignerIsReady
<1>1. IInv => SignerIsReady
  <2> SUFFICES ASSUME IInv, NEW s \in Sessions,
                      At(s, "signer") \/ (At(s, "done") /\ success[s])
               PROVE  fd[s] /\ child[s] \in loaded[Space(s)]
    BY DEF SignerIsReady
  <2>1. fd[s] /\ child[s] # Zero
    BY DEF IInv, CallInv, CallOK, At
  <2>2. child[s] \in Held(s)
    BY <2>1 DEF Held, HoldsChild, IInv, TypeOK, At
  <2> QED
    BY <2>1, <2>2 DEF IInv, SpaceInv
<1> QED
  BY <1>1, Inductive, PTL

\* A call that fails, and a Close, leave the device closed, and nothing loaded
\* in the resource manager.
THEOREM FailuresRelease == Spec => []FailureReleases
<1>1. IInv => FailureReleases
  BY DEF IInv, CallInv, CallOK, SpaceInv, FailureReleases, At
<1> QED
  BY <1>1, Inductive, PTL

\* What is loaded belongs to a session that has the device open, or was left by
\* a failed flush, by a response that was lost, or by the end of a process on a
\* raw device.
THEOREM NothingIsLeaked == Spec => []NothingLeaks
<1>1. IInv => NothingLeaks
  <2> SUFFICES ASSUME IInv PROVE NothingLeaks
    OBVIOUS
  <2> USE TpmSessionAssumption DEF IInv
  <2>1. \A s \in Sessions : Held(s) \subseteq {parent[s], child[s]}
    BY DEF Held
  <2>2. ASSUME NEW x \in Spaces, NEW h \in loaded[x] \ lost[x]
        PROVE  \E s \in Sessions : x = Space(s) /\ fd[s] /\ h \in {parent[s], child[s]}
    <3>1. CASE x = TheTPM
      BY <2>1, <2>2, <3>1 DEF SpaceInv, Space
    <3>2. CASE x \in Sessions
      BY <2>1, <2>2, <3>2 DEF SpaceInv, RawInv, Space
    <3> QED
      BY <3>1, <3>2 DEF Spaces
  <2>3. \A s \in Sessions \ Raw : loaded[s] # {} => fd[s]
    BY DEF SpaceInv
  <2> QED
    BY <2>2, <2>3 DEF NothingLeaks
<1> QED
  BY <1>1, Inductive, PTL

\* Any number of sessions, of calls and of failures can be served by a device
\* with two handles that are not lost.
THEOREM TwoHandlesAreEnough == Spec => []TwoHandlesSuffice
<1>1. IInv => TwoHandlesSuffice
  <2> SUFFICES ASSUME IInv, NEW s \in Sessions, pc[s] \in {"primary", "load"},
                      Cardinality(Handles \ lost[Space(s)]) >= 2, Unused(s) = {}
               PROVE  FALSE
    BY DEF TwoHandlesSuffice
  <2>1. loaded[Space(s)] \ lost[Space(s)] = Held(s)
    BY DEF IInv, CallInv, CallOK, SpaceInv
  <2>2. Held(s) \subseteq {parent[s]}
    BY DEF Held, HoldsChild, IInv, CallInv, CallOK, At
  <2>3. Handles \ lost[Space(s)] \subseteq {parent[s]}
    BY <2>1, <2>2 DEF Unused
  <2>4. CASE Handles \ lost[Space(s)] = {}
    BY <2>4, FS_EmptySet
  <2>5. CASE Handles \ lost[Space(s)] = {parent[s]}
    <3>1. Cardinality({parent[s]}) = 1
      BY FS_Singleton
    <3> QED
      BY <2>5, <3>1
  <2> QED
    BY <2>3, <2>4, <2>5
<1> QED
  BY <1>1, Inductive, PTL

=============================================================================
