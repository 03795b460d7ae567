------------------------------ MODULE Commands ------------------------------
(***************************************************************************)
(* The program's commands (main.go, cert.go) on top of the key store of    *)
(* KeyStore: several processes run "create", "delete" and "certtest" on    *)
(* one store.  A command calls the backend, which decides the call at any  *)
(* later time, and goes on with the result.  log.Fatalf ends the process   *)
(* on the spot: no deferred call runs.                                     *)
(*                                                                         *)
(* Failing says what may fail: "create" and "delete", the backend calls;   *)
(* "sign", a signature; "verify", a step of runCertTest between or after   *)
(* the signatures; "kill", the process itself, at any point.  SignOps is   *)
(* the length of certtest's timing loop.                                   *)
(***************************************************************************)
EXTENDS KeyStore, Naturals

CONSTANTS Uuids, SignOps, Failing

ASSUME CommandsAssumption ==
  /\ Uuids \subseteq Names  \* names that only uuid.NewString makes
  /\ NoKey \notin Keys
  /\ MayOrphan \in BOOLEAN
  /\ SignOps \in Nat
  /\ Failing \subseteq {"create", "delete", "sign", "verify", "kill"}

VARIABLES
  pc,        \* pc[p]: what the command does next
  cmd,       \* cmd[p]: "create", "delete", "certtest" or "none"
  keyName,   \* keyName[p]: its *name
  signer,    \* signer[p]: the key of its open signer, or NoKey
  signs,     \* signs[p]: the signatures made so far
  status,    \* status[p]: "running", "ok", "fatal" or "killed"
  drawn,     \* the uuids drawn so far: none is drawn twice
  printed,   \* the names a user can know: chosen, or printed by a command
  (*************************************************************************)
  (* History                                                               *)
  (*************************************************************************)
  effect,    \* effect[p]: the key that p's command has last bound or unbound
  removed    \* the keys that were unbound

cliVars  == <<pc, cmd, keyName, signer, signs, status, drawn, printed>>
histVars == <<effect, removed>>
cvars    == <<vars, cliVars, histVars>>

Locations == {"idle", "call", "sign", "verify", "close", "exited"}

CInit ==
  /\ Init
  /\ pc = [p \in Procs |-> "idle"]
  /\ cmd = [p \in Procs |-> "none"]
  /\ keyName = [p \in Procs |-> NoName]
  /\ signer = [p \in Procs |-> NoKey]
  /\ signs = [p \in Procs |-> 0]
  /\ status = [p \in Procs |-> "running"]
  /\ drawn = {}
  /\ printed = Names \ Uuids
  /\ effect = [p \in Procs |-> NoKey]
  /\ removed = {}

At(p, l)     == pc[p] = l
Goto(p, l)   == pc' = [pc EXCEPT ![p] = l]
Exit(p, s)   == Goto(p, "exited") /\ status' = [status EXCEPT ![p] = s]

Start(p, c, n, o) ==
  /\ At(p, "idle")
  /\ cmd' = [cmd EXCEPT ![p] = c]
  /\ keyName' = [keyName EXCEPT ![p] = n]
  /\ Goto(p, "call")
  /\ Invoke(p, o, n)
  /\ UNCHANGED <<signer, signs, status, printed, histVars>>

(***************************************************************************)
(* The random name of certtest, and of create without -name.               *)
(***************************************************************************)
StartCreate(p) ==
  \/ \E n \in printed : Start(p, "create", n, "create") /\ UNCHANGED drawn
  \/ \E n \in Uuids \ drawn :
        Start(p, "create", n, "create") /\ drawn' = drawn \union {n}

StartDelete(p) ==
  \E n \in printed : Start(p, "delete", n, "delete") /\ UNCHANGED drawn

MutStartCerttestFixedName(p) ==
  \E n \in Names : Start(p, "certtest", n, "create") /\ UNCHANGED drawn

StartCerttest(p) ==
  \E n \in Uuids \ drawn :
     Start(p, "certtest", n, "create") /\ drawn' = drawn \union {n}

(***************************************************************************)
(* The backend decides the call.  With every key issued (the bound on      *)
(* creates) a create fails.                                                *)
(***************************************************************************)
Record(p) ==
  LET before == store[name[p]]
      after  == store'[name[p]]
  IN  /\ effect' = [effect EXCEPT ![p] = IF after = before THEN @
                                         ELSE IF after = NoKey THEN before ELSE after]
      /\ removed' = removed \union ({before} \ {after, NoKey})

Backend(p) ==
  /\ \/ Bind(p) \/ Exists(p) \/ Orphan(p)
     \/ Unbind(p) \/ NotFound(p)
     \/ Fail(p) /\ (op[p] \in Failing \/ (op[p] = "create" /\ Keys \subseteq issued))
  /\ Record(p)
  /\ UNCHANGED cliVars

\* The call returns its result to the command.
Returned(p) ==
  /\ At(p, "call")
  /\ res[p] # "none"
  /\ Leave(p)

(***************************************************************************)
(* runCreate and runDelete: the deferred Close is the last step of create. *)
(***************************************************************************)
FinishCreate(p) ==
  /\ Returned(p)
  /\ cmd[p] = "create"
  /\ Exit(p, IF res[p] = "ok" THEN "ok" ELSE "fatal")
  /\ printed' = IF res[p] = "ok" THEN printed \union {keyName[p]} ELSE printed
  /\ UNCHANGED <<cmd, keyName, signer, signs, drawn, histVars>>

MutFinishDeleteIgnoresError(p) ==
  /\ Returned(p)
  /\ cmd[p] = "delete"
  /\ Exit(p, "ok")
  /\ UNCHANGED <<cmd, keyName, signer, signs, drawn, printed, histVars>>

FinishDelete(p) ==
  /\ Returned(p)
  /\ cmd[p] = "delete"
  /\ Exit(p, IF res[p] = "ok" THEN "ok" ELSE "fatal")
  /\ UNCHANGED <<cmd, keyName, signer, signs, drawn, printed, histVars>>

(***************************************************************************)
(* runCertTestCmd, from createKey on: runCertTest signs the root and the   *)
(* leaf and checks the chain, then the timing loop signs SignOps times.    *)
(***************************************************************************)
BeginTest(p) ==
  /\ Returned(p)
  /\ cmd[p] = "certtest"
  /\ op[p] = "create"
  /\ \/ /\ res[p] = "ok"
        /\ signer' = [signer EXCEPT ![p] = got[p]]
        /\ Goto(p, "sign")
        /\ UNCHANGED status
     \/ /\ res[p] # "ok"
        /\ Exit(p, "fatal")
        /\ UNCHANGED signer
  /\ UNCHANGED <<cmd, keyName, signs, drawn, printed, histVars>>

CertSigns == 2  \* the root and the leaf

MutAfterSignOffByOne(n) ==
  CASE n = CertSigns -> "verify"
    [] n = CertSigns + SignOps + 1 -> "close"
    [] OTHER -> "sign"

AfterSign(n) ==
  CASE n = CertSigns -> "verify"
    [] n = CertSigns + SignOps -> "close"
    [] OTHER -> "sign"

SignOnce(p) ==
  /\ At(p, "sign")
  /\ \/ /\ signs' = [signs EXCEPT ![p] = @ + 1]
        /\ Goto(p, AfterSign(signs[p] + 1))
        /\ UNCHANGED status
     \/ /\ "sign" \in Failing
        /\ Exit(p, "fatal")
        /\ UNCHANGED signs
  /\ UNCHANGED <<vars, cmd, keyName, signer, drawn, printed, histVars>>

Verify(p) ==
  /\ At(p, "verify")
  /\ \/ Goto(p, IF SignOps = 0 THEN "close" ELSE "sign") /\ UNCHANGED status
     \/ "verify" \in Failing /\ Exit(p, "fatal")
  /\ UNCHANGED <<vars, cmd, keyName, signer, signs, drawn, printed, histVars>>

(***************************************************************************)
(* The deferred function: Close, then deleteKey, whose error is only       *)
(* logged, with the name of the key.                                       *)
(***************************************************************************)
CloseAndDelete(p) ==
  /\ At(p, "close")
  /\ signer' = [signer EXCEPT ![p] = NoKey]
  /\ Goto(p, "call")
  /\ Invoke(p, "delete", keyName[p])
  /\ UNCHANGED <<cmd, keyName, signs, status, drawn, printed, histVars>>

MutFinishTestRetriesDelete(p) ==
  /\ Returned(p)
  /\ cmd[p] = "certtest"
  /\ op[p] = "delete"
  /\ IF res[p] = "ok" THEN Exit(p, "ok") ELSE Goto(p, "close") /\ UNCHANGED status
  /\ UNCHANGED <<cmd, keyName, signer, signs, drawn, printed, histVars>>

FinishTest(p) ==
  /\ Returned(p)
  /\ cmd[p] = "certtest"
  /\ op[p] = "delete"
  /\ Exit(p, "ok")
  /\ printed' = IF res[p] = "ok" THEN printed ELSE printed \union {keyName[p]}
  /\ UNCHANGED <<cmd, keyName, signer, signs, drawn, histVars>>

\* The process dies, in the middle of a call perhaps.
Kill(p) ==
  /\ "kill" \in Failing
  /\ ~At(p, "idle") /\ ~At(p, "exited")
  /\ IF op[p] = "none" THEN UNCHANGED vars ELSE Leave(p)
  /\ Exit(p, "killed")
  /\ UNCHANGED <<cmd, keyName, signer, signs, drawn, printed, histVars>>

\* The process is gone, and with it its signer; another command may run.
Reap(p) ==
  /\ At(p, "exited")
  /\ Goto(p, "idle")
  /\ cmd' = [cmd EXCEPT ![p] = "none"]
  /\ keyName' = [keyName EXCEPT ![p] = NoName]
  /\ signer' = [signer EXCEPT ![p] = NoKey]
  /\ signs' = [signs EXCEPT ![p] = 0]
  /\ status' = [status EXCEPT ![p] = "running"]
  /\ effect' = [effect EXCEPT ![p] = NoKey]
  /\ UNCHANGED <<vars, drawn, printed, removed>>

Run(p) ==
  \/ Backend(p)
  \/ FinishCreate(p) \/ FinishDelete(p)
  \/ BeginTest(p) \/ SignOnce(p) \/ Verify(p)
  \/ CloseAndDelete(p) \/ FinishTest(p)

CNext ==
  \E p \in Procs :
     \/ StartCreate(p) \/ StartDelete(p) \/ StartCerttest(p)
     \/ Run(p)
     \/ Kill(p) \/ Reap(p)

CSpec == CInit /\ [][CNext]_cvars

\* The backend answers and the processes run on.
FairCSpec == CSpec /\ \A p \in Procs : WF_cvars(Run(p))

-----------------------------------------------------------------------------
(***************************************************************************)
(* Correctness                                                             *)
(***************************************************************************)

\* Every variable of the commands has its type.
CTypeOK ==
  /\ pc \in [Procs -> Locations]
  /\ cmd \in [Procs -> {"none", "create", "delete", "certtest"}]
  /\ keyName \in [Procs -> Names \union {NoName}]
  /\ signer \in [Procs -> Keys \union {NoKey}]
  /\ signs \in [Procs -> 0 .. CertSigns + SignOps]
  /\ status \in [Procs -> {"running", "ok", "fatal", "killed"}]
  /\ drawn \subseteq Uuids
  /\ printed \subseteq Names
  /\ effect \in [Procs -> Keys \union {NoKey}]
  /\ removed \subseteq Keys

\* The key that certtest signs with is the one under its random name, and stays
\* there until certtest deletes it, whatever other processes create and delete.
SigningKeyIsBound ==
  \A p \in Procs : signer[p] # NoKey => store[keyName[p]] = signer[p]

\* While certtest runs nobody else uses the name of its key (main.go:91): its
\* calls are exclusive, which is what the macOS backend needs of its users.
CerttestIsAlone ==
  \A p, q \in Procs :
     p # q /\ cmd[p] = "certtest" /\ status[p] # "ok" /\ cmd[q] # "none" =>
        keyName[q] # keyName[p]

\* "Create a throwaway key ... then delete the key" (main.go:46-47): when
\* certtest has ended, the key it made is not in the store.
ThrowawayDeleted ==
  \A p \in Procs :
     At(p, "exited") /\ cmd[p] = "certtest" => store[keyName[p]] = NoKey

\* A key that a user can name is unbound only by a "delete" of that name: no
\* certtest destroys it.
NamedKeysAreKept ==
  [][\A n \in printed :
        store[n] # NoKey /\ store'[n] # store[n] =>
           \E p \in Procs : cmd[p] = "delete" /\ keyName[p] = n]_cvars

\* A command that exits with status 0 has done its work.  Create has bound a key
\* of its own, under a name that the user knows, where it stays until somebody
\* unbinds it; delete has unbound a key, for good; certtest has made every
\* signature, holds no signer, and its key is gone for good, or is still there
\* and the user was told its name (main.go:101-103).
Gone(k) == k \in removed /\ \A n \in Names : store[n] # k

ExitZeroMeansDone ==
  \A p \in Procs :
     status[p] = "ok" =>
        LET k    == effect[p]
            Kept == store[keyName[p]] = k /\ keyName[p] \in printed
        IN  /\ k \in Keys
            /\ cmd[p] = "create" => keyName[p] \in printed /\ (Kept \/ Gone(k))
            /\ cmd[p] = "delete" => Gone(k)
            /\ cmd[p] = "certtest" =>
                  /\ signs[p] = CertSigns + SignOps
                  /\ signer[p] = NoKey
                  /\ Kept \/ Gone(k)

\* Every command comes to an end.
EveryCommandExits ==
  \A p \in Procs : pc[p] # "idle" ~> pc[p] = "exited"

=============================================================================
