------------------------------- MODULE Signer -------------------------------
(***************************************************************************)
(* What main.go asks of every backend's signer (signCloser): a             *)
(* crypto.Signer that goroutines share, and Close.  A call takes effect at *)
(* one instant between its start and its return: a successful Sign gives   *)
(* its caller a signature over that caller's own request, and no Sign      *)
(* succeeds after a Close has taken effect.  TpmSigner implements this     *)
(* module.                                                                 *)
(***************************************************************************)

CONSTANTS
  Goroutines,  \* callers of one signer
  Requests,    \* arguments of Sign: a digest and its options
  NoRequest    \* "no argument", "no signature"

VARIABLES
  closed,   \* a Close has taken effect
  op,       \* op[g]: the call g runs, or "none"
  arg,      \* arg[g]: the request of a Sign
  sig,      \* sig[g]: the request its signature is over
  res       \* res[g]: the result of the call, "none" while it is not decided

vars == <<closed, op, arg, sig, res>>

Init ==
  /\ closed = FALSE
  /\ op = [g \in Goroutines |-> "none"]
  /\ arg = [g \in Goroutines |-> NoRequest]
  /\ sig = [g \in Goroutines |-> NoRequest]
  /\ res = [g \in Goroutines |-> "none"]

CallSign(g) ==
  /\ op[g] = "none"
  /\ op' = [op EXCEPT ![g] = "sign"]
  /\ \E r \in Requests : arg' = [arg EXCEPT ![g] = r]
  /\ UNCHANGED <<closed, sig, res>>

CallClose(g) ==
  /\ op[g] = "none"
  /\ op' = [op EXCEPT ![g] = "close"]
  /\ UNCHANGED <<closed, arg, sig, res>>

Return(g) ==
  /\ res[g] # "none"
  /\ op' = [op EXCEPT ![g] = "none"]
  /\ arg' = [arg EXCEPT ![g] = NoRequest]
  /\ sig' = [sig EXCEPT ![g] = NoRequest]
  /\ res' = [res EXCEPT ![g] = "none"]
  /\ UNCHANGED closed

Pending(g, o) == op[g] = o /\ res[g] = "none"

Decide(g, r) == res' = [res EXCEPT ![g] = r]

Sign(g) ==
  /\ Pending(g, "sign")
  /\ ~closed
  /\ sig' = [sig EXCEPT ![g] = arg[g]]
  /\ Decide(g, "ok")
  /\ UNCHANGED <<closed, op, arg>>

Refuse(g) ==
  /\ Pending(g, "sign")
  /\ closed
  /\ Decide(g, "closed")
  /\ UNCHANGED <<closed, op, arg, sig>>

Fail(g) ==
  /\ Pending(g, "sign")
  /\ Decide(g, "error")
  /\ UNCHANGED <<closed, op, arg, sig>>

Close(g) ==
  /\ Pending(g, "close")
  /\ closed' = TRUE
  /\ \/ Decide(g, "ok")
     \/ ~closed /\ Decide(g, "error")
  /\ UNCHANGED <<op, arg, sig>>

Next ==
  \E g \in Goroutines :
     \/ CallSign(g) \/ CallClose(g) \/ Return(g)
     \/ Sign(g) \/ Refuse(g) \/ Fail(g)
     \/ Close(g)

Spec == Init /\ [][Next]_vars

=============================================================================
