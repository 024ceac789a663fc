---------------------------- MODULE UnaryContract ----------------------------
(***************************************************************************)
(* What a unary call of pkg/rpc promises, whatever becomes of the messages, *)
(* the servers and the caller's context: README.md, "Unary RPC              *)
(* Implementation".  A call is handled by one replica at most, and it ends  *)
(* at most once, with an outcome that is true of what happened.             *)
(*                                                                          *)
(* A call may end without being handled, and may be handled after it ended: *)
(* the server's handler does not hear of the caller's context.              *)
(***************************************************************************)
CONSTANTS
  Calls,     \* calls of Client.Invoke
  Replicas   \* servers that may handle them

VARIABLES
  context,   \* per call: the caller's context
  handled,   \* per call: the replicas that ran its handler
  result,    \* per call: how the handler returned, as an answer can tell it
  outcome    \* per call: what Invoke returned

vars == <<context, handled, result, outcome>>

Init ==
  /\ context = [c \in Calls |-> "open"]
  /\ handled = [c \in Calls |-> {}]
  /\ result = [c \in Calls |-> "none"]
  /\ outcome = [c \in Calls |-> "none"]

ContextEnds(c, why) ==
  /\ context[c] = "open" /\ why \in {"Canceled", "DeadlineExceeded"}
  /\ context' = [context EXCEPT ![c] = why]
  /\ UNCHANGED <<handled, result, outcome>>

HandlerStarts(c, r) ==
  /\ handled[c] = {}
  /\ outcome[c] \notin {"NoResponders", "Invalid"}
  /\ handled' = [handled EXCEPT ![c] = {r}]
  /\ UNCHANGED <<context, result, outcome>>

HandlerReturns(c, res) ==
  /\ handled[c] # {} /\ result[c] = "none"
  /\ res \in {"OK", "Error"}
  /\ result' = [result EXCEPT ![c] = res]
  /\ UNCHANGED <<context, handled, outcome>>

\* What each outcome tells the caller.  Unavailable, for a lost connection,
\* tells nothing.
True(c, o) ==
  \/ o \in {"OK", "Undecodable"} /\ result[c] = "OK"
  \/ o = "Error" /\ result[c] = "Error"
  \/ o \in {"Canceled", "DeadlineExceeded"} /\ context[c] = o
  \/ o \in {"NoResponders", "Invalid"} /\ handled[c] = {}
  \/ o = "Unavailable"

Ends(c, o) ==
  /\ outcome[c] = "none" /\ True(c, o)
  /\ outcome' = [outcome EXCEPT ![c] = o]
  /\ UNCHANGED <<context, handled, result>>

Outcome == {"OK", "Undecodable", "Error", "Canceled", "DeadlineExceeded", "NoResponders",
            "Invalid", "Unavailable"}

Next ==
  \E c \in Calls :
    \/ \E why \in {"Canceled", "DeadlineExceeded"} : ContextEnds(c, why)
    \/ \E r \in Replicas : HandlerStarts(c, r)
    \/ \E res \in {"OK", "Error"} : HandlerReturns(c, res)
    \/ \E o \in Outcome : Ends(c, o)

Spec == Init /\ [][Next]_vars
=============================================================================
