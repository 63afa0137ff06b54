----------------------------- MODULE RpcService -----------------------------
(***************************************************************************)
(* What the functions of service/api/client promise their callers: a call  *)
(* is handled once at most, by the handler of its method; it returns once, *)
(* with a yes only if its handler said so, and with "not found" only if it *)
(* is never handled.  A caller that got another error knows nothing: its   *)
(* call may have been handled, and may still be.                           *)
(***************************************************************************)
CONSTANTS Nil,
          Nodes,
          Rpcs,          \* the calls
          Requests,      \* of each method
          Outcomes(_),   \* what the handler of a method may say, Nil an error
          Yes(_, _)      \* whether an answer of a method's handler is a yes

VARIABLES call,   \* the method, node and request
          ran,    \* the run of the handler, if any, and what it said
          ret     \* what the caller got, or Nil

None == [m |-> "none", node |-> Nil, req |-> Nil]

Results == [res : BOOLEAN, err : {"none", "not found", "rpc", "json"}]

Init ==
  /\ call = [r \in Rpcs |-> None] /\ ran = [r \in Rpcs |-> << >>]
  /\ ret = [r \in Rpcs |-> Nil]

Invoke(r) ==
  /\ call[r] = None
  /\ \E m \in DOMAIN Requests, n \in Nodes : \E q \in Requests[m] :
       call' = [call EXCEPT ![r] = [m |-> m, node |-> n, req |-> q]]
  /\ UNCHANGED <<ran, ret>>

\* Also after the caller has given up.
Run(r) ==
  /\ call[r] # None /\ ran[r] = << >>
  /\ ret[r] # Nil => ret[r].err = "rpc"
  /\ \E success \in Outcomes(call[r].m) :
       ran' = [ran EXCEPT ![r] = <<[by |-> call[r].m, with |-> success]>>]
  /\ UNCHANGED <<call, ret>>

Return(r) ==
  /\ call[r] # None /\ ret[r] = Nil
  /\ \E x \in Results :
       /\ x.err = "not found" => ran[r] = << >>
       /\ x.err = "none" => ran[r] # << >> /\ ran[r][1].with # Nil
       /\ x.res => x.err = "none" /\ Yes(call[r].m, ran[r][1].with)
       /\ ret' = [ret EXCEPT ![r] = x]
  /\ UNCHANGED <<call, ran>>

Next == \E r \in Rpcs : Invoke(r) \/ Run(r) \/ Return(r)

Spec == Init /\ [][Next]_<<call, ran, ret>>
=============================================================================
