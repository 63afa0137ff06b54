----------------------------- MODULE RpcCodecs ------------------------------
(***************************************************************************)
(* The codecs of ImRpc: those of api.go and k-api.go, and the messages of  *)
(* a sender that is built from a later version of the interface.           *)
(***************************************************************************)
EXTENDS ImRpc

A == INSTANCE ApiCodec
F == INSTANCE FastCodec

GeneratedCodecs == {A!Api, F!Fast}

\* Write and FastWriteNocopy of a struct.
WriteStruct(T, s, p) == A!Write(T, s, p)

\* Read and FastRead into a new struct, from the start of a message.
ReadStruct(T, s, w) == A!Read(T, s, A!New(T, s), w, 1)

ReadFailed == A!Failed

StructsEqual(s, p, q) == A!DeepEqual(A!Api, s, p, q)

-----------------------------------------------------------------------------
(* Later versions *)

Unknown == <<A!Header(A!Str(9)), A!Value("STRING", <<9>>),
             A!Header(A!Struct(10, "")), A!Header(A!Bool(1)), A!Value("BOOL", TRUE), A!Stop>>

\* The last field of the request or response has got another type.
Retyped(w) ==
  LET k == Len(w) - 2
  IN [w EXCEPT ![k - 1].type = "I64", ![k] = A!Value("I64", 9)]

Retypable(w) == Len(w) > 3 /\ w[Len(w) - 2].cell = "value"

LaterVersions(w) ==
  {<<"same", w>>, <<"added", Unknown \o w>>}
    \cup (IF Len(w) > 1 THEN {<<"added", <<w[1]>> \o Unknown \o Tail(w)>>} ELSE {})
    \cup (IF Retypable(w) THEN {<<"retyped", Retyped(w)>>} ELSE {})

\* The arguments a handler should see for request q of method m: a nil request
\* becomes an empty one, a field of another type keeps its zero value.
ExpectedArgs(m, q, how) ==
  LET s == kClient[m].args
      of == (CHOOSE f \in A!Api[s].read : TRUE).of
      p == IF q = Nil THEN A!New(A!Api, of) ELSE q
      k == Len(p)
      zero == A!Zero((CHOOSE f \in A!Api[of].read : f.id = k).of)
  IN IF A!Api[s].read = {} THEN << >>
     ELSE <<IF how = "retyped" THEN [p EXCEPT ![k] = A!Plain(zero)] ELSE p>>

-----------------------------------------------------------------------------

\* FastWriteNocopy fills exactly the buffer that BLength measured, for every
\* request and for every answer.
FrameExact ==
  LET fits(s, p) == A!BLength(F!Fast, s, p) = A!Bytes(A!Write(F!Fast, s, p))
  IN \A r \in Rpcs :
       /\ pc[r] = "call" => fits(kClient[call[r].m].args, Args(call[r].m, call[r].req))
       /\ srv[r] = "run" => \A ok \in BOOLEAN :
                              fits(Handler(r).result, Success(ImRpcImpl(Handler(r).calls, ok)))
=============================================================================
