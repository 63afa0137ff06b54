-------------------------- MODULE DeliveryProofs ---------------------------
(***************************************************************************)
(* How often a request reaches the user, for any number of nodes, requests *)
(* and groups, wherever the user's clients are: a proxy call once at most, *)
(* a group message once per client, a published message once per node.     *)
(***************************************************************************)
EXTENDS Delivery, FiniteSetTheorems, TLAPS

\* Leaves that Zenon cannot do name SMT.
USE Zenon

Active == {"entry", "local", "lookup"}

\* Node n may still bring entry i of request r to the user.
IsPending(r, i, n) ==
  \/ n \in todo[r]
  \/ pc[<<r, n>>] \in Active /\ entry[<<r, n>>] <= i
  \/ way[<<r, i, n>>] # Nil

Pending(r, i) == {n \in Nodes : IsPending(r, i, n)}

\* A request that was not issued yet has no trace.
UnissuedOK(r) ==
  kind[r] = Nil => /\ todo[r] = {} /\ \A n \in Nodes : pc[<<r, n>>] = "idle"
                   /\ \A i \in Entries : copies[<<r, i>>] = 0

\* A node that has still to handle the message has not begun to, and sends each
\* entry once; a group message is sent to the node's own group.
PlaceOK(r, n) ==
  /\ pc[<<r, n>>] \in Active => entry[<<r, n>>] <= len[r]
  /\ pc[<<r, n>>] = "idle" => entry[<<r, n>>] = 1
  /\ n \in todo[r] => pc[<<r, n>>] = "idle"
  /\ kind[r] = "group" => pc[<<r, n>>] \notin {"local", "lookup"}

SentOK(r, i, n) ==
  way[<<r, i, n>>] # Nil =>
    /\ pc[<<r, n>>] # "idle"
    /\ pc[<<r, n>>] \in Active => i < entry[<<r, n>>]
    /\ kind[r] = "group" => way[<<r, i, n>>] = n

\* Each copy was brought by a node that is through with the entry.
SpentOK(r, i) == copies[<<r, i>>] <= Cardinality(Nodes \ Pending(r, i))

\* A proxy call is in one place; until it is done there is no copy.
OnceOK(r, i) ==
  kind[r] \in Direct =>
    /\ copies[<<r, i>>] <= 1
    /\ \A n \in Pending(r, i) : copies[<<r, i>>] = 0 /\ Pending(r, i) = {n}

\* A group message has reached no client on a node that may still bring it.
StayOK(r, i) ==
  kind[r] = "group" => copies[<<r, i>>] + Cardinality(at \cap Pending(r, i)) <= stays[r]

CountOK(r, i) == SpentOK(r, i) /\ OnceOK(r, i) /\ StayOK(r, i)

ReqOK(r) ==
  /\ UnissuedOK(r)
  /\ \A n \in Nodes : PlaceOK(r, n)
  /\ \A i \in Entries : CountOK(r, i) /\ \A n \in Nodes : SentOK(r, i, n)

\* The inductive invariant.
IInv == TypeOK /\ \A r \in Reqs : ReqOK(r)

-----------------------------------------------------------------------------
(* Counting nodes *)

\* A set of nodes and what remains of it have numbers.
LEMMA NodesCount ==
  ASSUME NEW P \in SUBSET Nodes
  PROVE  /\ IsFiniteSet(P) /\ Cardinality(P) \in Nat
         /\ Cardinality(Nodes) \in Nat /\ Cardinality(P) <= Cardinality(Nodes)
<1>1. IsFiniteSet(P) /\ IsFiniteSet(Nodes)
  BY DeliveryAssumption, FS_Subset
<1>2. Cardinality(P) \in Nat /\ Cardinality(Nodes) \in Nat
  BY <1>1, FS_CardinalityType
<1>3. Cardinality(P) <= Cardinality(Nodes)
  BY DeliveryAssumption, FS_Subset
<1> QED
  BY <1>1, <1>2, <1>3

\* With one node more through, there is room for one copy more.
LEMMA OneMoreDone ==
  ASSUME NEW P \in SUBSET Nodes, NEW n \in P
  PROVE  Cardinality(Nodes \ (P \ {n})) = Cardinality(Nodes \ P) + 1
<1>1. IsFiniteSet(Nodes \ P)
  BY NodesCount
<1>2. Nodes \ (P \ {n}) = (Nodes \ P) \cup {n} /\ n \notin Nodes \ P
  OBVIOUS
<1> QED
  BY <1>1, <1>2, FS_AddElement

\* The fewer nodes there are, the smaller their number, by one for one node.
LEMMA Fewer ==
  ASSUME NEW P \in SUBSET Nodes, NEW Q \in SUBSET P
  PROVE  /\ Cardinality(Q) <= Cardinality(P)
         /\ \A n \in P : Cardinality(P \ {n}) = Cardinality(P) - 1
         /\ \A n \in Nodes : Cardinality(P \cup {n}) <= Cardinality(P) + 1
<1>1. IsFiniteSet(P) /\ Cardinality(P) \in Nat
  BY NodesCount
<1>2. Cardinality(Q) <= Cardinality(P)
  BY <1>1, FS_Subset
<1>3. \A n \in P : Cardinality(P \ {n}) = Cardinality(P) - 1
  BY <1>1, FS_RemoveElement
<1>4. ASSUME NEW n \in Nodes PROVE Cardinality(P \cup {n}) <= Cardinality(P) + 1
  <2>1. Cardinality(P \cup {n}) = IF n \in P THEN Cardinality(P) ELSE Cardinality(P) + 1
    BY <1>1, FS_AddElement
  <2> QED
    BY SMT, <1>1, <2>1
<1> QED
  BY <1>2, <1>3, <1>4

-----------------------------------------------------------------------------
(* The steps, seen by one request *)

\* Node n goes on with entry i, or is through with it; only then there may be a
\* copy, and one of a group message is for a client of this node.
LEMMA CountKeeps ==
  ASSUME IInv, NEW r \in Reqs, NEW i \in Entries, NEW n \in Nodes,
         UNCHANGED at, kind'[r] = kind[r], stays'[r] = stays[r],
         \A m \in Nodes \ {n} : IsPending(r, i, m)' <=> IsPending(r, i, m),
         IsPending(r, i, n)' => IsPending(r, i, n),
         \/ copies'[<<r, i>>] = copies[<<r, i>>]
         \/ /\ copies'[<<r, i>>] = copies[<<r, i>>] + 1
            /\ IsPending(r, i, n) /\ ~IsPending(r, i, n)'
            /\ kind[r] = "group" => n \in at
  PROVE  CountOK(r, i)'
<1> DEFINE P == Pending(r, i)
           c == copies[<<r, i>>]
<1>1. /\ P \in SUBSET Nodes /\ c \in Nat /\ stays[r] \in Nat /\ at \in SUBSET Nodes
      /\ SpentOK(r, i) /\ OnceOK(r, i) /\ StayOK(r, i)
  BY DEF IInv, TypeOK, ReqOK, CountOK, Pending
<1>2. CASE IsPending(r, i, n)' <=> IsPending(r, i, n)
  <2>1. P' = P
    BY <1>2 DEF Pending
  <2>2. c' = c
    BY <1>2
  <2> QED
    BY <1>1, <2>1, <2>2 DEF CountOK, SpentOK, OnceOK, StayOK
<1>3. CASE IsPending(r, i, n) /\ ~IsPending(r, i, n)'
  <2>1. P' = P \ {n} /\ n \in P
    BY <1>3 DEF Pending
  <2>2. c' = c \/ (c' = c + 1 /\ (kind[r] = "group" => n \in at))
    OBVIOUS
  <2>3. SpentOK(r, i)'
    <3>1. Cardinality(Nodes \ P') = Cardinality(Nodes \ P) + 1
      BY <1>1, <2>1, OneMoreDone
    <3>2. Cardinality(Nodes \ P) \in Nat
      BY NodesCount
    <3>3. c <= Cardinality(Nodes \ P)
      BY <1>1 DEF SpentOK
    <3>4. c' <= Cardinality(Nodes \ P')
      BY SMT, <1>1, <2>2, <3>1, <3>2, <3>3
    <3> QED
      BY <3>4 DEF SpentOK
  <2>4. OnceOK(r, i)'
    <3> SUFFICES ASSUME kind[r] \in Direct PROVE OnceOK(r, i)'
      BY DEF OnceOK
    <3>1. c = 0 /\ P = {n}
      BY <1>1, <2>1 DEF OnceOK
    <3>2. P' = {}
      BY <2>1, <3>1
    <3>3. c' <= 1
      BY SMT, <2>2, <3>1
    <3> QED
      BY <3>2, <3>3 DEF OnceOK
  <2>5. StayOK(r, i)'
    <3> SUFFICES ASSUME kind[r] = "group" PROVE c' + Cardinality(at \cap P') <= stays[r]
      BY DEF StayOK
    <3>1. c + Cardinality(at \cap P) <= stays[r]
      BY <1>1 DEF StayOK
    <3>2. at \cap P \in SUBSET Nodes /\ at \cap P' \in SUBSET (at \cap P)
      BY <1>1, <2>1
    <3>3. Cardinality(at \cap P) \in Nat /\ Cardinality(at \cap P') \in Nat
      BY <3>2, NodesCount
    <3>4. Cardinality(at \cap P') <= Cardinality(at \cap P)
      BY <3>2, Fewer
    <3>5. CASE n \in at
      <4>1. at \cap P' = (at \cap P) \ {n} /\ n \in at \cap P
        BY <2>1, <3>5
      <4>2. Cardinality(at \cap P') = Cardinality(at \cap P) - 1
        BY <3>2, <4>1, Fewer
      <4> QED
        BY SMT, <1>1, <2>2, <3>1, <3>3, <4>2
    <3>6. CASE n \notin at
      <4>1. c' = c
        BY <2>2, <3>6
      <4> QED
        BY SMT, <1>1, <3>1, <3>3, <3>4, <4>1
    <3> QED
      BY <3>5, <3>6
  <2> QED
    BY <2>3, <2>4, <2>5 DEF CountOK
<1> QED
  BY <1>2, <1>3

\* What concerns neither the request nor the clients leaves it alone.
LEMMA OtherRequest ==
  ASSUME IInv, NEW r \in Reqs, UNCHANGED at,
         kind'[r] = kind[r], len'[r] = len[r], todo'[r] = todo[r], stays'[r] = stays[r],
         \A n \in Nodes : pc'[<<r, n>>] = pc[<<r, n>>] /\ entry'[<<r, n>>] = entry[<<r, n>>],
         \A i \in Entries, n \in Nodes : way'[<<r, i, n>>] = way[<<r, i, n>>],
         \A i \in Entries : copies'[<<r, i>>] = copies[<<r, i>>]
  PROVE  ReqOK(r)'
<1>0. ReqOK(r)
  BY DEF IInv
<1>1. UnissuedOK(r)'
  BY <1>0 DEF ReqOK, UnissuedOK
<1>2. ASSUME NEW n \in Nodes PROVE PlaceOK(r, n)'
  BY <1>0 DEF ReqOK, PlaceOK
<1>3. ASSUME NEW i \in Entries, NEW n \in Nodes PROVE SentOK(r, i, n)'
  <2>1. SentOK(r, i, n)
    BY <1>0 DEF ReqOK
  <2>2. /\ way'[<<r, i, n>>] = way[<<r, i, n>>] /\ pc'[<<r, n>>] = pc[<<r, n>>]
        /\ entry'[<<r, n>>] = entry[<<r, n>>] /\ kind'[r] = kind[r]
    OBVIOUS
  <2> QED
    BY <2>1, <2>2 DEF SentOK
<1>4. ASSUME NEW i \in Entries PROVE CountOK(r, i)'
  <2>1. Pending(r, i)' = Pending(r, i)
    BY DEF Pending, IsPending
  <2> QED
    BY <1>0, <2>1 DEF ReqOK, CountOK, SpentOK, OnceOK, StayOK
<1> QED
  BY <1>1, <1>2, <1>3, <1>4 DEF ReqOK

\* A goroutine goes on to where it sends the entry it is at.
LEMMA RouteKeeps ==
  ASSUME IInv, NEW r \in Reqs, NEW n \in Nodes, RouteRequest(r, n)
  PROVE  ReqOK(r)'
<1>0. ReqOK(r)
  BY DEF IInv
<1>1. /\ pc[<<r, n>>] = "entry" /\ kind[r] # "group" /\ pc'[<<r, n>>] \in {"local", "lookup"}
      /\ \A m \in Nodes \ {n} : pc'[<<r, m>>] = pc[<<r, m>>]
      /\ UNCHANGED <<at, kind, len, todo, entry, way, copies, stays>>
  BY DEF RouteRequest, userVars, reqVars, IInv, TypeOK
<1>2. UnissuedOK(r)'
  BY <1>0, <1>1 DEF ReqOK, UnissuedOK
<1>3. ASSUME NEW m \in Nodes PROVE PlaceOK(r, m)'
  BY <1>0, <1>1 DEF ReqOK, PlaceOK, Active
<1>4. ASSUME NEW i \in Entries, NEW m \in Nodes PROVE SentOK(r, i, m)'
  BY <1>0, <1>1 DEF ReqOK, SentOK, Active
<1>5. ASSUME NEW i \in Entries PROVE CountOK(r, i)'
  <2>1. \A m \in Nodes : IsPending(r, i, m)' <=> IsPending(r, i, m)
    BY <1>1 DEF IsPending, Active
  <2> QED
    BY <1>1, <2>1, CountKeeps
<1> QED
  BY <1>2, <1>3, <1>4, <1>5 DEF ReqOK

\* A goroutine is through with the entry it is at: it reached the client or not, or
\* sent a copy on its way.
LEMMA NextEntryKeeps ==
  ASSUME IInv, NEW r \in Reqs, NEW n \in Nodes, NextEntry(r, n), pc[<<r, n>>] \in Active,
         UNCHANGED <<at, kind, len, todo, stays>>,
         NEW d \in Nodes \cup {Nil},
         way' = [way EXCEPT ![<<r, entry[<<r, n>>], n>>] = d],
         kind[r] = "group" => d = n,
         \/ UNCHANGED copies
         \/ d = Nil /\ copies' = [copies EXCEPT ![<<r, entry[<<r, n>>]>>] = @ + 1]
  PROVE  ReqOK(r)'
<1> DEFINE e == entry[<<r, n>>]
<1>0. ReqOK(r) /\ PlaceOK(r, n) /\ \A i \in Entries : SentOK(r, i, n)
  BY DEF IInv, ReqOK
<1>1. /\ e \in Entries /\ e \in Nat /\ e <= len[r] /\ len[r] \in Nat
      /\ n \notin todo[r] /\ pc[<<r, n>>] # "idle" /\ way[<<r, e, n>>] = Nil
  <2>1. e <= len[r] /\ pc[<<r, n>>] # "idle" /\ n \notin todo[r]
    BY <1>0 DEF PlaceOK, Active
  <2>2. e \in Nat /\ len[r] \in Nat /\ e \in Entries
    BY SMT, <2>1, DeliveryAssumption DEF IInv, TypeOK, Entries
  <2>3. ~(e < e)
    BY SMT, <2>2
  <2> QED
    BY <1>0, <2>1, <2>2, <2>3 DEF SentOK
<1>2. /\ entry'[<<r, n>>] = e + 1
      /\ pc'[<<r, n>>] = IF e < len[r] THEN "entry" ELSE "done"
      /\ \A m \in Nodes \ {n} : /\ pc'[<<r, m>>] = pc[<<r, m>>]
                                /\ entry'[<<r, m>>] = entry[<<r, m>>]
  BY DEF NextEntry, IInv, TypeOK
<1>3. /\ way'[<<r, e, n>>] = d
      /\ \A i \in Entries, m \in Nodes : i # e \/ m # n => way'[<<r, i, m>>] = way[<<r, i, m>>]
  BY <1>1 DEF IInv, TypeOK
<1>4. UnissuedOK(r)'
  BY <1>0, <1>1 DEF ReqOK, UnissuedOK
<1>5. ASSUME NEW m \in Nodes PROVE PlaceOK(r, m)'
  <2>1. CASE m = n
    <3>1. e < len[r] => e + 1 <= len[r]
      BY SMT, <1>1
    <3>2. pc'[<<r, n>>] \in Active => e < len[r]
      BY <1>2 DEF Active
    <3> QED
      BY <1>1, <1>2, <2>1, <3>1, <3>2 DEF PlaceOK, Active
  <2>2. CASE m # n
    BY <1>0, <1>2, <2>2 DEF ReqOK, PlaceOK
  <2> QED
    BY <2>1, <2>2
<1>6. ASSUME NEW i \in Entries, NEW m \in Nodes PROVE SentOK(r, i, m)'
  <2>1. CASE m = n
    <3>1. i \in Nat
      BY SMT DEF Entries
    <3>2. pc'[<<r, n>>] # "idle"
      BY <1>2
    <3>3. CASE i = e
      <4>1. e < e + 1
        BY SMT, <1>1
      <4> QED
        BY <1>2, <1>3, <2>1, <3>2, <3>3, <4>1 DEF SentOK
    <3>4. CASE i # e
      <4>1. i < e => i < e + 1
        BY SMT, <1>1, <3>1
      <4>2. way'[<<r, i, n>>] = way[<<r, i, n>>]
        BY <1>3, <3>4
      <4> QED
        BY <1>0, <1>2, <2>1, <3>2, <4>1, <4>2 DEF SentOK
    <3> QED
      BY <3>3, <3>4
  <2>2. CASE m # n
    <3>1. /\ way'[<<r, i, m>>] = way[<<r, i, m>>]
          /\ pc'[<<r, m>>] = pc[<<r, m>>] /\ entry'[<<r, m>>] = entry[<<r, m>>]
      BY <1>2, <1>3, <2>2
    <3> QED
      BY <1>0, <3>1 DEF ReqOK, SentOK
  <2> QED
    BY <2>1, <2>2
<1>7. ASSUME NEW i \in Entries PROVE CountOK(r, i)'
  <2>0. i \in Nat
    BY SMT DEF Entries
  <2>1. \A m \in Nodes \ {n} : IsPending(r, i, m)' <=> IsPending(r, i, m)
    BY <1>2, <1>3 DEF IsPending
  <2>2. CASE i = e
    <3>1. e <= e /\ ~(e + 1 <= e)
      BY SMT, <1>1
    <3>2. IsPending(r, i, n) /\ (IsPending(r, i, n)' <=> d # Nil)
      BY <1>1, <1>2, <1>3, <2>2, <3>1 DEF IsPending
    <3>3. \/ copies'[<<r, i>>] = copies[<<r, i>>]
          \/ d = Nil /\ copies'[<<r, i>>] = copies[<<r, i>>] + 1
      BY <1>1, <2>2 DEF IInv, TypeOK
    <3>4. kind[r] = "group" => d # Nil
      BY DeliveryAssumption
    <3> QED
      BY <2>1, <3>2, <3>3, <3>4, CountKeeps
  <2>3. CASE i # e
    <3>1. e + 1 <= i => e <= i
      BY SMT, <1>1, <2>0
    <3>2. IsPending(r, i, n)' => IsPending(r, i, n)
      BY <1>2, <1>3, <2>3, <3>1 DEF IsPending
    <3>3. copies'[<<r, i>>] = copies[<<r, i>>]
      BY <1>1, <2>3 DEF IInv, TypeOK
    <3> QED
      BY <2>1, <3>2, <3>3, CountKeeps
  <2> QED
    BY <2>2, <2>3
<1> QED
  BY <1>4, <1>5, <1>6, <1>7 DEF ReqOK

\* RedisProxy and the group's channel, whichever step: the goroutine of one request
\* works on that request only.
LEMMA HandlerStepKeeps ==
  ASSUME IInv, NEW q \in Reqs, NEW n \in Nodes, HandlerStep(q, n), NEW r \in Reqs
  PROVE  ReqOK(r)'
<1> DEFINE e == entry[<<q, n>>]
<1>0. UNCHANGED <<at, kind, len, todo, stays>>
  BY DEF HandlerStep, SendMessageToTGroup, RouteRequest, SendLocal, GetUserRpcServer, userVars,
         reqVars
<1>1. CASE RouteRequest(q, n) /\ q = r
  BY <1>1, RouteKeeps
<1>2. RouteRequest(q, n) => /\ UNCHANGED <<entry, way, copies>>
                            /\ \E l : pc' = [pc EXCEPT ![<<q, n>>] = l]
  BY DEF RouteRequest, IInv, TypeOK
<1>3. ASSUME ~RouteRequest(q, n)
      PROVE  /\ NextEntry(q, n) /\ pc[<<q, n>>] \in Active
             /\ \E d \in Nodes \cup {Nil} :
                  /\ way' = [way EXCEPT ![<<q, e, n>>] = d]
                  /\ kind[q] = "group" => d = n
                  /\ \/ UNCHANGED copies
                     \/ d = Nil /\ copies' = [copies EXCEPT ![<<q, e>>] = @ + 1]
  <2>1. ASSUME pc[<<q, n>>] \in {"local", "lookup"}
        PROVE  kind[q] # "group" /\ way = [way EXCEPT ![<<q, e, n>>] = Nil]
    <3>1. PlaceOK(q, n)
      BY DEF IInv, ReqOK
    <3>2. e <= len[q] /\ kind[q] # "group"
      BY <2>1, <3>1 DEF PlaceOK, Active
    <3>3. e \in Entries /\ ~(e < e)
      BY SMT, <3>2, DeliveryAssumption DEF IInv, TypeOK, Entries
    <3>4. SentOK(q, e, n)
      BY <3>3 DEF IInv, ReqOK
    <3>5. way[<<q, e, n>>] = Nil
      BY <2>1, <3>3, <3>4 DEF SentOK, Active
    <3> QED
      BY <3>2, <3>5 DEF IInv, TypeOK
  <2>2. CASE SendMessageToTGroup(q, n)
    BY <2>2 DEF SendMessageToTGroup, Send, Active
  <2>3. CASE SendLocal(q, n)
    BY <2>1, <2>3 DEF SendLocal, ToLocalUser, Active
  <2>4. CASE GetUserRpcServer(q, n)
    BY <2>1, <2>4 DEF GetUserRpcServer, Send, Active, IInv, TypeOK
  <2> QED
    BY <1>3, <2>2, <2>3, <2>4 DEF HandlerStep
<1>4. CASE q = r
  BY <1>0, <1>1, <1>3, <1>4, NextEntryKeeps
<1>5. CASE q # r
  <2>1. \A m \in Nodes : pc'[<<r, m>>] = pc[<<r, m>>] /\ entry'[<<r, m>>] = entry[<<r, m>>]
    <3>1. CASE RouteRequest(q, n)
      BY <1>2, <1>5, <3>1 DEF IInv, TypeOK
    <3>2. CASE NextEntry(q, n)
      BY <1>5, <3>2 DEF NextEntry, IInv, TypeOK
    <3> QED
      BY <1>3, <3>1, <3>2
  <2>2. \A i \in Entries, m \in Nodes : way'[<<r, i, m>>] = way[<<r, i, m>>]
    BY <1>2, <1>3, <1>5 DEF IInv, TypeOK
  <2>3. \A i \in Entries : copies'[<<r, i>>] = copies[<<r, i>>]
    BY <1>2, <1>3, <1>5 DEF IInv, TypeOK
  <2> QED
    BY <1>0, <2>1, <2>2, <2>3, OtherRequest
<1> QED
  BY <1>4, <1>5

\* A copy arrives, at a client or not, or is lost.
LEMMA ArriveKeeps ==
  ASSUME IInv, NEW q \in Reqs, NEW j \in Entries, NEW n \in Nodes,
         Arrive(q, j, n) \/ Lose(q, j, n), NEW r \in Reqs
  PROVE  ReqOK(r)'
<1>0. ReqOK(r) /\ UNCHANGED <<at, kind, len, todo, pc, entry, stays>>
  BY DEF Arrive, Lose, userVars, reqVars, IInv
<1>1. /\ way[<<q, j, n>>] # Nil /\ way' = [way EXCEPT ![<<q, j, n>>] = Nil]
      /\ \/ UNCHANGED copies
         \/ way[<<q, j, n>>] \in at /\ copies' = [copies EXCEPT ![<<q, j>>] = @ + 1]
  BY DEF Arrive, Lose, Arrived, ToLocalUser
<1>2. CASE q # r
  <2>1. \A i \in Entries, m \in Nodes : way'[<<r, i, m>>] = way[<<r, i, m>>]
    BY <1>1, <1>2 DEF IInv, TypeOK
  <2>2. \A i \in Entries : copies'[<<r, i>>] = copies[<<r, i>>]
    BY <1>1, <1>2 DEF IInv, TypeOK
  <2> QED
    BY <1>0, <2>1, <2>2, OtherRequest
<1>3. CASE q = r
  <2>1. /\ way'[<<r, j, n>>] = Nil
        /\ \A i \in Entries, m \in Nodes :
             i # j \/ m # n => way'[<<r, i, m>>] = way[<<r, i, m>>]
    BY <1>1, <1>3 DEF IInv, TypeOK
  <2>2. /\ pc[<<r, n>>] # "idle" /\ (pc[<<r, n>>] \in Active => j < entry[<<r, n>>])
        /\ kind[r] = "group" => way[<<r, j, n>>] = n
    BY <1>0, <1>1, <1>3 DEF ReqOK, SentOK
  <2>3. n \notin todo[r] /\ kind[r] # Nil
    BY <1>0, <2>2 DEF ReqOK, PlaceOK, UnissuedOK
  <2>4. UnissuedOK(r)'
    BY <1>0, <2>3 DEF UnissuedOK
  <2>5. ASSUME NEW m \in Nodes PROVE PlaceOK(r, m)'
    BY <1>0 DEF ReqOK, PlaceOK
  <2>6. ASSUME NEW i \in Entries, NEW m \in Nodes PROVE SentOK(r, i, m)'
    <3>1. SentOK(r, i, m)
      BY <1>0 DEF ReqOK
    <3>2. way'[<<r, i, m>>] # Nil => way'[<<r, i, m>>] = way[<<r, i, m>>]
      BY <2>1
    <3> QED
      BY <1>0, <3>1, <3>2 DEF SentOK
  <2>7. ASSUME NEW i \in Entries PROVE CountOK(r, i)'
    <3>1. \A m \in Nodes \ {n} : IsPending(r, i, m)' <=> IsPending(r, i, m)
      BY <1>0, <2>1 DEF IsPending
    <3>2. CASE i = j
      <4>1. j \in Nat /\ entry[<<r, n>>] \in Nat
        BY SMT DEF Entries, IInv, TypeOK
      <4>2. ~(pc[<<r, n>>] \in Active /\ entry[<<r, n>>] <= j)
        <5>1. j < entry[<<r, n>>] => ~(entry[<<r, n>>] <= j)
          BY SMT, <4>1
        <5> QED
          BY <2>2, <5>1
      <4>3. IsPending(r, i, n) /\ ~IsPending(r, i, n)'
        BY <1>0, <1>1, <1>3, <2>1, <2>3, <3>2, <4>2 DEF IsPending
      <4>4. \/ copies'[<<r, i>>] = copies[<<r, i>>]
            \/ copies'[<<r, i>>] = copies[<<r, i>>] + 1 /\ (kind[r] = "group" => n \in at)
        BY <1>1, <1>3, <2>2, <3>2 DEF IInv, TypeOK
      <4> QED
        BY <1>0, <3>1, <4>3, <4>4, CountKeeps
    <3>3. CASE i # j
      <4>1. IsPending(r, i, n)' => IsPending(r, i, n)
        BY <1>0, <2>1, <3>3 DEF IsPending
      <4>2. copies'[<<r, i>>] = copies[<<r, i>>]
        BY <1>1, <1>3, <3>3 DEF IInv, TypeOK
      <4> QED
        BY <1>0, <3>1, <4>1, <4>2, CountKeeps
    <3> QED
      BY <3>2, <3>3
  <2> QED
    BY <2>4, <2>5, <2>6, <2>7 DEF ReqOK
<1> QED
  BY <1>2, <1>3

\* handleSubMsg begins: the node is still to send every entry, if there are any.
LEMMA HandleSubMsgKeeps ==
  ASSUME IInv, NEW q \in Reqs, NEW n \in Nodes, HandleSubMsg(q, n), NEW r \in Reqs
  PROVE  ReqOK(r)'
<1>0. /\ ReqOK(r) /\ n \in todo[q] /\ UNCHANGED <<at, kind, len, way, copies, stays>>
      /\ todo' = [todo EXCEPT ![q] = @ \ {n}]
  BY DEF HandleSubMsg, Handled, userVars, IInv
<1>1. CASE q # r
  <2>1. /\ todo'[r] = todo[r]
        /\ \A m \in Nodes : pc'[<<r, m>>] = pc[<<r, m>>] /\ entry'[<<r, m>>] = entry[<<r, m>>]
    BY <1>0, <1>1 DEF HandleSubMsg, IInv, TypeOK
  <2> QED
    BY <1>0, <2>1, OtherRequest
<1>2. CASE q = r
  <2>1. /\ todo'[r] = todo[r] \ {n}
        /\ pc'[<<r, n>>] = IF len[r] = 0 THEN "done" ELSE "entry"
        /\ entry'[<<r, n>>] = 1
        /\ \A m \in Nodes \ {n} : /\ pc'[<<r, m>>] = pc[<<r, m>>]
                                  /\ entry'[<<r, m>>] = entry[<<r, m>>]
    BY <1>0, <1>2 DEF HandleSubMsg, IInv, TypeOK
  <2>2. pc[<<r, n>>] = "idle" /\ kind[r] # Nil /\ \A i \in Entries : way[<<r, i, n>>] = Nil
    BY <1>0, <1>2 DEF ReqOK, PlaceOK, UnissuedOK, SentOK
  <2>3. UnissuedOK(r)'
    BY <1>0, <2>2 DEF UnissuedOK
  <2>4. ASSUME NEW m \in Nodes PROVE PlaceOK(r, m)'
    <3>1. CASE m = n
      <4>1. len[r] # 0 => 1 <= len[r]
        BY SMT DEF IInv, TypeOK
      <4> QED
        BY <2>1, <3>1, <4>1, <1>0 DEF PlaceOK, Active
    <3>2. CASE m # n
      BY <1>0, <2>1, <3>2 DEF ReqOK, PlaceOK
    <3> QED
      BY <3>1, <3>2
  <2>5. ASSUME NEW i \in Entries, NEW m \in Nodes PROVE SentOK(r, i, m)'
    <3>1. SentOK(r, i, m)
      BY <1>0 DEF ReqOK
    <3>2. CASE m = n
      BY <1>0, <2>2, <3>2 DEF SentOK
    <3>3. CASE m # n
      BY <1>0, <2>1, <3>1, <3>3 DEF SentOK
    <3> QED
      BY <3>2, <3>3
  <2>6. ASSUME NEW i \in Entries PROVE CountOK(r, i)'
    <3>1. \A m \in Nodes \ {n} : IsPending(r, i, m)' <=> IsPending(r, i, m)
      BY <1>0, <2>1 DEF IsPending
    <3>2. IsPending(r, i, n)
      BY <1>0, <1>2 DEF IsPending
    <3> QED
      BY <1>0, <3>1, <3>2, CountKeeps
  <2> QED
    BY <2>3, <2>4, <2>5, <2>6 DEF ReqOK
<1> QED
  BY <1>1, <1>2

\* A request is issued: by a call of RedisProxy or by PublishGlobalMsg.
LEMMA IssueKeeps ==
  ASSUME IInv, NEW q \in Reqs, NEW n, NEW k, NEW e, NEW r \in Reqs,
         (n \in Nodes /\ CallProxy(q, n, k)) \/ PublishGlobalMsg(q, k, e)
  PROVE  ReqOK(r)'
<1>0. ReqOK(r) /\ UNCHANGED <<at, entry, way, copies>>
  BY DEF CallProxy, PublishGlobalMsg, userVars, IInv
<1>1. CASE q # r
  <2>1. /\ kind'[r] = kind[r] /\ len'[r] = len[r] /\ todo'[r] = todo[r] /\ stays'[r] = stays[r]
        /\ \A m \in Nodes : pc'[<<r, m>>] = pc[<<r, m>>]
    BY <1>1 DEF CallProxy, PublishGlobalMsg, Issue, IInv, TypeOK
  <2> QED
    BY <1>0, <2>1, OtherRequest
<1>2. CASE q = r
  <2>1. /\ kind[r] = Nil /\ todo[r] = {} /\ \A m \in Nodes : pc[<<r, m>>] = "idle"
        /\ \A i \in Entries : copies[<<r, i>>] = 0
    BY <1>0, <1>2 DEF CallProxy, PublishGlobalMsg, Issue, ReqOK, UnissuedOK
  <2>2. /\ \A i \in Entries, m \in Nodes : way[<<r, i, m>>] = Nil
        /\ \A m \in Nodes : entry[<<r, m>>] = 1
    BY <1>0, <2>1 DEF ReqOK, SentOK, PlaceOK
  <2>3. ASSUME NEW i \in Entries, NEW m \in Nodes PROVE SentOK(r, i, m)'
    BY <1>0, <2>2 DEF SentOK
  <2>4. ASSUME NEW i \in Entries PROVE SpentOK(r, i)' /\ StayOK(r, i)'
    <3>1. Pending(r, i)' \in SUBSET Nodes /\ at \in SUBSET Nodes
      BY DEF Pending, IInv, TypeOK
    <3>2. stays'[r] = Cardinality(at)
      BY <1>2 DEF CallProxy, PublishGlobalMsg, Issue, IInv, TypeOK
    <3>3. /\ Cardinality(Nodes \ Pending(r, i)') \in Nat
          /\ Cardinality(at \cap Pending(r, i)') \in Nat /\ Cardinality(at) \in Nat
      BY <3>1, NodesCount
    <3>4. Cardinality(at \cap Pending(r, i)') <= Cardinality(at)
      BY <3>1, Fewer
    <3>5. copies'[<<r, i>>] = 0
      BY <1>0, <2>1
    <3>6. SpentOK(r, i)'
      BY SMT, <3>3, <3>5 DEF SpentOK
    <3>7. copies'[<<r, i>>] + Cardinality(at \cap Pending(r, i)') <= stays'[r]
      BY SMT, <3>2, <3>3, <3>4, <3>5
    <3> QED
      BY <1>0, <3>6, <3>7 DEF StayOK
  <2>5. CASE n \in Nodes /\ CallProxy(q, n, k)
    <3>1. /\ kind'[r] \in Direct /\ len'[r] = 1 /\ todo' = todo /\ pc'[<<r, n>>] = "entry"
          /\ \A m \in Nodes \ {n} : pc'[<<r, m>>] = "idle"
      BY <1>2, <2>1, <2>5 DEF CallProxy, Issue, IInv, TypeOK
    <3>2. kind'[r] # Nil /\ kind'[r] # "group"
      BY <3>1, DeliveryAssumption DEF Direct
    <3>3. 1 <= 1
      BY SMT
    <3>4. ASSUME NEW m \in Nodes PROVE PlaceOK(r, m)'
      BY <1>0, <2>1, <2>2, <3>1, <3>2, <3>3 DEF PlaceOK, Active
    <3>5. ASSUME NEW i \in Entries PROVE OnceOK(r, i)'
      <4>1. \A m \in Nodes \ {n} : ~IsPending(r, i, m)'
        BY <1>0, <2>1, <2>2, <3>1 DEF IsPending, Active
      <4>2. \A m \in Pending(r, i)' : Pending(r, i)' = {m}
        BY <2>5, <4>1 DEF Pending
      <4>3. copies'[<<r, i>>] = 0 /\ 0 <= 1
        BY SMT, <1>0, <2>1
      <4> QED
        BY <4>2, <4>3 DEF OnceOK
    <3> QED
      BY <2>3, <2>4, <3>2, <3>4, <3>5 DEF ReqOK, CountOK, UnissuedOK
  <2>6. CASE PublishGlobalMsg(q, k, e)
    <3>1. kind'[r] \in Published /\ pc' = pc
      BY <1>2, <2>6 DEF PublishGlobalMsg, Issue, IInv, TypeOK
    <3>2. kind'[r] # Nil /\ kind'[r] \notin Direct
      BY <3>1, DeliveryAssumption DEF Direct, Published
    <3>3. ASSUME NEW m \in Nodes PROVE PlaceOK(r, m)'
      BY <1>0, <2>1, <2>2, <3>1 DEF PlaceOK, Active
    <3> QED
      BY <2>3, <2>4, <3>2, <3>3 DEF ReqOK, CountOK, OnceOK, UnissuedOK
  <2> QED
    BY <2>5, <2>6
<1> QED
  BY <1>1, <1>2

\* A client is registered or goes, or the record changes: only the count of a group
\* message depends on where the clients are, and a new client adds one to it.
LEMMA UserStepKeeps ==
  ASSUME IInv, NEW r \in Reqs, NEW n \in Nodes,
         AddClient(n) \/ DelClient(n) \/ SetUserOnlineInfo(n) \/ DelUserOnlineInfo
  PROVE  ReqOK(r)'
<1>0. /\ ReqOK(r) /\ UNCHANGED <<kind, len, todo, pc, entry, way, copies>>
      /\ at \in SUBSET Nodes /\ stays[r] \in Nat
      /\ \/ at' = at \cup {n} /\ stays'[r] = stays[r] + 1
         \/ at' \subseteq at /\ stays'[r] = stays[r]
  BY DEF AddClient, DelClient, SetUserOnlineInfo, DelUserOnlineInfo, reqVars, IInv, TypeOK
<1>1. UnissuedOK(r)'
  BY <1>0 DEF ReqOK, UnissuedOK
<1>2. ASSUME NEW m \in Nodes PROVE PlaceOK(r, m)'
  BY <1>0 DEF ReqOK, PlaceOK
<1>3. ASSUME NEW i \in Entries, NEW m \in Nodes PROVE SentOK(r, i, m)'
  BY <1>0 DEF ReqOK, SentOK
<1>4. ASSUME NEW i \in Entries PROVE CountOK(r, i)'
  <2> DEFINE P == Pending(r, i)
  <2>1. P' = P /\ P \in SUBSET Nodes
    BY <1>0 DEF Pending, IsPending
  <2>2. SpentOK(r, i)' /\ OnceOK(r, i)'
    BY <1>0, <2>1 DEF ReqOK, CountOK, SpentOK, OnceOK
  <2>3. StayOK(r, i)'
    <3> SUFFICES ASSUME kind[r] = "group"
                 PROVE  copies[<<r, i>>] + Cardinality(at' \cap P) <= stays'[r]
      BY <1>0, <2>1 DEF StayOK
    <3>1. copies[<<r, i>>] + Cardinality(at \cap P) <= stays[r]
      BY <1>0 DEF ReqOK, CountOK, StayOK
    <3>2. copies[<<r, i>>] \in Nat
      BY DEF IInv, TypeOK
    <3>3. at \cap P \in SUBSET Nodes /\ at' \cap P \in SUBSET Nodes
      BY <2>1
    <3>4. Cardinality(at \cap P) \in Nat /\ Cardinality(at' \cap P) \in Nat
      BY <3>3, NodesCount
    <3>5. CASE at' \subseteq at /\ stays'[r] = stays[r]
      <4>1. at' \cap P \in SUBSET (at \cap P)
        BY <3>5
      <4>2. Cardinality(at' \cap P) <= Cardinality(at \cap P)
        BY <3>3, <4>1, Fewer
      <4> QED
        BY SMT, <1>0, <3>1, <3>2, <3>4, <3>5, <4>2
    <3>6. CASE at' = at \cup {n} /\ stays'[r] = stays[r] + 1
      <4>1. /\ (at \cap P) \cup {n} \in SUBSET Nodes
            /\ at' \cap P \in SUBSET ((at \cap P) \cup {n})
        BY <3>3, <3>6
      <4>2. Cardinality(at' \cap P) <= Cardinality((at \cap P) \cup {n})
        BY <4>1, Fewer
      <4>3. Cardinality((at \cap P) \cup {n}) <= Cardinality(at \cap P) + 1
        BY <3>3, Fewer
      <4>4. Cardinality((at \cap P) \cup {n}) \in Nat
        BY <4>1, NodesCount
      <4> QED
        BY SMT, <1>0, <3>1, <3>2, <3>4, <3>6, <4>2, <4>3, <4>4
    <3> QED
      BY <1>0, <3>5, <3>6
  <2> QED
    BY <2>2, <2>3 DEF CountOK
<1> QED
  BY <1>1, <1>2, <1>3, <1>4 DEF ReqOK

-----------------------------------------------------------------------------
(* The theorems *)

\* Every step keeps the variables in their types; a goroutine that goes on to the
\* next entry has not been past the last one.
LEMMA TypeStep ==
  ASSUME IInv, [Next]_vars
  PROVE  TypeOK'
<1> USE DEF TypeOK
<1>0. TypeOK
  BY DEF IInv
<1>1. ASSUME NEW n \in Nodes,
             AddClient(n) \/ DelClient(n) \/ SetUserOnlineInfo(n) \/ DelUserOnlineInfo
      PROVE  TypeOK'
  <2>1. logins' \in 0 .. MaxLogins
    BY SMT, <1>0, <1>1, DeliveryAssumption
       DEF AddClient, DelClient, SetUserOnlineInfo, DelUserOnlineInfo
  <2>2. stays' \in [Reqs -> Nat]
    <3>1. \A r \in Reqs : stays[r] + 1 \in Nat
      BY SMT, <1>0
    <3> QED
      BY <1>0, <1>1, <3>1 DEF AddClient, DelClient, SetUserOnlineInfo, DelUserOnlineInfo
  <2>3. at' \in SUBSET Nodes /\ online' \in Nodes \cup {Nil}
    BY <1>0, <1>1 DEF AddClient, DelClient, SetUserOnlineInfo, DelUserOnlineInfo
  <2>4. UNCHANGED <<kind, len, todo, pc, entry, way, copies>>
    BY <1>1 DEF AddClient, DelClient, SetUserOnlineInfo, DelUserOnlineInfo, reqVars
  <2> QED
    BY <1>0, <2>1, <2>2, <2>3, <2>4
<1>2. ASSUME NEW r \in Reqs, NEW k \in Direct \cup Published, NEW e \in 0 .. MaxList,
             Issue(r, k, e)
      PROVE  /\ kind' \in [Reqs -> Direct \cup Published \cup {Nil}]
             /\ len' \in [Reqs -> 0 .. MaxList] /\ stays' \in [Reqs -> Nat]
  <2>1. Cardinality(at) \in Nat
    BY <1>0, NodesCount
  <2> QED
    BY <1>0, <1>2, <2>1 DEF Issue
<1>3. ASSUME NEW r \in Reqs, NEW n \in Nodes, NEW k, CallProxy(r, n, k) PROVE TypeOK'
  <2>1. 1 \in 0 .. MaxList
    BY SMT, DeliveryAssumption
  <2>2. pc' \in [Reqs \X Nodes -> {"idle", "entry", "local", "lookup", "done"}]
    BY <1>0, <1>3 DEF CallProxy
  <2> QED
    BY <1>0, <1>2, <1>3, <2>1, <2>2 DEF CallProxy, userVars
<1>4. ASSUME NEW r \in Reqs, NEW k, NEW e, PublishGlobalMsg(r, k, e) PROVE TypeOK'
  <2>1. todo' \in [Reqs -> SUBSET Nodes]
    BY <1>0, <1>4 DEF PublishGlobalMsg
  <2> QED
    BY <1>0, <1>2, <1>4, <2>1 DEF PublishGlobalMsg, userVars
<1>5. ASSUME NEW r \in Reqs, NEW i \in Entries, NEW d, ToLocalUser(r, i, d)
      PROVE  copies' \in [Reqs \X Entries -> Nat]
  <2>1. copies[<<r, i>>] + 1 \in Nat
    BY SMT, <1>0
  <2> QED
    BY <1>0, <1>5, <2>1 DEF ToLocalUser
<1>6. ASSUME NEW r \in Reqs, NEW n \in Nodes, HandleSubMsg(r, n) PROVE TypeOK'
  <2>1. 1 \in 1 .. MaxList + 1
    BY SMT, DeliveryAssumption
  <2>2. entry' \in [Reqs \X Nodes -> 1 .. MaxList + 1]
    BY <1>0, <1>6, <2>1 DEF HandleSubMsg
  <2>3. pc' \in [Reqs \X Nodes -> {"idle", "entry", "local", "lookup", "done"}]
    BY <1>0, <1>6 DEF HandleSubMsg
  <2>4. todo' \in [Reqs -> SUBSET Nodes]
    BY <1>0, <1>6 DEF HandleSubMsg, Handled
  <2> QED
    BY <1>0, <1>6, <2>2, <2>3, <2>4 DEF HandleSubMsg, userVars
<1>7. ASSUME NEW r \in Reqs, NEW n \in Nodes, HandlerStep(r, n) PROVE TypeOK'
  <2> DEFINE e == entry[<<r, n>>]
  <2>1. ASSUME pc[<<r, n>>] \in Active PROVE e \in Entries /\ e + 1 \in 1 .. MaxList + 1
    <3>1. e <= len[r]
      BY <2>1 DEF IInv, ReqOK, PlaceOK
    <3> QED
      BY SMT, <1>0, <3>1, DeliveryAssumption DEF Entries
  <2>2. ASSUME pc[<<r, n>>] \in Active, NextEntry(r, n)
        PROVE  /\ entry' \in [Reqs \X Nodes -> 1 .. MaxList + 1]
               /\ pc' \in [Reqs \X Nodes -> {"idle", "entry", "local", "lookup", "done"}]
    BY <1>0, <2>1, <2>2 DEF NextEntry
  <2>3. ASSUME NEW d \in Nodes, Send(r, n, d), pc[<<r, n>>] \in Active
        PROVE  way' \in [Reqs \X Entries \X Nodes -> Nodes \cup {Nil}]
    BY <1>0, <2>1, <2>3 DEF Send
  <2>4. CASE SendMessageToTGroup(r, n)
    BY <1>0, <2>2, <2>3, <2>4 DEF SendMessageToTGroup, userVars, reqVars, Active
  <2>5. CASE RouteRequest(r, n)
    BY <1>0, <2>5 DEF RouteRequest, userVars, reqVars
  <2>6. CASE SendLocal(r, n)
    BY <1>0, <1>5, <2>1, <2>2, <2>6 DEF SendLocal, userVars, reqVars, Active
  <2>7. CASE GetUserRpcServer(r, n)
    BY <1>0, <2>2, <2>3, <2>7 DEF GetUserRpcServer, userVars, reqVars, Active
  <2> QED
    BY <1>7, <2>4, <2>5, <2>6, <2>7 DEF HandlerStep
<1>8. ASSUME NEW r \in Reqs, NEW i \in Entries, NEW n \in Nodes,
             Arrive(r, i, n) \/ Lose(r, i, n)
      PROVE  TypeOK'
  <2>1. way' \in [Reqs \X Entries \X Nodes -> Nodes \cup {Nil}]
    BY <1>0, <1>8 DEF Arrive, Arrived, Lose
  <2>2. copies' \in [Reqs \X Entries -> Nat]
    BY <1>0, <1>5, <1>8 DEF Arrive, Lose
  <2> QED
    BY <1>0, <1>8, <2>1, <2>2 DEF Arrive, Lose, userVars, reqVars
<1>9. CASE UNCHANGED vars
  BY <1>0, <1>9 DEF vars
<1>10. CASE DelUserOnlineInfo
  BY <1>0, <1>10 DEF DelUserOnlineInfo, reqVars
<1> QED
  BY <1>1, <1>3, <1>4, <1>6, <1>7, <1>8, <1>9, <1>10 DEF Next

\* The invariant holds before any request and is kept by every step of the user,
\* of RedisProxy, of handleSubMsg, of the groups and of the RPC.
THEOREM DeliveryInvariant == Spec => []IInv
<1>1. Init => IInv
  <2> SUFFICES ASSUME Init PROVE IInv
    OBVIOUS
  <2>1. TypeOK
    <3>1. 0 \in 0 .. MaxLogins /\ 0 \in 0 .. MaxList /\ 0 \in Nat /\ 1 \in 1 .. MaxList + 1
      BY SMT, DeliveryAssumption
    <3> QED
      BY <3>1 DEF Init, TypeOK
  <2>2. ASSUME NEW r \in Reqs PROVE ReqOK(r)
    <3>1. /\ kind[r] = Nil /\ todo[r] = {}
          /\ \A n \in Nodes : pc[<<r, n>>] = "idle" /\ entry[<<r, n>>] = 1
          /\ \A i \in Entries : copies[<<r, i>>] = 0 /\ \A n \in Nodes : way[<<r, i, n>>] = Nil
      BY DEF Init
    <3>2. Nil \notin Direct /\ Nil # "group"
      BY DeliveryAssumption DEF Direct, Published
    <3>3. UnissuedOK(r) /\ \A n \in Nodes : PlaceOK(r, n)
      BY <3>1, <3>2 DEF UnissuedOK, PlaceOK, Active
    <3>4. ASSUME NEW i \in Entries PROVE CountOK(r, i) /\ \A n \in Nodes : SentOK(r, i, n)
      <4>1. Cardinality(Nodes \ Pending(r, i)) \in Nat
        BY NodesCount
      <4>2. SpentOK(r, i)
        BY SMT, <3>1, <4>1 DEF SpentOK
      <4> QED
        BY <3>1, <3>2, <4>2 DEF CountOK, OnceOK, StayOK, SentOK
    <3> QED
      BY <3>3, <3>4 DEF ReqOK
  <2> QED
    BY <2>1, <2>2 DEF IInv
<1>2. IInv /\ [Next]_vars => IInv'
  <2> SUFFICES ASSUME IInv, [Next]_vars, NEW r \in Reqs PROVE ReqOK(r)'
    BY TypeStep DEF IInv
  <2>1. ASSUME NEW n \in Nodes, AddClient(n) \/ DelClient(n) \/ SetUserOnlineInfo(n)
        PROVE  ReqOK(r)'
    BY <2>1, UserStepKeeps
  <2>2. ASSUME NEW q \in Reqs, NEW n, NEW k, NEW e,
               (n \in Nodes /\ CallProxy(q, n, k)) \/ PublishGlobalMsg(q, k, e)
        PROVE  ReqOK(r)'
    BY <2>2, IssueKeeps
  <2>3. ASSUME NEW q \in Reqs, NEW n \in Nodes, HandleSubMsg(q, n) \/ HandlerStep(q, n)
        PROVE  ReqOK(r)'
    BY <2>3, HandleSubMsgKeeps, HandlerStepKeeps
  <2>4. ASSUME NEW q \in Reqs, NEW i \in Entries, NEW n \in Nodes,
               Arrive(q, i, n) \/ Lose(q, i, n)
        PROVE  ReqOK(r)'
    BY <2>4, ArriveKeeps
  <2>5. CASE DelUserOnlineInfo \/ UNCHANGED vars
    BY <2>5, OtherRequest DEF DelUserOnlineInfo, reqVars, vars
  <2> QED
    BY <2>1, <2>2, <2>3, <2>4, <2>5 DEF Next
<1> QED
  BY <1>1, <1>2, PTL DEF Spec

\* The online record names a node, and requests are at the places of their routing.
THEOREM DeliveryTypes == Spec => []TypeOK
<1>1. IInv => TypeOK
  BY DEF IInv
<1> QED
  BY <1>1, DeliveryInvariant, PTL

\* A call of RedisProxy reaches the user at most once, however many clients there
\* are and however they move meanwhile.
THEOREM ProxyCallsReachOnce == Spec => []DirectAtMostOnce
<1>1. IInv => DirectAtMostOnce
  BY DEF IInv, ReqOK, CountOK, OnceOK, DirectAtMostOnce
<1> QED
  BY <1>1, DeliveryInvariant, PTL

\* For each group it is for, a message reaches each client of a user at most once.
THEOREM GroupMessagesOncePerStay == Spec => []GroupOncePerStay
<1>1. IInv => GroupOncePerStay
  <2> SUFFICES ASSUME IInv, NEW r \in Reqs, NEW i \in Entries, kind[r] = "group"
               PROVE  copies[<<r, i>>] <= stays[r]
    BY DEF GroupOncePerStay
  <2>1. copies[<<r, i>>] + Cardinality(at \cap Pending(r, i)) <= stays[r]
    BY DEF IInv, ReqOK, CountOK, StayOK
  <2>2. copies[<<r, i>>] \in Nat /\ stays[r] \in Nat /\ at \cap Pending(r, i) \in SUBSET Nodes
    BY DEF IInv, TypeOK
  <2>3. Cardinality(at \cap Pending(r, i)) \in Nat
    BY <2>2, NodesCount
  <2> QED
    BY SMT, <2>1, <2>2, <2>3
<1> QED
  BY <1>1, DeliveryInvariant, PTL

\* For each group it names, a message published to all nodes reaches a user at most
\* once per node.
THEOREM PublishedOncePerNode == Spec => []AtMostOncePerNode
<1>1. IInv => AtMostOncePerNode
  <2> SUFFICES ASSUME IInv, NEW r \in Reqs, NEW i \in Entries
               PROVE  copies[<<r, i>>] <= Cardinality(Nodes)
    BY DEF AtMostOncePerNode
  <2>1. copies[<<r, i>>] \in Nat /\ copies[<<r, i>>] <= Cardinality(Nodes \ Pending(r, i))
    BY DEF IInv, TypeOK, ReqOK, CountOK, SpentOK
  <2>2. /\ Cardinality(Nodes \ Pending(r, i)) \in Nat /\ Cardinality(Nodes) \in Nat
        /\ Cardinality(Nodes \ Pending(r, i)) <= Cardinality(Nodes)
    BY NodesCount
  <2> QED
    BY SMT, <2>1, <2>2
<1> QED
  BY <1>1, DeliveryInvariant, PTL
=============================================================================
