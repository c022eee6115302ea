--------------------------- MODULE Serving_proofs ---------------------------
(***************************************************************************)
(* The seam between two chunks, for any nodes, chunk size, delays, number  *)
(* of sessions, requests and faults: a session with the worker to itself   *)
(* continues no chunk of another one, and a chunk that arrives in time     *)
(* does not change the action the robot is about to execute.               *)
(***************************************************************************)
EXTENDS Serving, Integers, SequenceTheorems, TLAPS

USE ServerAssumption, ServingAssumption

-----------------------------------------------------------------------------
(* Where a request is: in the executor's queue, on the worker, or on its    *)
(* way back.                                                                *)
Elems(q) == {q[i] : i \in DOMAIN q}

OnceEach(q) == \A i, j \in DOMAIN q : i # j => q[i].id # q[j].id

Queued == Elems(queue)

Working == IF forward = Nothing THEN {} ELSE {forward.req}

Answered == {a.req : a \in answers}

Asked == Queued \cup Working \cup Answered

Openings == {"no", "load", "reset raw", "reset raw start", "reset trail", "reset start",
             "register"}

BoxTypes ==
    /\ loaded \in BOOLEAN
    /\ opens \in Nat /\ opener \in Seq(Nodes) /\ Len(opener) = opens
    /\ opening \in Openings /\ (opening # "no" => opens # 0)
    /\ live \subseteq Nat
    /\ trailStart \in Nat
    /\ queue \in Seq(Request)
    /\ forward # Nothing =>
          /\ forward = [at |-> forward.at, req |-> forward.req, prev |-> forward.prev,
                        base |-> forward.base, vectors |-> forward.vectors]
          /\ forward.at \in {"predict", "raw start", "blend", "start", "done"}
    /\ Asked \subseteq Request

HasShape(S) ==
    /\ S = [data |-> S.data, cursor |-> S.cursor, floor |-> S.floor]
    /\ S.cursor \in Nat /\ S.floor \in Nat /\ Scheduled(S) \subseteq Nat

ClientTypes ==
    /\ clock \in Nat
    /\ session \in [Nodes -> Nat] /\ waiting \in [Nodes -> Nat] /\ merged \in [Nodes -> Nat]
    /\ sched = [n \in Nodes |-> sched[n]] /\ \A n \in Nodes : HasShape(sched[n])

Types == BoxTypes /\ ClientTypes

-----------------------------------------------------------------------------
(* The executor's queue.                                                    *)
LEMMA AppendElems ==
    ASSUME NEW S, NEW q \in Seq(S), NEW e \in S
    PROVE  /\ Append(q, e) \in Seq(S)
           /\ Elems(Append(q, e)) = Elems(q) \cup {e}
           /\ OnceEach(q) /\ (\A r \in Elems(q) : r.id # e.id) => OnceEach(Append(q, e))
<1> DEFINE n == Len(q)
           p == Append(q, e)
<1>1. /\ n \in Nat /\ DOMAIN q = 1 .. n /\ DOMAIN p = 1 .. n + 1 /\ p \in Seq(S)
      /\ \A i \in 1 .. n : p[i] = q[i]
      /\ p[n + 1] = e
  BY AppendProperties, LenProperties
<1> HIDE DEF n, p
<1>2. \A i \in 1 .. n + 1 : i \in 1 .. n \/ i = n + 1
  BY <1>1
<1>3. n + 1 \in 1 .. n + 1 /\ 1 .. n \subseteq 1 .. n + 1
  BY <1>1
<1>4. Elems(p) = Elems(q) \cup {e}
  BY <1>1, <1>2, <1>3 DEF Elems
<1>5. ASSUME OnceEach(q), \A r \in Elems(q) : r.id # e.id PROVE OnceEach(p)
  <2>1. \A i \in 1 .. n : q[i].id # e.id
    BY <1>1, <1>5 DEF Elems
  <2> QED BY <1>1, <1>2, <1>5, <2>1 DEF OnceEach
<1> QED BY <1>1, <1>4, <1>5 DEF p

LEMMA TailElems ==
    ASSUME NEW S, NEW q \in Seq(S), q # <<>>
    PROVE  /\ Tail(q) \in Seq(S) /\ Head(q) \in S
           /\ Elems(q) = Elems(Tail(q)) \cup {Head(q)}
           /\ OnceEach(q) => /\ OnceEach(Tail(q))
                             /\ \A r \in Elems(Tail(q)) : r.id # Head(q).id
<1> DEFINE n == Len(q)
           p == Tail(q)
           h == Head(q)
<1>1. /\ n \in Nat \ {0} /\ DOMAIN q = 1 .. n /\ DOMAIN p = 1 .. n - 1 /\ p \in Seq(S)
      /\ \A i \in 1 .. n - 1 : p[i] = q[i + 1]
      /\ h = q[1] /\ h \in S
  <2>1. h = q[1]
    OBVIOUS
  <2> QED BY <2>1, HeadTailProperties, LenProperties, EmptySeq
<1> HIDE DEF n, p, h
<1>2. 1 \in 1 .. n /\ \A i \in 1 .. n - 1 : i + 1 \in 1 .. n /\ i + 1 # 1
  BY <1>1
<1>3. \A i \in 1 .. n : i = 1 \/ (i - 1 \in 1 .. n - 1 /\ p[i - 1] = q[i])
  BY <1>1
<1>4. Elems(q) = Elems(p) \cup {h}
  <2>1. \A i \in 1 .. n : q[i] = h \/ \E j \in 1 .. n - 1 : q[i] = p[j]
    BY <1>1, <1>3
  <2>2. \A j \in 1 .. n - 1 : \E i \in 1 .. n : p[j] = q[i]
    BY <1>1, <1>2
  <2>3. \E i \in 1 .. n : h = q[i]
    BY <1>1, <1>2
  <2>4. \A x : x \in Elems(q) <=> \E i \in 1 .. n : x = q[i]
    BY <1>1, Zenon DEF Elems
  <2>5. \A x : x \in Elems(p) <=> \E j \in 1 .. n - 1 : x = p[j]
    BY <1>1, Zenon DEF Elems
  <2>6. \A x : x \in Elems(q) <=> x \in Elems(p) \/ x = h
    BY <2>1, <2>2, <2>3, <2>4, <2>5, Zenon
  <2> QED BY <2>6
<1>5. ASSUME OnceEach(q) PROVE OnceEach(p) /\ \A r \in Elems(p) : r.id # h.id
  <2>1. \A i, j \in 1 .. n - 1 : i # j => i + 1 # j + 1
    BY <1>1
  <2>2. OnceEach(p)
    <3> SUFFICES ASSUME NEW i \in 1 .. n - 1, NEW j \in 1 .. n - 1, i # j
                 PROVE  p[i].id # p[j].id
      BY <1>1 DEF OnceEach
    <3>1. i + 1 \in 1 .. n /\ j + 1 \in 1 .. n /\ i + 1 # j + 1
      BY <1>2, <2>1
    <3>2. q[i + 1].id # q[j + 1].id
      BY <1>1, <1>5, <3>1 DEF OnceEach
    <3> QED BY <1>1, <3>2
  <2>3. \A i \in 1 .. n - 1 : q[i + 1].id # q[1].id
    BY <1>1, <1>2, <1>5 DEF OnceEach
  <2> QED BY <1>1, <2>2, <2>3 DEF Elems
<1> QED BY <1>1, <1>4, <1>5 DEF p, h

-----------------------------------------------------------------------------
(* The client's plan.                                                       *)
LEMMA MergeEffect ==
    ASSUME NEW S, HasShape(S), NEW c, c.start \in Nat, c.len \in Nat
    PROVE  LET T == Merge(S, c)
           IN  /\ HasShape(T) /\ T.cursor = S.cursor /\ T.floor = S.floor
               /\ Scheduled(T) = Scheduled(S) \cup Installs(S, c)
               /\ \A k \in Scheduled(T) :
                      T.data[k] = IF k \in Installs(S, c) THEN c.ts ELSE S.data[k]
<1> DEFINE steps == Scheduled(S) \cup Installs(S, c)
           data  == [k \in steps |-> IF k \in Installs(S, c) THEN c.ts ELSE S.data[k]]
           T == Merge(S, c)
<1>1. T = [data |-> data, cursor |-> S.cursor, floor |-> S.floor]
  BY DEF Merge, HasShape
<1>2. steps \subseteq Nat
  BY DEF Installs, Span, HasShape
<1>3. DOMAIN data = steps /\ \A k \in steps :
          data[k] = IF k \in Installs(S, c) THEN c.ts ELSE S.data[k]
  OBVIOUS
<1> HIDE DEF data, T
<1>4. Scheduled(T) = steps /\ T.cursor = S.cursor /\ T.floor = S.floor /\ T.data = data
      /\ T = [data |-> T.data, cursor |-> T.cursor, floor |-> T.floor]
  BY <1>1, <1>3 DEF Scheduled
<1>5. HasShape(T)
  BY <1>2, <1>4 DEF HasShape
<1> QED BY <1>3, <1>4, <1>5 DEF T

LEMMA PopEffect ==
    ASSUME NEW S, HasShape(S), CanPop(S)
    PROVE  LET T == PopNext(S)
           IN  /\ HasShape(T) /\ T.cursor = S.cursor + 1 /\ T.floor = S.floor
               /\ Scheduled(T) = Scheduled(S) \ {S.cursor}
               /\ \A k \in Scheduled(T) : T.data[k] = S.data[k]
<1> DEFINE steps == Scheduled(S) \ {S.cursor}
           data  == [k \in steps |-> S.data[k]]
           T == PopNext(S)
<1>1. T = [data |-> data, cursor |-> S.cursor + 1, floor |-> S.floor]
  BY DEF PopNext, HasShape
<1>2. steps \subseteq Nat
  BY DEF HasShape
<1>3. DOMAIN data = steps /\ \A k \in steps : data[k] = S.data[k]
  OBVIOUS
<1> HIDE DEF data, T
<1>4. Scheduled(T) = steps /\ T.cursor = S.cursor + 1 /\ T.floor = S.floor /\ T.data = data
      /\ T = [data |-> T.data, cursor |-> T.cursor, floor |-> T.floor]
  BY <1>1, <1>3 DEF Scheduled
<1>5. HasShape(T)
  BY <1>2, <1>4 DEF HasShape
<1> QED BY <1>3, <1>4, <1>5 DEF T

LEMMA FlushEffect ==
    ASSUME NEW S, HasShape(S), NEW ts \in Nat
    PROVE  LET T == FlushBarrier(S, ts)
           IN  /\ HasShape(T) /\ T.cursor = S.cursor /\ Scheduled(T) = {}
               /\ T.floor \in {S.floor, ts}
<1>1. FlushBarrier(S, ts) = [data |-> NoActions, cursor |-> S.cursor,
                             floor |-> IF ts > S.floor THEN ts ELSE S.floor]
  <2> DEFINE F == Flush(S)
  <2>1. F = [data |-> NoActions, cursor |-> S.cursor, floor |-> S.floor]
    BY DEF Flush, HasShape
  <2>2. FlushBarrier(S, ts) = [F EXCEPT !.floor = IF ts > F.floor THEN ts ELSE F.floor]
    BY DEF FlushBarrier
  <2> HIDE DEF F
  <2> QED BY <2>1, <2>2
<1>2. DOMAIN NoActions = {}
  BY DEF NoActions
<1> QED BY <1>1, <1>2 DEF HasShape, Scheduled

LEMMA EmptyShape == HasShape(EmptySchedule) /\ Scheduled(EmptySchedule) = {}
BY DEF EmptySchedule, NoActions, HasShape, Scheduled

-----------------------------------------------------------------------------
(* How the requests travel.                                                 *)
LEMMA Resting ==
    ASSUME UNCHANGED workVars
    PROVE  Queued' = Queued /\ Working' = Working /\ Answered' = Answered /\ Asked' = Asked
BY DEF workVars, Queued, Working, Answered, Asked

LEMMA Accepted ==
    ASSUME BoxTypes, NEW r \in Request, AcceptInfer(r)
    PROVE  /\ queue' \in Seq(Request) /\ Queued' = Queued \cup {r} /\ Working' = Working
           /\ Answered' = Answered /\ Asked' = Asked \cup {r}
           /\ OnceEach(queue) /\ (\A q \in Queued : q.id # r.id) => OnceEach(queue')
<1>1. /\ queue' \in Seq(Request) /\ Elems(queue') = Elems(queue) \cup {r}
      /\ OnceEach(queue) /\ (\A q \in Elems(queue) : q.id # r.id) => OnceEach(queue')
  <2>1. queue \in Seq(Request) /\ queue' = Append(queue, r)
    BY DEF BoxTypes, AcceptInfer
  <2> QED BY <2>1, AppendElems
<1>2. Working' = Working /\ Answered' = Answered
  BY DEF AcceptInfer, Working, Answered
<1> QED BY <1>1, <1>2 DEF Queued, Asked

LEMMA Begun ==
    ASSUME BoxTypes, BeginsForward
    PROVE  /\ queue' \in Seq(Request) /\ Head(queue) \in Request
           /\ Queued = Queued' \cup {Head(queue)} /\ Working = {}
           /\ Working' \subseteq {Head(queue)}
           /\ Answered' = Answered /\ Asked' \subseteq Asked
           /\ OnceEach(queue) => /\ OnceEach(queue')
                                 /\ \A r \in Queued' : r.id # Head(queue).id
           /\ forward' = [at |-> "predict", req |-> Head(queue), prev |-> Leftover(Head(queue)),
                          base |-> 0, vectors |-> <<>>]
<1>1. /\ queue' \in Seq(Request) /\ Head(queue) \in Request
      /\ Elems(queue) = Elems(queue') \cup {Head(queue)}
      /\ OnceEach(queue) => /\ OnceEach(queue')
                            /\ \A r \in Elems(queue') : r.id # Head(queue).id
  <2>1. queue \in Seq(Request) /\ queue # <<>> /\ queue' = Tail(queue)
    BY DEF BoxTypes, BeginsForward
  <2> QED BY <2>1, TailElems
<1>2. forward' = [at |-> "predict", req |-> Head(queue), prev |-> Leftover(Head(queue)),
                  base |-> 0, vectors |-> <<>>]
  BY DEF BeginsForward
<1>3. Working = {} /\ Working' \subseteq {Head(queue)} /\ Answered' = Answered
  BY <1>2 DEF BeginsForward, Working, Answered
<1> QED BY <1>1, <1>2, <1>3 DEF Queued, Asked

(* The worker stores, or predicts again: the request stays where it is.     *)
LEMMA Computing ==
    ASSUME BoxTypes, Computes \/ RtcFails
    PROVE  /\ forward # Nothing /\ queue' = queue /\ answers' = answers
           /\ Queued' = Queued /\ Working' \subseteq Working /\ Answered' = Answered
           /\ Asked' \subseteq Asked
           /\ forward' = [at |-> forward'.at, req |-> forward'.req, prev |-> forward'.prev,
                          base |-> forward'.base, vectors |-> forward'.vectors]
           /\ forward'.req = forward.req
           /\ forward'.at \in {"predict", "raw start", "blend", "start", "done"}
<1>1. /\ forward # Nothing /\ queue' = queue /\ answers' = answers
      /\ forward' = [at |-> forward'.at, req |-> forward'.req, prev |-> forward'.prev,
                     base |-> forward'.base, vectors |-> forward'.vectors]
      /\ forward'.req = forward.req
      /\ forward'.at \in {"predict", "raw start", "blend", "start", "done"}
  <2>0. CASE RtcFails
    BY <2>0 DEF RtcFails, BoxTypes
  <2>1. ASSUME forward # Nothing, StoresRaw \/ StoresRawStart \/ StoresTrail \/ StoresStart
        PROVE  /\ forward' = [at |-> forward'.at, req |-> forward'.req, prev |-> forward'.prev,
                              base |-> forward'.base, vectors |-> forward'.vectors]
               /\ forward'.req = forward.req
               /\ forward'.at \in {"predict", "raw start", "blend", "start", "done"}
    <3>1. CASE StoresRaw
      BY <2>1, <3>1 DEF StoresRaw, BoxTypes
    <3>2. CASE StoresRawStart
      BY <2>1, <3>2 DEF StoresRawStart, BoxTypes
    <3>3. CASE StoresTrail
      BY <2>1, <3>3 DEF StoresTrail, BoxTypes
    <3>4. CASE StoresStart
      BY <2>1, <3>4 DEF StoresStart, BoxTypes
    <3> QED BY <2>1, <3>1, <3>2, <3>3, <3>4
  <2> QED BY <2>0, <2>1 DEF Computes
<1>2. Queued' = Queued /\ Working' \subseteq Working /\ Answered' = Answered
  BY <1>1 DEF Queued, Working, Answered
<1> QED BY <1>1, <1>2 DEF Asked

LEMMA Answering ==
    ASSUME Answers
    PROVE  /\ Queued' = Queued /\ Working = {forward.req} /\ Working' = {}
           /\ Answered' = Answered \cup {forward.req} /\ Asked' \subseteq Asked
<1>1. /\ queue' = queue /\ forward' = Nothing /\ forward # Nothing
      /\ answers' = answers \cup {[req |-> forward.req, base |-> forward.base,
                                   vectors |-> forward.vectors]}
  BY DEF Answers
<1>2. Answered' = Answered \cup {forward.req}
  <2> DEFINE b == [req |-> forward.req, base |-> forward.base, vectors |-> forward.vectors]
  <2>1. b.req = forward.req /\ answers' = answers \cup {b}
    BY <1>1
  <2> HIDE DEF b
  <2> QED BY <2>1 DEF Answered
<1>3. Queued' = Queued /\ Working = {forward.req} /\ Working' = {}
  BY <1>1 DEF Queued, Working
<1> QED BY <1>2, <1>3 DEF Asked

(* An answer is merged, or nobody takes it.                                 *)
LEMMA Taken ==
    ASSUME NEW a \in answers, answers' = answers \ {a}, UNCHANGED <<queue, forward>>
    PROVE  /\ Queued' = Queued /\ Working' = Working /\ Answered' \subseteq Answered
           /\ Asked' \subseteq Asked
BY DEF Queued, Working, Answered, Asked

-----------------------------------------------------------------------------
LEMMA InitTypes == Init => Types
<1> SUFFICES ASSUME Init PROVE Types
  OBVIOUS
<1>1. BoxTypes
  <2>1. Queued = {} /\ Working = {} /\ Answered = {} /\ queue = <<>>
    BY DEF Init, ServerInit, Queued, Working, Answered, Elems
  <2>2. queue \in Seq(Request) /\ opener \in Seq(Nodes) /\ Len(opener) = 0
    BY DEF Init, ServerInit
  <2> QED BY <2>1, <2>2 DEF Init, ServerInit, BoxTypes, Asked, Openings
<1>2. ClientTypes
  BY EmptyShape DEF Init, ClientTypes
<1> QED BY <1>1, <1>2 DEF Types

(* One client's plan is replaced.                                           *)
LEMMA Replanned ==
    ASSUME ClientTypes, NEW n \in Nodes, NEW T, HasShape(T), sched' = [sched EXCEPT ![n] = T]
    PROVE  /\ sched' = [m \in Nodes |-> sched'[m]] /\ \A m \in Nodes : HasShape(sched'[m])
           /\ sched'[n] = T /\ \A m \in Nodes \ {n} : sched'[m] = sched[m]
BY DEF ClientTypes

LEMMA ClientSteps == ClientTypes /\ BoxTypes /\ [Next]_vars => ClientTypes'
<1> SUFFICES ASSUME ClientTypes, BoxTypes, [Next]_vars PROVE ClientTypes'
  OBVIOUS
<1>1. ASSUME NEW n \in Nodes, Connects(n) PROVE ClientTypes'
  BY <1>1, Replanned, EmptyShape DEF Connects, ClientTypes
<1>2. ASSUME NEW n \in Nodes, Leaves(n) PROVE ClientTypes'
  BY <1>2 DEF Leaves, ClientTypes
<1>3. ASSUME NEW n \in Nodes, GivesUp(n) PROVE ClientTypes'
  BY <1>3 DEF GivesUp, ClientTypes
<1>4. ASSUME NEW n \in Nodes, Executes(n) PROVE ClientTypes'
  <2>1. HasShape(PopNext(sched[n]))
    BY <1>4, PopEffect DEF Executes, ClientTypes
  <2> QED BY <1>4, <2>1, Replanned DEF Executes, ClientTypes
<1>5. ASSUME NEW n \in Nodes, Barrier(n) PROVE ClientTypes'
  <2>1. HasShape(FlushBarrier(sched[n], clock + 1))
    <3>1. clock + 1 \in Nat /\ HasShape(sched[n])
      BY DEF ClientTypes
    <3> QED BY <3>1, FlushEffect
  <2> QED BY <1>5, <2>1, Replanned DEF Barrier, ClientTypes
<1>6. ASSUME NEW n \in Nodes, NEW d \in Delays, Asks(n, d) PROVE ClientTypes'
  BY <1>6 DEF Asks, ClientTypes
<1>7. ASSUME NEW n \in Nodes, NEW a \in answers, Merges(n, a) PROVE ClientTypes'
  <2>1. a.req \in Request
    BY DEF BoxTypes, Asked, Answered
  <2> DEFINE c == [ts |-> a.req.id, start |-> a.req.start, len |-> ChunkSize]
  <2>2. c.start \in Nat /\ c.len \in Nat /\ a.req.id \in Nat
    BY <2>1 DEF Request
  <2> HIDE DEF c
  <2>3. HasShape(Merge(sched[n], c))
    BY <2>2, MergeEffect DEF ClientTypes
  <2>4. sched' = [sched EXCEPT ![n] = Merge(sched[n], c)] /\ merged' = [merged EXCEPT ![n] = a.req.id]
        /\ waiting' = [waiting EXCEPT ![n] = 0] /\ UNCHANGED <<clock, session>>
    BY <1>7 DEF Merges, c
  <2> QED BY <2>2, <2>3, <2>4, Replanned DEF ClientTypes
<1>8. CASE Opened
  <2>1. session' \in [Nodes -> Nat]
    BY <1>8 DEF Opened, ClientTypes, BoxTypes
  <2> QED BY <1>8, <2>1 DEF Opened, ClientTypes
<1>9. CASE UNCHANGED clientVars
  BY <1>9 DEF clientVars, ClientTypes
<1>. QED
  BY <1>1, <1>2, <1>3, <1>4, <1>5, <1>6, <1>7, <1>8, <1>9
     DEF Next, vars, OpenStep, Serves, Degrades, Collected, Unheard, clientVars

LEMMA BoxSteps == ClientTypes /\ BoxTypes /\ [Next]_vars => BoxTypes'
<1> SUFFICES ASSUME ClientTypes, BoxTypes, [Next]_vars PROVE BoxTypes'
  OBVIOUS
<1>1. ASSUME NEW n \in Nodes, Connects(n) PROVE BoxTypes'
  <2>1. opener' \in Seq(Nodes) /\ Len(opener') = opens' /\ opens' \in Nat \ {0}
    <3>1. /\ opener \in Seq(Nodes) /\ opener' = Append(opener, n) /\ opens' = opens + 1
          /\ opens \in Nat /\ Len(opener) = opens
      BY <1>1 DEF Connects, BeginOpen, BoxTypes
    <3> QED BY <3>1, AppendProperties
  <2> QED BY <1>1, <2>1, Resting DEF Connects, BeginOpen, BoxTypes, Openings, trailVars, workVars
<1>2. ASSUME NEW n \in Nodes, Leaves(n) PROVE BoxTypes'
  BY <1>2, Resting DEF Leaves, CloseSession, BoxTypes, trailVars, workVars
<1>3. ASSUME NEW n \in Nodes, GivesUp(n) \/ Executes(n) \/ Barrier(n) PROVE BoxTypes'
  BY <1>3, Resting DEF GivesUp, Executes, Barrier, BoxTypes, serverVars, trailVars, workVars,
                       sessionVars
<1>4. ASSUME NEW n \in Nodes, NEW d \in Delays, Asks(n, d) PROVE BoxTypes'
  <2> DEFINE r == [id |-> clock + 1, session |-> session[n], start |-> sched[n].cursor, delay |-> d]
  <2>1. r \in Request /\ AcceptInfer(r)
    BY <1>4 DEF Asks, ClientTypes, HasShape, Request
  <2> HIDE DEF r
  <2>2. queue' \in Seq(Request) /\ Asked' = Asked \cup {r}
    BY <2>1, Accepted
  <2> QED BY <2>1, <2>2 DEF AcceptInfer, BoxTypes, sessionVars, trailVars
<1>5. ASSUME NEW n \in Nodes, NEW a \in answers, Merges(n, a) PROVE BoxTypes'
  BY <1>5, Taken DEF Merges, BoxTypes, trailVars, sessionVars
<1>6. ASSUME NEW a \in answers, Unheard(a) PROVE BoxTypes'
  BY <1>6, Taken DEF Unheard, BoxTypes, trailVars, sessionVars
<1>7. ASSUME NEW s \in live, Collected(s) PROVE BoxTypes'
  BY <1>7, Resting DEF Collected, IdleGc, BoxTypes, trailVars, workVars
<1>8. CASE Opened
  BY <1>8, Resting DEF Opened, Registers, BoxTypes, Openings, trailVars, workVars
<1>9. CASE OpenStep
  <2>1. CASE Load \/ LoadFails
    BY <2>1, Resting DEF Load, LoadFails, BoxTypes, Openings, trailVars, workVars
  <2>2. CASE Resets
    <3>1. /\ opening' \in Openings /\ trailStart' \in Nat
      <4>1. CASE ResetsRaw
        BY <4>1 DEF ResetsRaw, AfterStore, BoxTypes, Openings
      <4>2. CASE ResetsRawStart
        BY <4>2 DEF ResetsRawStart, AfterStore, BoxTypes, Openings
      <4>3. CASE ResetsTrail
        BY <4>3 DEF ResetsTrail, AfterStore, BoxTypes, Openings
      <4>4. CASE ResetsStart
        BY <4>4 DEF ResetsStart, AfterStore, BoxTypes, Openings
      <4> QED BY <2>2, <4>1, <4>2, <4>3, <4>4 DEF Resets
    <3>2. opening # "no"
      BY <2>2 DEF Resets, ResetsRaw, ResetsRawStart, ResetsTrail, ResetsStart
    <3> QED BY <2>2, <3>1, <3>2, Resting DEF Resets, BoxTypes, workVars
  <2> QED BY <1>9, <2>1, <2>2 DEF OpenStep
<1>10. CASE BeginsForward
  BY <1>10, Begun DEF BeginsForward, BoxTypes, trailVars, sessionVars
<1>11. CASE Computes
  <2>1. forward.req \in Request
    BY <1>11 DEF BoxTypes, Asked, Working, Computes
  <2>2. trailStart' \in Nat
    <3>1. CASE StoresRaw
      BY <3>1 DEF StoresRaw, BoxTypes
    <3>2. CASE StoresRawStart
      BY <3>2 DEF StoresRawStart, BoxTypes
    <3>3. CASE StoresTrail
      BY <3>3 DEF StoresTrail, BoxTypes
    <3>4. CASE StoresStart
      BY <2>1, <3>4 DEF StoresStart, BoxTypes, Request
    <3> QED BY <1>11, <3>1, <3>2, <3>3, <3>4 DEF Computes
  <2> QED BY <1>11, <2>2, Computing DEF Computes, BoxTypes, sessionVars
<1>12. CASE Answers
  <2>1. forward' = Nothing
    BY <1>12 DEF Answers
  <2> QED BY <1>12, <2>1, Answering DEF Answers, BoxTypes, trailVars, sessionVars
<1>13. CASE Degrades
  BY <1>13, Computing DEF Degrades, RtcFails, BoxTypes, trailVars, sessionVars
<1>14. CASE UNCHANGED vars
  BY <1>14, Resting DEF vars, serverVars, BoxTypes, trailVars, workVars, sessionVars
<1>. QED
  BY <1>1, <1>2, <1>3, <1>4, <1>5, <1>6, <1>7, <1>8, <1>9, <1>10, <1>11, <1>12, <1>13, <1>14
     DEF Next, Serves

-----------------------------------------------------------------------------
(* No two requests have one number, and a client does not hear again of the *)
(* request it merged last.                                                  *)
Once ==
    /\ \A r \in Asked : r.id \in 1 .. clock
    /\ OnceEach(queue)
    /\ \A r \in Queued : \A q \in Working \cup Answered : q.id # r.id
    /\ \A q \in Working : \A r \in Answered : q.id # r.id
    /\ \A a, b \in answers : a.req.id = b.req.id => a = b
    /\ \A n \in Nodes : merged[n] =< clock /\ \A r \in Asked : merged[n] # r.id

LEMMA InitOnce == Init => Once
<1> SUFFICES ASSUME Init PROVE Once
  OBVIOUS
<1>1. Queued = {} /\ Working = {} /\ Answered = {} /\ queue = <<>>
  BY DEF Init, ServerInit, Queued, Working, Answered, Elems
<1>2. OnceEach(queue)
  BY <1>1 DEF OnceEach
<1> QED BY <1>1, <1>2 DEF Init, ServerInit, Once, Asked

LEMMA OnceSteps == Types /\ Once /\ [Next]_vars => Once'
<1> SUFFICES ASSUME Types, Once, [Next]_vars PROVE Once'
  OBVIOUS
<1>1. /\ BoxTypes /\ Asked \subseteq Request /\ clock \in Nat /\ merged \in [Nodes -> Nat]
      /\ \A r \in Asked : r.id \in Nat /\ r.id >= 1 /\ r.id =< clock
      /\ \A n \in Nodes : merged[n] \in Nat /\ merged[n] =< clock
      /\ Asked = Queued \cup Working \cup Answered
  <2>1. BoxTypes /\ Asked \subseteq Request /\ clock \in Nat /\ merged \in [Nodes -> Nat]
    BY DEF Types, BoxTypes, ClientTypes
  <2>2. \A r \in Asked : r.id \in Nat /\ r.id >= 1 /\ r.id =< clock
    BY <2>1 DEF Once
  <2>3. \A n \in Nodes : merged[n] \in Nat /\ merged[n] =< clock
    BY <2>1 DEF Once
  <2> QED BY <2>1, <2>2, <2>3 DEF Asked
<1>2. CASE UNCHANGED <<workVars, merged>> /\ clock' \in Nat /\ clock' >= clock
  BY <1>1, <1>2, Resting DEF Once, workVars
<1>3. ASSUME NEW n \in Nodes, Connects(n) PROVE Once'
  <2>1. \A m \in Nodes : merged'[m] \in {0, merged[m]}
    BY <1>1, <1>3 DEF Connects
  <2>2. UNCHANGED <<workVars, clock>>
    BY <1>3 DEF Connects, BeginOpen
  <2> QED BY <1>1, <2>1, <2>2, Resting DEF Once, workVars
<1>4. ASSUME NEW n \in Nodes, NEW d \in Delays, Asks(n, d) PROVE Once'
  <2> DEFINE r == [id |-> clock + 1, session |-> session[n], start |-> sched[n].cursor, delay |-> d]
  <2>1. r \in Request /\ AcceptInfer(r) /\ r.id = clock + 1
    BY <1>4 DEF Asks, Types, ClientTypes, HasShape, Request
  <2> HIDE DEF r
  <2>2. \A q \in Asked : q.id # r.id
    BY <1>1, <2>1
  <2>3. /\ Queued' = Queued \cup {r} /\ Working' = Working /\ Answered' = Answered
        /\ Asked' = Asked \cup {r} /\ OnceEach(queue')
    BY <1>1, <2>1, <2>2, Accepted DEF Once
  <2>4. clock' = clock + 1 /\ merged' = merged /\ answers' = answers
    BY <1>4 DEF Asks, AcceptInfer
  <2>5. \A q \in Asked' : q.id \in 1 .. clock'
    BY <1>1, <2>1, <2>3, <2>4
  <2>6. \A m \in Nodes : merged'[m] =< clock' /\ \A q \in Asked' : merged'[m] # q.id
    BY <1>1, <2>1, <2>3, <2>4 DEF Once
  <2> QED BY <1>1, <2>2, <2>3, <2>4, <2>5, <2>6 DEF Once
<1>5. ASSUME NEW a \in answers, answers' = answers \ {a}, UNCHANGED <<queue, forward, clock>>,
             \A n \in Nodes : merged'[n] \in {merged[n], a.req.id}
      PROVE  Once'
  <2>1. /\ Queued' = Queued /\ Working' = Working /\ Answered' \subseteq Answered
        /\ Asked' \subseteq Asked
    BY <1>5, Taken
  <2>2. \A r \in Asked' : r.id # a.req.id
    <3>1. \A r \in Answered' : r.id # a.req.id
      BY <1>5 DEF Answered, Once
    <3>2. \A r \in Queued' \cup Working' : r.id # a.req.id
      BY <2>1 DEF Answered, Once
    <3> QED BY <3>1, <3>2 DEF Asked
  <2>3. a.req.id =< clock
    BY <1>1 DEF Answered
  <2>4. \A n \in Nodes : merged'[n] =< clock' /\ \A r \in Asked' : merged'[n] # r.id
    BY <1>1, <1>5, <2>1, <2>2, <2>3 DEF Once
  <2> QED BY <1>5, <2>1, <2>4 DEF Once
<1>6. ASSUME NEW n \in Nodes, NEW a \in answers, Merges(n, a) PROVE Once'
  <2>1. \A m \in Nodes : merged'[m] \in {merged[m], a.req.id}
    BY <1>1, <1>6 DEF Merges
  <2> QED BY <1>5, <1>6, <2>1 DEF Merges
<1>7. ASSUME NEW a \in answers, Unheard(a) PROVE Once'
  BY <1>5, <1>7 DEF Unheard, clientVars
<1>8. ASSUME BeginsForward, UNCHANGED clientVars PROVE Once'
  <2>1. UNCHANGED <<answers, clock, merged>>
    BY <1>8 DEF BeginsForward, clientVars
  <2>2. Head(queue) \in Queued
    BY <1>1, <1>8, Begun
  <2> QED BY <1>1, <1>8, <2>1, <2>2, Begun DEF Once
<1>9. ASSUME Computes \/ RtcFails, UNCHANGED clientVars PROVE Once'
  <2>1. UNCHANGED <<clock, merged>>
    BY <1>9 DEF clientVars
  <2> QED BY <1>1, <1>9, <2>1, Computing DEF Once
<1>10. ASSUME Answers, UNCHANGED clientVars PROVE Once'
  <2>1. UNCHANGED <<queue, clock, merged>>
    BY <1>10 DEF Answers, clientVars
  <2>2. /\ Queued' = Queued /\ Working = {forward.req} /\ Working' = {}
        /\ Answered' = Answered \cup {forward.req} /\ Asked' \subseteq Asked
    BY <1>10, Answering
  <2>3. \A a, b \in answers' : a.req.id = b.req.id => a = b
    <3> DEFINE c == [req |-> forward.req, base |-> forward.base, vectors |-> forward.vectors]
    <3>1. answers' = answers \cup {c} /\ c.req = forward.req
      BY <1>10 DEF Answers
    <3> HIDE DEF c
    <3>2. \A a \in answers : a.req.id # c.req.id
      BY <2>2, <3>1 DEF Once, Answered
    <3> QED BY <3>1, <3>2 DEF Once
  <2> QED BY <1>1, <2>1, <2>2, <2>3 DEF Once
<1>11. CASE \/ \E n \in Nodes : Leaves(n) \/ GivesUp(n) \/ Executes(n) \/ Barrier(n)
            \/ \E s \in live : Collected(s)
            \/ Opened \/ OpenStep \/ UNCHANGED vars
  <2>1. UNCHANGED <<workVars, merged>>
    BY <1>11 DEF Leaves, CloseSession, GivesUp, Executes, Barrier, Collected, IdleGc, Opened,
                 Registers, OpenStep, Load, LoadFails, Resets, vars, serverVars, clientVars
  <2>2. clock' \in {clock, clock + 1}
    BY <1>11 DEF Leaves, GivesUp, Executes, Barrier, Collected, Opened,
                 OpenStep, vars, clientVars
  <2> QED BY <1>1, <1>2, <2>1, <2>2
<1>. QED
  BY <1>3, <1>4, <1>6, <1>7, <1>8, <1>9, <1>10, <1>11 DEF Next, Serves, Degrades

-----------------------------------------------------------------------------
(* Sessions are numbered as they open.  While one opens, its client has     *)
(* nothing and no request knows it; before the backend is there, nothing is *)
(* under way.                                                               *)
Opening ==
    /\ \A s \in live : s =< opens
    /\ \A n \in Nodes : session[n] =< opens
    /\ \A r \in Asked : r.session =< opens
    /\ opening # "no" =>
          /\ \A s \in live : s < opens
          /\ \A n \in Nodes : session[n] < opens
          /\ \A r \in Asked : r.session < opens
          /\ waiting[opener[opens]] = 0 /\ merged[opener[opens]] = 0
          /\ Scheduled(sched[opener[opens]]) = {}
    /\ ~loaded =>
          /\ live = {} /\ queue = <<>> /\ forward = Nothing
          /\ trail = Nothing /\ rawTrail = Nothing /\ opening \in {"no", "load"}
    /\ opening = "load" => ~loaded

LEMMA OpenerIsNode == BoxTypes /\ opens # 0 => opener[opens] \in Nodes
<1> SUFFICES ASSUME BoxTypes, opens # 0 PROVE opener[opens] \in Nodes
  OBVIOUS
<1>1. opens \in Nat /\ opener \in Seq(Nodes) /\ Len(opener) = opens
  BY DEF BoxTypes
<1>2. opener \in [1 .. opens -> Nodes]
  BY <1>1, LenProperties
<1> QED BY <1>1, <1>2

LEMMA InitOpening == Init => Opening
<1> SUFFICES ASSUME Init PROVE Opening
  OBVIOUS
<1>1. Queued = {} /\ Working = {} /\ Answered = {}
  BY DEF Init, ServerInit, Queued, Working, Answered, Elems
<1> QED BY <1>1 DEF Init, ServerInit, Opening, Asked

LEMMA OpeningSteps == Types /\ Once /\ Opening /\ [Next]_vars => Opening'
<1> SUFFICES ASSUME Types, Once, Opening, [Next]_vars PROVE Opening'
  OBVIOUS
<1>1. /\ BoxTypes /\ opens \in Nat /\ live \subseteq Nat /\ session \in [Nodes -> Nat]
      /\ waiting \in [Nodes -> Nat] /\ merged \in [Nodes -> Nat]
      /\ opening # "no" => opens # 0
      /\ \A r \in Asked : r.session \in Nat
  BY DEF Types, BoxTypes, ClientTypes, Request
<1> DEFINE o == opener[opens]
<1>2. opening # "no" => o \in Nodes
  BY <1>1, OpenerIsNode
<1>3. \A r \in Asked : r.id # 0
  BY DEF Once
<1>4. ASSUME NEW n \in Nodes, Connects(n) PROVE Opening'
  <2>0. opens' = opens + 1 /\ opens' \in Nat /\ session' = [session EXCEPT ![n] = 0]
    <3>1. opens' = opens + 1
      BY <1>4 DEF Connects, BeginOpen
    <3>2. session' = [session EXCEPT ![n] = 0]
      BY <1>4 DEF Connects
    <3> QED BY <1>1, <3>1, <3>2
  <2>1. /\ opening = "no" /\ opener'[opens'] = n
        /\ opening' = IF loaded THEN "reset raw" ELSE "load"
        /\ UNCHANGED <<loaded, live, trail, rawTrail, workVars>>
    <3>1. opener \in Seq(Nodes) /\ Len(opener) = opens /\ opener' = Append(opener, n)
      BY <1>1, <1>4 DEF Connects, BeginOpen, BoxTypes
    <3>2. opener'[Len(opener) + 1] = n
      BY <3>1, AppendProperties
    <3> QED BY <1>4, <3>1, <3>2 DEF Connects, BeginOpen, trailVars
  <2>2. waiting'[n] = 0 /\ merged'[n] = 0 /\ Scheduled(sched'[n]) = {}
    BY <1>1, <1>4, EmptyShape DEF Connects, Types, ClientTypes
  <2>3. \A m \in Nodes : session'[m] < opens'
    BY <1>1, <2>0 DEF Opening
  <2>4. \A s \in live : s < opens'
    BY <1>1, <2>0 DEF Opening
  <2>5. \A r \in Asked : r.session < opens'
    BY <1>1, <2>0 DEF Opening
  <2>6. Asked' = Asked /\ UNCHANGED <<queue, forward>>
    BY <2>1, Resting DEF workVars
  <2>7. opens' \in Nat /\ \A x \in Nat : x < opens' => x =< opens'
    BY <2>0
  <2>8. session' \in [Nodes -> Nat]
    BY <1>1, <2>0
  <2> QED BY <1>1, <2>1, <2>2, <2>3, <2>4, <2>5, <2>6, <2>7, <2>8 DEF Opening
<1>5. ASSUME NEW n \in Nodes, Leaves(n) PROVE Opening'
  <2>1. \A m \in Nodes : session'[m] =< opens
    BY <1>1, <1>5 DEF Leaves, Opening
  <2> QED BY <1>5, <2>1, Resting DEF Leaves, CloseSession, Opening, trailVars, workVars
<1>6. ASSUME NEW n \in Nodes, UNCHANGED <<serverVars, session>>,
             opening # "no" /\ n = o =>
                 waiting'[n] = 0 /\ merged'[n] = 0 /\ Scheduled(sched'[n]) = {},
             \A m \in Nodes \ {n} : UNCHANGED <<waiting[m], merged[m], sched[m]>>
      PROVE  Opening'
  <2>1. Asked' = Asked
    BY <1>6, Resting DEF serverVars
  <2>2. opening # "no" => waiting'[o] = 0 /\ merged'[o] = 0 /\ Scheduled(sched'[o]) = {}
    BY <1>2, <1>6 DEF Opening
  <2> QED BY <1>6, <2>1, <2>2 DEF Opening, serverVars, sessionVars, workVars, trailVars
<1>7. ASSUME NEW n \in Nodes, GivesUp(n) PROVE Opening'
  <2>1. waiting'[n] = 0 /\ \A m \in Nodes \ {n} : waiting'[m] = waiting[m]
    BY <1>1, <1>7 DEF GivesUp
  <2> QED BY <1>6, <1>7, <2>1 DEF GivesUp, Opening
<1>8. ASSUME NEW n \in Nodes, Executes(n) PROVE Opening'
  <2>1. ~(opening # "no" /\ n = o)
    BY <1>8 DEF Executes, CanPop, Opening
  <2>2. \A m \in Nodes \ {n} : sched'[m] = sched[m]
    BY <1>8 DEF Executes, Types, ClientTypes
  <2> QED BY <1>6, <1>8, <2>1, <2>2 DEF Executes
<1>9. ASSUME NEW n \in Nodes, Barrier(n) PROVE Opening'
  <2>1. ~(opening # "no" /\ n = o)
    BY <1>9 DEF Barrier, Opening
  <2>2. \A m \in Nodes \ {n} : sched'[m] = sched[m]
    BY <1>9 DEF Barrier, Types, ClientTypes
  <2> QED BY <1>6, <1>9, <2>1, <2>2 DEF Barrier
<1>10. ASSUME NEW n \in Nodes, NEW d \in Delays, Asks(n, d) PROVE Opening'
  <2> DEFINE r == [id |-> clock + 1, session |-> session[n], start |-> sched[n].cursor, delay |-> d]
  <2>1. r \in Request /\ AcceptInfer(r) /\ r.session = session[n]
    BY <1>10 DEF Asks, Types, ClientTypes, HasShape, Request
  <2> HIDE DEF r
  <2>2. Asked' = Asked \cup {r}
    BY <1>1, <2>1, Accepted
  <2>3. opening = "no" /\ loaded /\ UNCHANGED <<loaded, live, session, opens, opener, opening>>
    BY <1>10, <2>1 DEF AcceptInfer, Asks, Opening, sessionVars
  <2>4. r.session =< opens
    BY <2>1 DEF Opening
  <2> QED BY <2>2, <2>3, <2>4 DEF Opening
<1>11. ASSUME NEW n \in Nodes, NEW a \in answers, Merges(n, a) PROVE Opening'
  <2>1. a.req.id # 0
    BY <1>3 DEF Asked, Answered
  <2>2. ~(opening # "no" /\ n = o)
    BY <1>11, <2>1 DEF Merges, Opening
  <2>3. \A m \in Nodes \ {n} : UNCHANGED <<waiting[m], merged[m], sched[m]>>
    BY <1>1, <1>11 DEF Merges, Types, ClientTypes
  <2>4. opening # "no" => waiting'[o] = 0 /\ merged'[o] = 0 /\ Scheduled(sched'[o]) = {}
    BY <1>2, <2>2, <2>3 DEF Opening
  <2>5. Asked' \subseteq Asked
    BY <1>11, Taken DEF Merges
  <2> QED BY <1>11, <2>4, <2>5 DEF Merges, Opening, sessionVars, trailVars
<1>12. ASSUME NEW a \in answers, Unheard(a) PROVE Opening'
  <2>1. Asked' \subseteq Asked
    BY <1>12, Taken DEF Unheard
  <2> QED BY <1>12, <2>1 DEF Unheard, Opening, sessionVars, trailVars, clientVars
<1>13. ASSUME NEW s \in live, Collected(s) PROVE Opening'
  BY <1>13, Resting DEF Collected, IdleGc, Opening, trailVars, workVars, clientVars
<1>14. CASE Opened
  <2>1. \A m \in Nodes : session'[m] =< opens
    BY <1>1, <1>14 DEF Opened, Opening
  <2>2. loaded /\ opening' = "no"
    BY <1>14 DEF Opened, Registers, Opening
  <2>3. \A s \in live' : s =< opens
    BY <1>1, <1>14 DEF Opened, Registers, Opening
  <2> QED BY <1>14, <2>1, <2>2, <2>3, Resting DEF Opened, Registers, Opening, workVars
<1>15. ASSUME Load \/ LoadFails, UNCHANGED clientVars PROVE Opening'
  BY <1>15, Resting DEF Load, LoadFails, Opening, trailVars, workVars, clientVars
<1>16. ASSUME Resets, UNCHANGED clientVars PROVE Opening'
  <2>1. opening \notin {"no", "load"} /\ opening' \notin {"no", "load"}
    BY <1>16 DEF Resets, ResetsRaw, ResetsRawStart, ResetsTrail, ResetsStart, AfterStore
  <2>2. loaded
    BY <2>1 DEF Opening
  <2> QED BY <1>16, <2>1, <2>2, Resting DEF Resets, Opening, workVars, clientVars
<1>17. ASSUME BeginsForward \/ Computes \/ RtcFails \/ Answers, UNCHANGED clientVars
       PROVE  Opening'
  <2>1. loaded
    BY <1>17 DEF Opening, BeginsForward, Computes, RtcFails, Answers
  <2>2. Asked' \subseteq Asked
    BY <1>1, <1>17, Begun, Computing, Answering
  <2>3. UNCHANGED <<loaded, sessionVars>>
    BY <1>17 DEF BeginsForward, Computes, RtcFails, Answers
  <2> QED BY <1>17, <2>1, <2>2, <2>3 DEF Opening, sessionVars, clientVars
<1>18. CASE UNCHANGED vars
  BY <1>18, Resting DEF vars, serverVars, clientVars, Opening, trailVars, workVars, sessionVars
<1>. QED
  BY <1>4, <1>5, <1>7, <1>8, <1>9, <1>10, <1>11, <1>12, <1>13, <1>14, <1>15, <1>16, <1>17, <1>18
     DEF Next, OpenStep, Serves, Degrades

-----------------------------------------------------------------------------
(* The trails a session's next forward may read are its own, or the session  *)
(* is overlapped; while a request is on its way to the worker or there,      *)
(* every session but its own is.                                             *)
MayFollow(s, T) == T # Nothing => T.session = s \/ s \in overlapped

Clean(s) == MayFollow(s, rawTrail) /\ MayFollow(s, trail)

Meets(r) == \A s \in 1 .. opens : s = r.session \/ s \in overlapped

OwnTrails ==
    /\ \A s \in live : s # 0 /\ Clean(s)
    /\ \A r \in Queued \cup Working : r.session # 0 /\ Clean(r.session) /\ Meets(r)
    /\ opening \in {"reset raw start", "reset trail", "reset start", "register"} =>
          MayFollow(opens, rawTrail)
    /\ opening \in {"reset start", "register"} => MayFollow(opens, trail)
    /\ TrailStaysInSession

LEMMA InitOwnTrails == Init => OwnTrails
<1> SUFFICES ASSUME Init PROVE OwnTrails
  OBVIOUS
<1>1. Queued = {} /\ Working = {}
  BY DEF Init, ServerInit, Queued, Working, Elems
<1> QED BY <1>1 DEF Init, ServerInit, OwnTrails, TrailStaysInSession

(* Every session that can read what a request under way stores is overlapped *)
(* or the request's own.                                                     *)
LEMMA StoredNow ==
    ASSUME Types, Opening, OwnTrails, NEW f \in Queued \cup Working, NEW T, T.session = f.session
    PROVE  /\ \A s \in live : MayFollow(s, T)
           /\ \A r \in Queued \cup Working : MayFollow(r.session, T)
           /\ opening # "no" => MayFollow(opens, T)
<1>1. /\ opens \in Nat /\ live \subseteq Nat /\ \A r \in Queued \cup Working : r \in Asked /\ r \in Request
      /\ opening # "no" => opens # 0
  BY DEF Types, BoxTypes, Asked
<1>2. \A s \in 1 .. opens : MayFollow(s, T)
  BY DEF OwnTrails, Meets, MayFollow
<1>3. \A s \in live : s \in 1 .. opens
  <2>1. \A s \in live : s # 0 /\ s =< opens /\ s \in Nat
    BY <1>1, Zenon DEF OwnTrails, Opening
  <2> QED BY <1>1, <2>1
<1>4. \A r \in Queued \cup Working : r.session \in 1 .. opens
  <2>1. \A r \in Queued \cup Working : r.session # 0 /\ r.session =< opens
    BY <1>1, Zenon DEF OwnTrails, Opening
  <2>2. \A r \in Request : r.session \in Nat
    BY DEF Request
  <2>3. \A r \in Queued \cup Working : r.session \in Nat
    BY <1>1, <2>2, Zenon
  <2> QED BY <1>1, <2>1, <2>3
<1>5. opening # "no" => opens \in 1 .. opens
  BY <1>1
<1> QED BY <1>2, <1>3, <1>4, <1>5

LEMMA OwnTrailsSteps == Types /\ Opening /\ OwnTrails /\ [Next]_vars => OwnTrails'
<1> SUFFICES ASSUME Types, Opening, OwnTrails, [Next]_vars PROVE OwnTrails'
  OBVIOUS
<1>1. BoxTypes /\ \A r \in Queued \cup Working : r \in Asked
  BY DEF Types, Asked
<1>2. ASSUME UNCHANGED <<trail, rawTrail, forward>>, live' \subseteq live,
             Queued' \cup Working' \subseteq Queued \cup Working,
             UNCHANGED <<opening, opens>> \/ opening' \in {"no", "load", "reset raw"},
             overlapped \subseteq overlapped',
             \A r \in Queued' \cup Working' : \A s \in 1 .. opens' :
                 s \in 1 .. opens \/ s \in overlapped'
      PROVE  OwnTrails'
  <2>1. \A s : Clean(s) => Clean(s)'
    BY <1>2 DEF Clean, MayFollow
  <2>2. \A s \in live' : s # 0 /\ Clean(s)'
    BY <1>2, <2>1 DEF OwnTrails
  <2>3. \A r \in Queued' \cup Working' : r.session # 0 /\ Clean(r.session)'
    BY <1>2, <2>1 DEF OwnTrails
  <2>4. \A r \in Queued' \cup Working' : Meets(r)'
    BY <1>2 DEF OwnTrails, Meets
  <2>5. /\ opening' \in {"reset raw start", "reset trail", "reset start", "register"} =>
              MayFollow(opens, rawTrail)'
        /\ opening' \in {"reset start", "register"} => MayFollow(opens, trail)'
    BY <1>2 DEF OwnTrails, MayFollow
  <2>6. TrailStaysInSession'
    BY <1>2 DEF OwnTrails, TrailStaysInSession
  <2> QED BY <2>2, <2>3, <2>4, <2>5, <2>6 DEF OwnTrails
<1>3. ASSUME NEW n \in Nodes, Connects(n) PROVE OwnTrails'
  <2>1. /\ UNCHANGED <<trail, rawTrail, forward, live>> /\ Queued' = Queued /\ Working' = Working
        /\ opening' \in {"no", "load", "reset raw"} /\ overlapped \subseteq overlapped'
    BY <1>3, Resting DEF Connects, BeginOpen, trailVars, workVars
  <2>2. Queued \cup Working # {} => overlapped' = overlapped \cup {opens + 1}
    <3>1. queue = <<>> /\ forward = Nothing => Queued = {} /\ Working = {}
      BY DEF Queued, Working, Elems
    <3> QED BY <1>3, <3>1, Zenon DEF Connects, BeginOpen
  <2>3. opens' = opens + 1 /\ opens \in Nat
    BY <1>1, <1>3 DEF Connects, BeginOpen, BoxTypes
  <2>4. \A s \in 1 .. opens' : s \in 1 .. opens \/ s = opens + 1
    BY <2>3
  <2> QED BY <1>2, <2>1, <2>2, <2>4
<1>4. ASSUME NEW n \in Nodes, Leaves(n) PROVE OwnTrails'
  BY <1>2, <1>4, Resting DEF Leaves, CloseSession, trailVars, workVars
<1>5. ASSUME NEW n \in Nodes, GivesUp(n) \/ Executes(n) \/ Barrier(n) PROVE OwnTrails'
  BY <1>2, <1>5, Resting DEF GivesUp, Executes, Barrier, serverVars, sessionVars, trailVars, workVars
<1>6. ASSUME NEW n \in Nodes, NEW d \in Delays, Asks(n, d) PROVE OwnTrails'
  <2> DEFINE r == [id |-> clock + 1, session |-> session[n], start |-> sched[n].cursor, delay |-> d]
  <2>1. r \in Request /\ AcceptInfer(r)
    BY <1>6 DEF Asks, Types, ClientTypes, HasShape, Request
  <2> HIDE DEF r
  <2>2. Queued' = Queued \cup {r} /\ Working' = Working
    BY <1>1, <2>1, Accepted
  <2>3. /\ r.session \in live /\ UNCHANGED <<trail, rawTrail, forward, opening, opens, live>>
        /\ overlapped' = overlapped \cup (1 .. opens \ {r.session})
    BY <2>1 DEF AcceptInfer, trailVars
  <2> QED BY <2>2, <2>3 DEF OwnTrails, Clean, MayFollow, Meets, TrailStaysInSession
<1>7. ASSUME NEW n \in Nodes, NEW a \in answers, Merges(n, a) PROVE OwnTrails'
  BY <1>2, <1>7, Taken DEF Merges, trailVars, sessionVars
<1>8. ASSUME NEW a \in answers, Unheard(a) PROVE OwnTrails'
  BY <1>2, <1>8, Taken DEF Unheard, trailVars, sessionVars
<1>9. ASSUME NEW s \in live, Collected(s) PROVE OwnTrails'
  BY <1>2, <1>9, Resting DEF Collected, IdleGc, trailVars, workVars
<1>10. CASE Opened
  <2>1. Clean(opens) /\ opens # 0
    BY <1>1, <1>10 DEF Opened, Registers, OwnTrails, Clean, BoxTypes
  <2>2. /\ live' \subseteq live \cup {opens} /\ opening' = "no"
        /\ UNCHANGED <<trail, rawTrail, forward, opens, overlapped>>
        /\ Queued' = Queued /\ Working' = Working
    BY <1>10, Resting DEF Opened, Registers, trailVars, workVars
  <2> QED BY <2>1, <2>2 DEF OwnTrails, Clean, MayFollow, Meets, TrailStaysInSession
<1>11. CASE OpenStep
  <2>1. CASE LoadFails
    BY <1>2, <2>1, Resting DEF LoadFails, trailVars, workVars
  <2>2. CASE Load
    <3>1. trail = Nothing /\ rawTrail = Nothing /\ forward = Nothing
      BY <2>2 DEF Load, Opening
    <3>2. /\ UNCHANGED <<trail, rawTrail, forward, live, opens, overlapped>>
          /\ Queued' = Queued /\ Working' = Working
      BY <2>2, Resting DEF Load, trailVars, workVars
    <3> QED BY <3>1, <3>2 DEF OwnTrails, Clean, MayFollow, Meets, TrailStaysInSession
  <2>3. CASE Resets
    <3>1. UNCHANGED <<live, forward, opens, overlapped>> /\ Queued' = Queued /\ Working' = Working
      BY <2>3, Resting DEF Resets, workVars
    <3>2. CASE ResetsRaw
      BY <3>1, <3>2 DEF ResetsRaw, AfterStore, OwnTrails, Clean, MayFollow, Meets, TrailStaysInSession
    <3>3. CASE ResetsRawStart
      BY <3>1, <3>3 DEF ResetsRawStart, AfterStore, OwnTrails, Clean, MayFollow, Meets, TrailStaysInSession
    <3>4. CASE ResetsTrail
      BY <3>1, <3>4 DEF ResetsTrail, AfterStore, OwnTrails, Clean, MayFollow, Meets, TrailStaysInSession
    <3>5. CASE ResetsStart
      BY <3>1, <3>5 DEF ResetsStart, AfterStore, OwnTrails, Clean, MayFollow, Meets, TrailStaysInSession
    <3> QED BY <2>3, <3>2, <3>3, <3>4, <3>5 DEF Resets
  <2> QED BY <1>11, <2>1, <2>2, <2>3 DEF OpenStep
<1>12. CASE BeginsForward
  <2>1. /\ UNCHANGED <<trail, rawTrail, live, opening, opens, overlapped>>
        /\ forward'.req = Head(queue) /\ forward'.prev = Leftover(Head(queue))
        /\ Queued' \cup Working' \subseteq Queued /\ Head(queue) \in Queued
    BY <1>1, <1>12, Begun DEF BeginsForward, trailVars, sessionVars
  <2>2. Leftover(Head(queue)) # Nothing => Leftover(Head(queue)) = rawTrail
    BY DEF Leftover
  <2>3. Clean(Head(queue).session)
    BY <2>1 DEF OwnTrails
  <2> QED BY <2>1, <2>2, <2>3 DEF OwnTrails, Clean, MayFollow, Meets, TrailStaysInSession
<1>13. CASE Computes \/ RtcFails
  <2>1. /\ forward # Nothing /\ forward.req \in Working /\ forward'.req = forward.req
        /\ Queued' \cup Working' \subseteq Queued \cup Working
        /\ UNCHANGED <<live, opening, opens, overlapped>>
    BY <1>1, <1>13, Computing DEF Working, Computes, RtcFails, sessionVars
  <2>2. ASSUME NEW T, T.session = forward.req.session
        PROVE  /\ \A s \in live : MayFollow(s, T)
               /\ \A r \in Queued \cup Working : MayFollow(r.session, T)
               /\ opening # "no" => MayFollow(opens, T)
    BY <2>1, <2>2, StoredNow
  <2>3. CASE RtcFails
    <3>1. forward'.prev = Nothing /\ UNCHANGED <<trail, rawTrail>>
      BY <1>1, <2>3 DEF RtcFails, trailVars, BoxTypes
    <3> QED BY <2>1, <3>1 DEF OwnTrails, Clean, MayFollow, Meets, TrailStaysInSession
  <2>4. CASE StoresRaw
    <3>1. /\ rawTrail' # Nothing => rawTrail'.session = forward.req.session
          /\ trail' = trail /\ forward'.prev = Nothing
      BY <1>1, <2>1, <2>4 DEF StoresRaw, BoxTypes
    <3> QED BY <2>1, <2>2, <3>1 DEF OwnTrails, Clean, MayFollow, Meets, TrailStaysInSession
  <2>5. CASE StoresRawStart
    <3>1. UNCHANGED <<trail, rawTrail>> /\ forward'.prev \in {Nothing, trail}
      BY <1>1, <2>1, <2>5 DEF StoresRawStart, BoxTypes
    <3>2. Clean(forward.req.session)
      BY <2>1 DEF OwnTrails
    <3> QED BY <2>1, <3>1, <3>2 DEF OwnTrails, Clean, MayFollow, Meets, TrailStaysInSession
  <2>6. CASE StoresTrail
    <3>1. trail'.session = forward.req.session /\ rawTrail' = rawTrail /\ forward'.prev = forward.prev
      BY <1>1, <2>1, <2>6 DEF StoresTrail, BoxTypes
    <3> QED BY <2>1, <2>2, <3>1 DEF OwnTrails, Clean, MayFollow, Meets, TrailStaysInSession
  <2>7. CASE StoresStart
    <3>1. UNCHANGED <<trail, rawTrail>> /\ forward'.prev = forward.prev
      BY <1>1, <2>1, <2>7 DEF StoresStart, BoxTypes
    <3> QED BY <2>1, <3>1 DEF OwnTrails, Clean, MayFollow, Meets, TrailStaysInSession
  <2> QED BY <1>13, <2>3, <2>4, <2>5, <2>6, <2>7 DEF Computes
<1>14. CASE Answers
  <2>1. /\ UNCHANGED <<trail, rawTrail, live, opening, opens, overlapped>> /\ forward' = Nothing
        /\ Queued' \cup Working' \subseteq Queued \cup Working
    BY <1>14, Answering DEF Answers, trailVars, sessionVars
  <2> QED BY <2>1 DEF OwnTrails, Clean, MayFollow, Meets, TrailStaysInSession
<1>15. CASE UNCHANGED vars
  BY <1>2, <1>15, Resting DEF vars, serverVars, sessionVars, trailVars, workVars
<1>. QED
  BY <1>3, <1>4, <1>5, <1>6, <1>7, <1>8, <1>9, <1>10, <1>11, <1>12, <1>13, <1>14, <1>15
     DEF Next, Serves, Degrades

(* A session that has had the worker to itself since it began to open        *)
(* continues no other session's chunk, in either way the backend has, though *)
(* the backend is never rebuilt and its reset is four stores beside the      *)
(* worker (server/transport.py, lerobot_backend.py reset_session_state()).   *)
THEOREM TrailsStayInSession == Spec => []TrailStaysInSession
<1> DEFINE IInv == Types /\ Once /\ Opening /\ OwnTrails
<1>1. Init => IInv
  BY InitTypes, InitOnce, InitOpening, InitOwnTrails
<1>2. IInv /\ [Next]_vars => IInv'
  BY ClientSteps, BoxSteps, OnceSteps, OpeningSteps, OwnTrailsSteps DEF Types
<1>3. IInv => TrailStaysInSession
  BY DEF OwnTrails
<1> QED BY <1>1, <1>2, <1>3, PTL DEF Spec

-----------------------------------------------------------------------------
(* What a client has planned is the rest of the chunk it merged last, and   *)
(* what it waits for was asked for after that, at or behind its cursor.     *)
PlanOf(n) ==
    /\ sched[n].floor =< clock
    /\ waiting[n] =< clock
    /\ waiting[n] # 0 /\ waiting[n] =< sched[n].floor => Scheduled(sched[n]) = {}
    /\ waiting[n] # 0 => session[n] # 0 /\ merged[n] < waiting[n]
    /\ merged[n] # 0 =>
          /\ merged[n] \in DOMAIN vectors
          /\ vectors[merged[n]].start \in Nat
          /\ vectors[merged[n]].start =< sched[n].cursor
    /\ \A k \in Scheduled(sched[n]) :
          /\ merged[n] # 0 /\ sched[n].data[k] = merged[n]
          /\ k >= sched[n].cursor
          /\ k < vectors[merged[n]].start + ChunkSize
    /\ \A r \in Asked : r.id = waiting[n] =>
          /\ r.session = session[n]
          /\ r.start =< sched[n].cursor
          /\ merged[n] # 0 => vectors[merged[n]].start =< r.start

Plans == \A n \in Nodes : PlanOf(n)

LEMMA InitPlans == Init => Plans
<1> SUFFICES ASSUME Init, NEW n \in Nodes PROVE PlanOf(n)
  BY DEF Plans
<1>1. Queued = {} /\ Working = {} /\ Answered = {}
  BY DEF Init, ServerInit, Queued, Working, Answered, Elems
<1>2. Scheduled(sched[n]) = {} /\ sched[n].floor = 0
  BY EmptyShape DEF Init, EmptySchedule
<1> QED BY <1>1, <1>2 DEF Init, PlanOf, Asked

LEMMA PlansSteps == Types /\ Once /\ Opening /\ Plans /\ [Next]_vars => Plans'
<1> SUFFICES ASSUME Types, Once, Opening, Plans, [Next]_vars PROVE Plans'
  OBVIOUS
<1>1. /\ BoxTypes /\ ClientTypes /\ clock \in Nat /\ session \in [Nodes -> Nat]
      /\ waiting \in [Nodes -> Nat] /\ merged \in [Nodes -> Nat]
      /\ sched = [n \in Nodes |-> sched[n]]
      /\ \A n \in Nodes : HasShape(sched[n]) /\ sched[n].cursor \in Nat /\ sched[n].floor \in Nat
  BY DEF Types, ClientTypes, HasShape
<1>2. \A r \in Asked : r.id \in Nat /\ r.id # 0 /\ r.id =< clock /\ r.start \in Nat
  <2>1. \A r \in Asked : r.id \in 1 .. clock /\ r \in Request
    BY <1>1 DEF Once, BoxTypes
  <2> QED BY <1>1, <2>1 DEF Request
<1>3. ASSUME NEW m \in Nodes,
             UNCHANGED <<session[m], sched[m], waiting[m], merged[m]>>,
             clock' \in {clock, clock + 1},
             merged[m] # 0 => merged[m] \in DOMAIN vectors' /\ vectors'[merged[m]] = vectors[merged[m]],
             \A r \in Asked' : r \in Asked \/ r.id = clock + 1
      PROVE  PlanOf(m)'
  <2>1. PlanOf(m) /\ waiting[m] \in Nat /\ waiting[m] =< clock
    BY <1>1 DEF Plans, PlanOf
  <2>2. sched[m].floor =< clock' /\ waiting[m] =< clock'
    BY <1>1, <1>3, <2>1 DEF PlanOf
  <2>3. \A r \in Asked' : r.id = waiting[m] => r \in Asked
    BY <1>1, <1>3, <2>1
  <2> QED BY <1>3, <2>1, <2>2, <2>3 DEF PlanOf
<1>4. ASSUME UNCHANGED clientVars, Asked' \subseteq Asked PROVE Plans'
  <2>1. ASSUME NEW m \in Nodes PROVE PlanOf(m)'
    BY <1>4 DEF Plans, PlanOf, clientVars
  <2> QED BY <2>1 DEF Plans
<1>5. ASSUME NEW n \in Nodes, Connects(n) PROVE Plans'
  <2>1. Asked' = Asked
    BY <1>5, Resting DEF Connects, BeginOpen
  <2>2. /\ session'[n] = 0 /\ waiting'[n] = 0 /\ merged'[n] = 0 /\ sched'[n] = EmptySchedule
        /\ \A m \in Nodes \ {n} : UNCHANGED <<session[m], sched[m], waiting[m], merged[m]>>
        /\ UNCHANGED <<vectors, clock>>
    BY <1>1, <1>5 DEF Connects
  <2>3. EmptySchedule.floor = 0
    BY DEF EmptySchedule
  <2>4. PlanOf(n)'
    BY <1>1, <1>2, <2>1, <2>2, <2>3, EmptyShape DEF PlanOf
  <2>5. ASSUME NEW m \in Nodes \ {n} PROVE PlanOf(m)'
    <3>1. merged[m] # 0 => merged[m] \in DOMAIN vectors'
      BY <2>2 DEF Plans, PlanOf
    <3> QED BY <1>3, <2>1, <2>2, <3>1
  <2> QED BY <2>4, <2>5 DEF Plans
<1>6. ASSUME NEW n \in Nodes, Leaves(n) \/ GivesUp(n) PROVE Plans'
  <2>1. Asked' = Asked
    BY <1>6, Resting DEF Leaves, CloseSession, GivesUp, serverVars
  <2>2. /\ waiting'[n] = 0 /\ UNCHANGED <<sched, merged, vectors, clock>>
        /\ \A m \in Nodes \ {n} : UNCHANGED <<session[m], waiting[m]>>
    BY <1>1, <1>6 DEF Leaves, GivesUp
  <2>3. PlanOf(n)'
    BY <1>1, <1>2, <2>1, <2>2 DEF Plans, PlanOf
  <2>4. ASSUME NEW m \in Nodes \ {n} PROVE PlanOf(m)'
    <3>1. merged[m] # 0 => merged[m] \in DOMAIN vectors'
      BY <2>2 DEF Plans, PlanOf
    <3> QED BY <1>3, <2>1, <2>2, <3>1
  <2> QED BY <2>3, <2>4 DEF Plans
<1>7. ASSUME NEW n \in Nodes, Executes(n) PROVE Plans'
  <2>1. Asked' = Asked /\ UNCHANGED <<session, waiting, merged, vectors, clock>>
    BY <1>7, Resting DEF Executes, serverVars
  <2>2. /\ sched'[n].cursor = sched[n].cursor + 1 /\ sched'[n].floor = sched[n].floor
        /\ Scheduled(sched'[n]) = Scheduled(sched[n]) \ {sched[n].cursor}
        /\ \A k \in Scheduled(sched'[n]) : sched'[n].data[k] = sched[n].data[k]
        /\ \A m \in Nodes \ {n} : sched'[m] = sched[m]
    <3>1. CanPop(sched[n]) /\ sched' = [sched EXCEPT ![n] = PopNext(sched[n])]
      BY <1>7 DEF Executes
    <3>2. sched'[n] = PopNext(sched[n]) /\ \A m \in Nodes \ {n} : sched'[m] = sched[m]
      BY <1>1, <3>1
    <3> QED BY <1>1, <3>1, <3>2, PopEffect
  <2>3. PlanOf(n)
    BY DEF Plans
  <2>4. \A k \in Scheduled(sched'[n]) : k \in Nat /\ k >= sched'[n].cursor
    <3>1. Scheduled(sched[n]) \subseteq Nat /\ sched[n].cursor \in Nat
      BY <1>1 DEF HasShape
    <3>2. \A k \in Scheduled(sched[n]) : k >= sched[n].cursor
      BY <2>3 DEF PlanOf
    <3> QED BY <2>2, <3>1, <3>2
  <2>5. \A r \in Asked : r.id = waiting[n] => r.start =< sched'[n].cursor
    BY <1>1, <1>2, <2>2, <2>3 DEF PlanOf
  <2>6. merged[n] # 0 => vectors[merged[n]].start =< sched'[n].cursor
    BY <1>1, <2>2, <2>3 DEF PlanOf
  <2>7. PlanOf(n)'
    BY <2>1, <2>2, <2>3, <2>4, <2>5, <2>6 DEF PlanOf
  <2>8. ASSUME NEW m \in Nodes \ {n} PROVE PlanOf(m)'
    <3>1. merged[m] # 0 => merged[m] \in DOMAIN vectors'
      BY <2>1 DEF Plans, PlanOf
    <3> QED BY <1>3, <2>1, <2>2, <3>1
  <2> QED BY <2>7, <2>8 DEF Plans
<1>8. ASSUME NEW n \in Nodes, Barrier(n) PROVE Plans'
  <2>1. Asked' = Asked /\ UNCHANGED <<session, waiting, merged, vectors>> /\ clock' = clock + 1
    BY <1>8, Resting DEF Barrier, serverVars
  <2>2. /\ sched'[n].cursor = sched[n].cursor /\ sched'[n].floor \in {sched[n].floor, clock + 1}
        /\ Scheduled(sched'[n]) = {}
        /\ \A m \in Nodes \ {n} : sched'[m] = sched[m]
    <3>1. sched' = [sched EXCEPT ![n] = FlushBarrier(sched[n], clock + 1)] /\ clock + 1 \in Nat
      BY <1>1, <1>8 DEF Barrier
    <3>2. /\ sched'[n] = FlushBarrier(sched[n], clock + 1)
          /\ \A m \in Nodes \ {n} : sched'[m] = sched[m]
      BY <1>1, <3>1
    <3> QED BY <1>1, <3>1, <3>2, FlushEffect
  <2>3. PlanOf(n) /\ waiting[n] =< clock' /\ sched'[n].floor =< clock'
    BY <1>1, <2>1, <2>2 DEF Plans, PlanOf
  <2>4. PlanOf(n)'
    BY <2>1, <2>2, <2>3 DEF PlanOf
  <2>5. ASSUME NEW m \in Nodes \ {n} PROVE PlanOf(m)'
    <3>1. merged[m] # 0 => merged[m] \in DOMAIN vectors'
      BY <2>1 DEF Plans, PlanOf
    <3> QED BY <1>3, <2>1, <2>2, <3>1
  <2> QED BY <2>4, <2>5 DEF Plans
<1>9. ASSUME NEW n \in Nodes, NEW d \in Delays, Asks(n, d) PROVE Plans'
  <2> DEFINE r == [id |-> clock + 1, session |-> session[n], start |-> sched[n].cursor, delay |-> d]
  <2>1. /\ r \in Request /\ AcceptInfer(r)
        /\ r.id = clock + 1 /\ r.session = session[n] /\ r.start = sched[n].cursor
    BY <1>9 DEF Asks, Types, ClientTypes, HasShape, Request
  <2> HIDE DEF r
  <2>2. Asked' = Asked \cup {r}
    BY <1>1, <2>1, Accepted
  <2>3. /\ UNCHANGED <<session, sched, merged, vectors>> /\ clock' = clock + 1
        /\ session[n] # 0 /\ waiting'[n] = clock + 1
        /\ \A m \in Nodes \ {n} : waiting'[m] = waiting[m]
    BY <1>1, <1>9 DEF Asks
  <2>4. PlanOf(n) /\ merged[n] =< clock
    BY DEF Plans, Once
  <2>5. sched[n].floor < clock + 1 /\ merged[n] < clock + 1 /\ sched[n].floor =< clock + 1
    BY <1>1, <2>4 DEF PlanOf
  <2>6. \A q \in Asked' : q.id = clock + 1 => q = r
    BY <1>1, <1>2, <2>1, <2>2
  <2>7. PlanOf(n)'
    BY <1>1, <2>1, <2>3, <2>4, <2>5, <2>6 DEF PlanOf
  <2>8. ASSUME NEW m \in Nodes \ {n} PROVE PlanOf(m)'
    <3>1. merged[m] # 0 => merged[m] \in DOMAIN vectors'
      BY <2>3 DEF Plans, PlanOf
    <3> QED BY <1>3, <2>1, <2>2, <2>3, <3>1
  <2> QED BY <2>7, <2>8 DEF Plans
<1>10. ASSUME NEW n \in Nodes, NEW a \in answers, Merges(n, a) PROVE Plans'
  <2> DEFINE c == [ts |-> a.req.id, start |-> a.req.start, len |-> ChunkSize]
             S == sched[n]
             T == sched'[n]
  <2>1. a.req \in Asked /\ waiting[n] = a.req.id /\ waiting[n] # 0
    BY <1>2, <1>10 DEF Merges, Asked, Answered
  <2>2. /\ c.ts = a.req.id /\ c.start = a.req.start /\ c.len = ChunkSize
        /\ c.start \in Nat /\ c.ts \in Nat
    BY <1>2, <2>1
  <2> HIDE DEF c
  <2>3. /\ sched' = [sched EXCEPT ![n] = Merge(S, c)]
        /\ vectors' = [id \in DOMAIN vectors \cup {a.req.id} |->
                         IF id = a.req.id THEN [start |-> a.req.start, list |-> a.vectors]
                                          ELSE vectors[id]]
        /\ merged' = [merged EXCEPT ![n] = a.req.id] /\ waiting' = [waiting EXCEPT ![n] = 0]
        /\ UNCHANGED <<session, clock>>
    BY <1>10 DEF Merges, c
  <2>4. /\ HasShape(T) /\ T.cursor = S.cursor /\ T.floor = S.floor
        /\ Scheduled(T) = Scheduled(S) \cup Installs(S, c)
        /\ \A k \in Scheduled(T) : T.data[k] = IF k \in Installs(S, c) THEN c.ts ELSE S.data[k]
    <3>1. T = Merge(S, c)
      BY <1>1, <2>3
    <3> QED BY <1>1, <2>2, <3>1, MergeEffect
  <2>5. merged'[n] = a.req.id /\ waiting'[n] = 0
    BY <1>1, <2>3
  <2>6. a.req.id \in DOMAIN vectors' /\ vectors'[a.req.id].start = a.req.start
    BY <2>3
  <2>7. /\ PlanOf(n) /\ a.req.start =< S.cursor
        /\ merged[n] # 0 => vectors[merged[n]].start \in Nat /\ vectors[merged[n]].start =< a.req.start
        /\ merged[n] < a.req.id
    BY <2>1 DEF Plans, PlanOf
  <2>8. ASSUME NEW k \in Scheduled(S) PROVE k \in Installs(S, c)
    <3>1. /\ k \in Nat /\ k >= S.cursor /\ merged[n] # 0 /\ S.data[k] = merged[n]
          /\ k < vectors[merged[n]].start + ChunkSize
      BY <1>1, <2>7 DEF PlanOf, HasShape
    <3>2. c.ts > S.floor
      BY <1>1, <2>1, <2>2, <2>7 DEF PlanOf
    <3>3. c.ts > S.data[k]
      BY <1>1, <2>2, <2>7, <3>1
    <3>4. k \in Span(c)
      BY <1>1, <2>2, <2>7, <3>1 DEF Span
    <3> QED BY <3>1, <3>2, <3>3, <3>4 DEF Installs
  <2>9. ASSUME NEW k \in Scheduled(T)
        PROVE  T.data[k] = a.req.id /\ k >= T.cursor /\ k < a.req.start + ChunkSize
    <3>1. k \in Installs(S, c)
      BY <2>4, <2>8
    <3>2. k >= S.cursor /\ k \in c.start .. (c.start + c.len - 1)
      BY <3>1 DEF Installs, Span
    <3>3. T.data[k] = a.req.id
      BY <2>2, <2>4, <3>1
    <3> QED BY <2>2, <2>4, <3>2, <3>3
  <2>10. Asked' \subseteq Asked
    BY <1>10, Taken DEF Merges
  <2>11. PlanOf(n)'
    <3>1. /\ T.floor =< clock' /\ waiting'[n] =< clock' /\ a.req.start =< T.cursor
      BY <1>1, <2>3, <2>4, <2>5, <2>7 DEF PlanOf
    <3>2. \A r \in Asked' : r.id # waiting'[n]
      BY <1>2, <2>5, <2>10
    <3> HIDE DEF T
    <3>3. a.req.id # 0 /\ a.req.start \in Nat
      BY <1>2, <2>1
    <3> QED BY <2>5, <2>6, <2>9, <3>1, <3>2, <3>3 DEF PlanOf, T
  <2>12. ASSUME NEW m \in Nodes \ {n} PROVE PlanOf(m)'
    <3>1. UNCHANGED <<session[m], sched[m], waiting[m], merged[m]>> /\ clock' = clock
      BY <1>1, <2>3
    <3>2. merged[m] # a.req.id
      BY <2>1 DEF Once
    <3>3. merged[m] # 0 => merged[m] \in DOMAIN vectors' /\ vectors'[merged[m]] = vectors[merged[m]]
      BY <2>3, <3>2 DEF Plans, PlanOf
    <3> QED BY <1>3, <2>10, <3>1, <3>3
  <2> QED BY <2>11, <2>12 DEF Plans
<1>11. CASE Opened
  <2> DEFINE o == opener[opens]
  <2>1. /\ Asked' = Asked /\ UNCHANGED <<sched, waiting, merged, vectors, clock>>
        /\ session' = [session EXCEPT ![o] = opens]
    BY <1>11, Resting DEF Opened, Registers
  <2>2. waiting[o] = 0 /\ merged[o] = 0 /\ Scheduled(sched[o]) = {}
    BY <1>11 DEF Opened, Registers, Opening
  <2>3. ASSUME NEW m \in Nodes PROVE PlanOf(m)'
    <3>1. CASE m = o
      BY <1>1, <1>2, <2>1, <2>2, <3>1 DEF Plans, PlanOf
    <3>2. CASE m # o
      <4>1. merged[m] # 0 => merged[m] \in DOMAIN vectors'
        BY <2>1 DEF Plans, PlanOf
      <4>2. session'[m] = session[m]
        BY <1>1, <2>1, <3>2
      <4> QED BY <1>3, <2>1, <4>1, <4>2
    <3> QED BY <3>1, <3>2
  <2> QED BY <2>3 DEF Plans
<1>12. ASSUME NEW a \in answers, Unheard(a) PROVE Plans'
  BY <1>4, <1>12, Taken DEF Unheard
<1>13. CASE (\E s \in live : Collected(s)) \/ OpenStep
  BY <1>4, <1>13, Resting DEF Collected, IdleGc, OpenStep, Load, LoadFails, Resets
<1>14. CASE Serves \/ Degrades
  BY <1>1, <1>4, <1>14, Begun, Computing, Answering DEF Serves, Degrades
<1>15. CASE UNCHANGED vars
  BY <1>4, <1>15, Resting DEF vars, serverVars
<1>. QED
  BY <1>5, <1>6, <1>7, <1>8, <1>9, <1>10, <1>11, <1>12, <1>13, <1>14, <1>15 DEF Next

-----------------------------------------------------------------------------
(* The trail beside its start.  The two are stored one after the other, and *)
(* a reset may come between; for the box's newest session they are of one   *)
(* chunk whenever a forward of it reads them.                               *)
Newest(n) == session[n] # 0 /\ session[n] = opens

Stored(by, list, start) ==
    trail # Nothing /\ trail.by = by => trail.vectors = list /\ trailStart = start

TrailsMatch ==
    /\ \A n \in Nodes : Newest(n) /\ merged[n] # 0 =>
          Stored(merged[n], vectors[merged[n]].list, vectors[merged[n]].start)
    /\ \A a \in answers : a.req.session = opens => Stored(a.req.id, a.vectors, a.req.start)
    /\ forward # Nothing =>
          /\ forward.at = "start" /\ trail # Nothing => trail.by = forward.req.id
          /\ forward.req.session = opens =>
                /\ forward.at = "blend" /\ forward.prev # Nothing => forward.prev = trail
                /\ forward.at = "start" /\ trail # Nothing => trail.vectors = forward.vectors
                /\ forward.at = "done" =>
                      Stored(forward.req.id, forward.vectors, forward.req.start)

LEMMA InitTrailsMatch == Init => TrailsMatch
BY DEF Init, ServerInit, TrailsMatch, Newest

(* While a session opens, it is nobody's yet.                               *)
LEMMA NobodysYet ==
    ASSUME Types, Opening, opening # "no"
    PROVE  /\ \A n \in Nodes : session[n] # opens
           /\ \A r \in Asked : r.session # opens
<1>1. /\ opens \in Nat /\ Asked \subseteq Request /\ session \in [Nodes -> Nat]
  BY DEF Types, BoxTypes, ClientTypes
<1>2. \A r \in Asked : r.session \in Nat /\ r.session < opens
  BY <1>1 DEF Opening, Request
<1>3. \A n \in Nodes : session[n] \in Nat /\ session[n] < opens
  BY <1>1 DEF Opening
<1> QED BY <1>1, <1>2, <1>3

LEMMA TrailsMatchSteps ==
    Types /\ Once /\ Opening /\ Plans /\ TrailsMatch /\ [Next]_vars => TrailsMatch'
<1> SUFFICES ASSUME Types, Once, Opening, Plans, TrailsMatch, [Next]_vars PROVE TrailsMatch'
  OBVIOUS
<1>1. /\ BoxTypes /\ opens \in Nat /\ session \in [Nodes -> Nat] /\ merged \in [Nodes -> Nat]
      /\ Asked \subseteq Request
  BY DEF Types, BoxTypes, ClientTypes
<1>2. /\ \A a \in answers : a.req \in Asked
      /\ forward # Nothing => forward.req \in Asked
  BY DEF Asked, Answered, Working
<1>3. ASSUME UNCHANGED <<trail, trailStart, forward, merged, vectors, opens>>,
             answers' \subseteq answers,
             \A n \in Nodes : session'[n] \in {session[n], 0} \/ merged[n] = 0
      PROVE  TrailsMatch'
  BY <1>3 DEF TrailsMatch, Newest, Stored
<1>4. ASSUME NEW n \in Nodes, Connects(n) PROVE TrailsMatch'
  <2>0. opens' = opens + 1
    BY <1>4 DEF Connects, BeginOpen
  <2>1. UNCHANGED <<trail, trailStart, forward, answers>> /\ session' = [session EXCEPT ![n] = 0]
    BY <1>4 DEF Connects, BeginOpen, trailVars, workVars
  <2>2. \A m \in Nodes : session'[m] = 0 \/ session'[m] # opens'
    BY <1>1, <2>0, <2>1 DEF Opening
  <2>3. \A r \in Asked : r.session # opens'
    <3>1. \A r \in Asked : r.session \in Nat /\ r.session =< opens
      BY <1>1 DEF Opening, Request
    <3> QED BY <1>1, <2>0, <3>1
  <2> QED BY <1>2, <2>1, <2>2, <2>3 DEF TrailsMatch, Newest
<1>5. ASSUME NEW n \in Nodes, Leaves(n) PROVE TrailsMatch'
  <2>1. \A m \in Nodes : session'[m] \in {session[m], 0}
    BY <1>1, <1>5 DEF Leaves
  <2> QED BY <1>3, <1>5, <2>1 DEF Leaves, CloseSession, trailVars, workVars
<1>6. ASSUME NEW n \in Nodes,
             GivesUp(n) \/ Executes(n) \/ Barrier(n) \/ \E d \in Delays : Asks(n, d)
      PROVE  TrailsMatch'
  BY <1>3, <1>6 DEF GivesUp, Executes, Barrier, Asks, AcceptInfer, serverVars, sessionVars,
                    trailVars, workVars
<1>7. ASSUME NEW n \in Nodes, NEW a \in answers, Merges(n, a) PROVE TrailsMatch'
  <2>1. /\ merged' = [merged EXCEPT ![n] = a.req.id] /\ answers' = answers \ {a}
        /\ vectors' = [id \in DOMAIN vectors \cup {a.req.id} |->
                         IF id = a.req.id THEN [start |-> a.req.start, list |-> a.vectors]
                                          ELSE vectors[id]]
        /\ UNCHANGED <<trail, trailStart, forward, session, opens>>
        /\ waiting[n] = a.req.id
    BY <1>7 DEF Merges, trailVars, sessionVars
  <2>2. /\ vectors'[a.req.id].list = a.vectors /\ vectors'[a.req.id].start = a.req.start
        /\ merged'[n] = a.req.id /\ a.req.session = session[n]
    BY <1>1, <1>2, <2>1 DEF Plans, PlanOf
  <2>3. ASSUME NEW m \in Nodes, Newest(m)', merged'[m] # 0
        PROVE  Stored(merged[m], vectors[merged[m]].list, vectors[merged[m]].start)'
    <3>1. CASE m = n
      BY <2>1, <2>2, <2>3, <3>1 DEF TrailsMatch, Newest, Stored
    <3>2. CASE m # n
      <4>1. merged'[m] = merged[m] /\ merged[m] # a.req.id /\ merged[m] \in DOMAIN vectors
        BY <1>1, <1>2, <2>1, <2>3, <3>2 DEF Once, Plans, PlanOf
      <4>2. vectors'[merged[m]] = vectors[merged[m]]
        BY <2>1, <4>1
      <4> QED BY <2>1, <2>3, <4>1, <4>2 DEF TrailsMatch, Newest, Stored
    <3> QED BY <3>1, <3>2
  <2> QED BY <2>1, <2>3 DEF TrailsMatch, Stored
<1>8. ASSUME NEW a \in answers, Unheard(a) PROVE TrailsMatch'
  BY <1>3, <1>8 DEF Unheard, clientVars, trailVars, sessionVars
<1>9. ASSUME NEW s \in live, Collected(s) PROVE TrailsMatch'
  BY <1>3, <1>9 DEF Collected, IdleGc, clientVars, trailVars, workVars
<1>10. CASE Opened
  <2>1. \A m \in Nodes : session'[m] \in {session[m], 0} \/ merged[m] = 0
    BY <1>1, <1>10 DEF Opened, Registers, Opening
  <2> QED BY <1>3, <1>10, <2>1 DEF Opened, Registers, trailVars, workVars
<1>11. CASE OpenStep
  <2>1. CASE Load \/ LoadFails
    BY <1>3, <1>11, <2>1 DEF OpenStep, Load, LoadFails, clientVars, trailVars, workVars
  <2>2. CASE Resets
    <3>1. opening # "no" /\ trail' \in {trail, Nothing}
      BY <2>2 DEF Resets, ResetsRaw, ResetsRawStart, ResetsTrail, ResetsStart
    <3>2. UNCHANGED <<forward, answers, session, opens>>
      BY <1>11, <2>2 DEF OpenStep, Resets, clientVars, workVars
    <3>3. /\ \A m \in Nodes : session[m] # opens
          /\ \A a \in answers : a.req.session # opens
          /\ forward # Nothing => forward.req.session # opens
      BY <1>2, <3>1, NobodysYet
    <3> QED BY <3>1, <3>2, <3>3 DEF TrailsMatch, Newest
  <2> QED BY <1>11, <2>1, <2>2 DEF OpenStep
<1>12. ASSUME BeginsForward, UNCHANGED clientVars PROVE TrailsMatch'
  <2>1. forward'.at = "predict"
    BY <1>1, <1>12, Begun
  <2> QED BY <1>12, <2>1 DEF BeginsForward, TrailsMatch, Newest, Stored, clientVars, trailVars,
                            sessionVars
<1>13. ASSUME Computes \/ RtcFails, UNCHANGED clientVars PROVE TrailsMatch'
  <2>1. /\ forward # Nothing /\ forward'.req = forward.req
        /\ UNCHANGED <<answers, opens, session, merged, vectors>>
    BY <1>1, <1>13, Computing DEF Computes, RtcFails, sessionVars, clientVars
  <2>2. /\ \A n \in Nodes : forward.req.id # merged[n]
        /\ \A a \in answers : forward.req.id # a.req.id
    BY <1>2, <2>1 DEF Once, Working, Answered
  <2>3. CASE RtcFails
    <3>1. forward'.at = "predict" /\ UNCHANGED <<trail, trailStart>>
      BY <1>1, <2>3 DEF RtcFails, trailVars, BoxTypes
    <3> QED BY <2>1, <3>1 DEF TrailsMatch, Newest, Stored
  <2>4. CASE StoresRaw
    <3>1. forward'.at = "raw start" /\ UNCHANGED <<trail, trailStart>>
      BY <1>1, <2>1, <2>4 DEF StoresRaw, BoxTypes
    <3> QED BY <2>1, <3>1 DEF TrailsMatch, Newest, Stored
  <2>5. CASE StoresRawStart
    <3>1. /\ forward'.at = "blend" /\ forward'.prev \in {Nothing, trail}
          /\ UNCHANGED <<trail, trailStart>>
      BY <1>1, <2>1, <2>5 DEF StoresRawStart, BoxTypes
    <3> QED BY <2>1, <3>1 DEF TrailsMatch, Newest, Stored
  <2>6. CASE StoresTrail
    <3>1. /\ forward'.at = "start" /\ trail'.by = forward.req.id
          /\ trail'.vectors = forward'.vectors
      BY <1>1, <2>1, <2>6 DEF StoresTrail, Kept, BoxTypes
    <3> QED BY <2>1, <2>2, <3>1 DEF TrailsMatch, Newest, Stored
  <2>7. CASE StoresStart
    <3>1. /\ forward.at = "start" /\ forward'.at = "done" /\ forward'.vectors = forward.vectors
          /\ trail' = trail /\ trailStart' = forward.req.start
      BY <1>1, <2>1, <2>7 DEF StoresStart, BoxTypes
    <3>2. trail # Nothing => trail.by = forward.req.id
      BY <2>1, <3>1 DEF TrailsMatch
    <3> QED BY <2>1, <2>2, <3>1, <3>2 DEF TrailsMatch, Newest, Stored
  <2> QED BY <1>13, <2>3, <2>4, <2>5, <2>6, <2>7 DEF Computes
<1>14. ASSUME Answers, UNCHANGED clientVars PROVE TrailsMatch'
  <2> DEFINE b == [req |-> forward.req, base |-> forward.base, vectors |-> forward.vectors]
  <2>1. /\ forward # Nothing /\ forward.at = "done" /\ forward' = Nothing
        /\ answers' = answers \cup {b}
        /\ UNCHANGED <<trail, trailStart, opens, session, merged, vectors>>
    BY <1>14 DEF Answers, trailVars, sessionVars, clientVars
  <2>2. b.req = forward.req /\ b.vectors = forward.vectors
    OBVIOUS
  <2> HIDE DEF b
  <2>3. b.req.session = opens => Stored(b.req.id, b.vectors, b.req.start)
    BY <2>1, <2>2 DEF TrailsMatch
  <2> QED BY <2>1, <2>3 DEF TrailsMatch, Newest, Stored
<1>15. CASE UNCHANGED vars
  BY <1>3, <1>15 DEF vars, serverVars, clientVars, sessionVars, trailVars, workVars
<1>. QED
  BY <1>4, <1>5, <1>6, <1>7, <1>8, <1>9, <1>10, <1>11, <1>12, <1>13, <1>14, <1>15
     DEF Next, Serves, Degrades

-----------------------------------------------------------------------------
(* A chunk blended into the one its client merged last continues it,        *)
(* vector by vector, through the announced delay.                           *)
Continues(r, list, c) ==
    /\ Overlaps(r.start, c.start)
    /\ \A i \in 1 .. ChunkSize :
          i - 1 =< Anchor(r, c.start) => list[i] = c.list[r.start - c.start + i]

BlendOf(n, r, base, list) ==
    Newest(n) /\ waiting[n] = r.id /\ base # 0 /\ base = merged[n] =>
        Continues(r, list, vectors[merged[n]])

Blended ==
    /\ \A n \in Nodes, a \in answers : BlendOf(n, a.req, a.base, a.vectors)
    /\ forward # Nothing /\ forward.at \in {"start", "done"} =>
          \A n \in Nodes : BlendOf(n, forward.req, forward.base, forward.vectors)

LEMMA InitBlended == Init => Blended
BY DEF Init, ServerInit, Blended

(* The cross-fade itself.                                                   *)
LEMMA FadeContinues ==
    ASSUME NEW r, NEW prev, NEW start, Blends(r, prev, start)
    PROVE  Continues(r, Crossfaded(r, prev, start), [start |-> start, list |-> prev.vectors])
BY DEF Blends, Continues, Crossfaded

LEMMA BlendedSteps ==
    Types /\ Once /\ Opening /\ Plans /\ TrailsMatch /\ Blended /\ [Next]_vars => Blended'
<1> SUFFICES ASSUME Types, Once, Opening, Plans, TrailsMatch, Blended, [Next]_vars
             PROVE  Blended'
  OBVIOUS
<1>1. /\ BoxTypes /\ opens \in Nat /\ session \in [Nodes -> Nat] /\ merged \in [Nodes -> Nat]
      /\ waiting \in [Nodes -> Nat] /\ clock \in Nat
  BY DEF Types, BoxTypes, ClientTypes
<1>2. /\ \A a \in answers : a.req \in Asked
      /\ forward # Nothing => forward.req \in Asked
      /\ \A r \in Asked : r.id # 0 /\ r.id # clock + 1
  <2>1. \A r \in Asked : r.id \in 1 .. clock
    BY DEF Once
  <2> QED BY <1>1, <2>1 DEF Asked, Answered, Working
<1> DEFINE Then(n, r, base, list) ==
             Newest(n)' /\ waiting'[n] = r.id /\ base # 0 /\ base = merged'[n] =>
                 Continues(r, list, vectors'[merged'[n]])
<1>0. ASSUME \A n \in Nodes, a \in answers' : Then(n, a.req, a.base, a.vectors),
             forward' # Nothing /\ forward'.at \in {"start", "done"} =>
                \A n \in Nodes : Then(n, forward'.req, forward'.base, forward'.vectors)
      PROVE  Blended'
  BY <1>0 DEF Blended, BlendOf
<1>3. ASSUME NEW n \in Nodes, NEW r, NEW base, NEW list, BlendOf(n, r, base, list),
             Newest(n)' /\ waiting'[n] = r.id =>
                /\ Newest(n) /\ waiting[n] = r.id /\ merged'[n] = merged[n]
                /\ merged[n] # 0 => vectors'[merged[n]] = vectors[merged[n]]
      PROVE  Then(n, r, base, list)
  BY <1>3 DEF BlendOf
<1>4. ASSUME answers' \subseteq answers, UNCHANGED forward,
             \A n \in Nodes : \A r \in Asked : Newest(n)' /\ waiting'[n] = r.id =>
                /\ Newest(n) /\ waiting[n] = r.id /\ merged'[n] = merged[n]
                /\ merged[n] # 0 => vectors'[merged[n]] = vectors[merged[n]]
      PROVE  Blended'
  <2>1. ASSUME NEW n \in Nodes, NEW a \in answers'
        PROVE  Then(n, a.req, a.base, a.vectors)
    <3>1. a \in answers /\ a.req \in Asked /\ BlendOf(n, a.req, a.base, a.vectors)
      BY <1>2, <1>4 DEF Blended
    <3> HIDE DEF Then
    <3> QED BY <1>3, <1>4, <3>1
  <2>2. ASSUME forward # Nothing, forward.at \in {"start", "done"}, NEW n \in Nodes
        PROVE  Then(n, forward.req, forward.base, forward.vectors)
    <3>1. forward.req \in Asked /\ BlendOf(n, forward.req, forward.base, forward.vectors)
      BY <1>2, <2>2 DEF Blended
    <3> HIDE DEF Then
    <3> QED BY <1>3, <1>4, <3>1
  <2> HIDE DEF Then
  <2> QED BY <1>0, <1>4, <2>1, <2>2
<1>5. ASSUME NEW n \in Nodes, Connects(n) PROVE Blended'
  <2>1. UNCHANGED <<answers, forward>> /\ opens' = opens + 1
        /\ session' = [session EXCEPT ![n] = 0]
    BY <1>5 DEF Connects, BeginOpen, workVars
  <2>2. \A m \in Nodes : ~Newest(m)'
    BY <1>1, <2>1 DEF Opening, Newest
  <2> QED BY <1>4, <2>1, <2>2
<1>6. ASSUME NEW n \in Nodes, Leaves(n) \/ GivesUp(n) PROVE Blended'
  <2>1. /\ UNCHANGED <<answers, forward, opens, merged, vectors>> /\ waiting'[n] = 0
        /\ \A m \in Nodes \ {n} : UNCHANGED <<session[m], waiting[m]>>
    BY <1>1, <1>6 DEF Leaves, CloseSession, GivesUp, serverVars, sessionVars, workVars
  <2> QED BY <1>2, <1>4, <2>1 DEF Newest
<1>7. ASSUME UNCHANGED <<forward, opens, session, waiting, merged, vectors>>,
             answers' \subseteq answers
      PROVE  Blended'
  BY <1>4, <1>7 DEF Newest
<1>8. ASSUME NEW n \in Nodes, Executes(n) \/ Barrier(n) PROVE Blended'
  BY <1>7, <1>8 DEF Executes, Barrier, serverVars, sessionVars, workVars
<1>9. ASSUME NEW n \in Nodes, NEW d \in Delays, Asks(n, d) PROVE Blended'
  <2>1. /\ UNCHANGED <<answers, forward, opens, session, merged, vectors>>
        /\ waiting' = [waiting EXCEPT ![n] = clock + 1]
    BY <1>9 DEF Asks, AcceptInfer, sessionVars
  <2>2. \A m \in Nodes : waiting'[m] = waiting[m] \/ waiting'[m] = clock + 1
    BY <1>1, <2>1
  <2> QED BY <1>2, <1>4, <2>1, <2>2 DEF Newest
<1>10. ASSUME NEW n \in Nodes, NEW a \in answers, Merges(n, a) PROVE Blended'
  <2>1. /\ merged' = [merged EXCEPT ![n] = a.req.id] /\ answers' \subseteq answers
        /\ vectors' = [id \in DOMAIN vectors \cup {a.req.id} |->
                         IF id = a.req.id THEN [start |-> a.req.start, list |-> a.vectors]
                                          ELSE vectors[id]]
        /\ UNCHANGED <<forward, session, opens>>
        /\ waiting' = [waiting EXCEPT ![n] = 0]
    BY <1>10 DEF Merges, sessionVars
  <2>2. waiting'[n] = 0
    BY <1>1, <2>1
  <2>3. ASSUME NEW m \in Nodes \ {n}
        PROVE  /\ waiting'[m] = waiting[m] /\ merged'[m] = merged[m] /\ session'[m] = session[m]
               /\ merged[m] # 0 => vectors'[merged[m]] = vectors[merged[m]]
    <3>1. merged[m] # a.req.id /\ (merged[m] # 0 => merged[m] \in DOMAIN vectors)
      BY <1>2 DEF Once, Plans, PlanOf
    <3> QED BY <1>1, <2>1, <3>1
  <2>4. ASSUME NEW m \in Nodes, NEW r \in Asked, Newest(m)', waiting'[m] = r.id
        PROVE  /\ Newest(m) /\ waiting[m] = r.id /\ merged'[m] = merged[m]
               /\ merged[m] # 0 => vectors'[merged[m]] = vectors[merged[m]]
    <3>1. m # n
      BY <1>2, <2>2, <2>4
    <3> QED BY <2>1, <2>3, <2>4, <3>1 DEF Newest
  <2> QED BY <1>4, <2>1, <2>4
<1>11. ASSUME NEW a \in answers, Unheard(a) PROVE Blended'
  BY <1>7, <1>11 DEF Unheard, clientVars, sessionVars
<1>12. ASSUME NEW s \in live, Collected(s) PROVE Blended'
  BY <1>7, <1>12 DEF Collected, IdleGc, clientVars, workVars
<1>13. CASE Opened
  <2> DEFINE o == opener[opens]
  <2>1. /\ UNCHANGED <<answers, forward, opens, waiting, merged, vectors>>
        /\ session' = [session EXCEPT ![o] = opens]
        /\ waiting[o] = 0
    BY <1>13 DEF Opened, Registers, Opening, workVars
  <2>2. \A m \in Nodes : session'[m] = session[m] \/ waiting'[m] = 0
    BY <1>1, <2>1
  <2> QED BY <1>2, <1>4, <2>1, <2>2 DEF Newest
<1>14. CASE OpenStep
  BY <1>7, <1>14 DEF OpenStep, Load, LoadFails, Resets, clientVars, workVars
<1>15. ASSUME BeginsForward, UNCHANGED clientVars PROVE Blended'
  <2>1. forward'.at = "predict"
    BY <1>1, <1>15, Begun
  <2> QED BY <1>15, <2>1 DEF BeginsForward, Blended, BlendOf, Newest, clientVars, sessionVars
<1>16. ASSUME Computes \/ RtcFails, UNCHANGED clientVars PROVE Blended'
  <2>1. /\ forward # Nothing /\ forward'.req = forward.req
        /\ UNCHANGED <<answers, opens, session, waiting, merged, vectors>>
    BY <1>1, <1>16, Computing DEF Computes, RtcFails, sessionVars, clientVars
  <2>2. \A n \in Nodes : \A r, base, list :
           BlendOf(n, r, base, list) => BlendOf(n, r, base, list)'
    BY <2>1 DEF BlendOf, Newest
  <2>3. \A n \in Nodes, a \in answers' : BlendOf(n, a.req, a.base, a.vectors)'
    BY <2>1, <2>2 DEF Blended
  <2>4. CASE RtcFails \/ StoresRaw \/ StoresRawStart
    <3>1. forward'.at \notin {"start", "done"}
      BY <1>1, <2>1, <2>4 DEF RtcFails, StoresRaw, StoresRawStart, BoxTypes
    <3> QED BY <2>3, <3>1 DEF Blended
  <2>5. CASE StoresTrail
    <3> DEFINE r == forward.req
               prev == forward.prev
    <3>1. /\ forward.at = "blend" /\ forward'.vectors = Crossfaded(r, prev, trailStart)
          /\ forward'.base = IF Blends(r, prev, trailStart) THEN prev.by ELSE 0
      BY <1>1, <2>1, <2>5 DEF StoresTrail, BoxTypes
    <3>2. ASSUME NEW n \in Nodes PROVE Then(n, r, forward'.base, forward'.vectors)
      <4> SUFFICES ASSUME Newest(n), waiting[n] = r.id, forward'.base # 0,
                          forward'.base = merged[n]
                   PROVE  Continues(r, forward'.vectors, vectors[merged[n]])
        BY <2>1 DEF Newest
      <4>1. Blends(r, prev, trailStart) /\ prev.by = merged[n] /\ prev # Nothing /\ merged[n] # 0
        BY <3>1 DEF Blends
      <4>2. r.session = opens
        BY <1>2, <2>1 DEF Plans, PlanOf, Newest
      <4>3. prev = trail
        BY <2>1, <3>1, <4>1, <4>2 DEF TrailsMatch
      <4>4. prev.vectors = vectors[merged[n]].list /\ trailStart = vectors[merged[n]].start
        BY <4>1, <4>3 DEF TrailsMatch, Stored
      <4>5. Continues(r, forward'.vectors, [start |-> trailStart, list |-> prev.vectors])
        BY <3>1, <4>1, FadeContinues
      <4> HIDE DEF r, prev
      <4> QED BY <4>4, <4>5 DEF Continues
    <3>3. \A n \in Nodes, a \in answers' : Then(n, a.req, a.base, a.vectors)
      BY <2>1 DEF Blended, BlendOf, Newest
    <3> HIDE DEF Then
    <3> QED BY <1>0, <2>1, <3>2, <3>3
  <2>6. CASE StoresStart
    <3>1. /\ forward.at = "start" /\ forward'.base = forward.base
          /\ forward'.vectors = forward.vectors
      BY <1>1, <2>1, <2>6 DEF StoresStart, BoxTypes
    <3>2. \A n \in Nodes : BlendOf(n, forward.req, forward.base, forward.vectors)
      BY <2>1, <3>1 DEF Blended
    <3> QED BY <2>1, <2>2, <2>3, <3>1, <3>2 DEF Blended
  <2> QED BY <1>16, <2>4, <2>5, <2>6 DEF Computes
<1>17. ASSUME Answers, UNCHANGED clientVars PROVE Blended'
  <2> DEFINE b == [req |-> forward.req, base |-> forward.base, vectors |-> forward.vectors]
  <2>1. /\ forward # Nothing /\ forward.at = "done" /\ forward' = Nothing
        /\ answers' = answers \cup {b}
        /\ UNCHANGED <<opens, session, waiting, merged, vectors>>
    BY <1>17 DEF Answers, sessionVars, clientVars
  <2>2. b.req = forward.req /\ b.base = forward.base /\ b.vectors = forward.vectors
    OBVIOUS
  <2> HIDE DEF b
  <2>3. \A n \in Nodes : BlendOf(n, b.req, b.base, b.vectors)
    BY <2>1, <2>2 DEF Blended
  <2>4. \A n \in Nodes : \A r, base, list :
           BlendOf(n, r, base, list) => BlendOf(n, r, base, list)'
    BY <2>1 DEF BlendOf, Newest
  <2> QED BY <2>1, <2>3, <2>4 DEF Blended
<1>18. CASE UNCHANGED vars
  BY <1>7, <1>18 DEF vars, serverVars, clientVars, sessionVars, workVars
<1>. QED
  BY <1>5, <1>6, <1>8, <1>9, <1>10, <1>11, <1>12, <1>13, <1>14, <1>15, <1>16, <1>17, <1>18
     DEF Next, Serves, Degrades


-----------------------------------------------------------------------------
(* Only merging its own answer makes a client's last chunk that answer's.   *)
LEMMA OnlyMerges ==
    ASSUME Types, Once, Next, NEW n \in Nodes, NEW a \in answers, merged'[n] = a.req.id
    PROVE  Merges(n, a)
<1>1. merged \in [Nodes -> Nat]
  BY DEF Types, ClientTypes
<1>2. a.req.id # merged[n] /\ a.req.id # 0
  <2>1. a.req \in Asked
    BY DEF Asked, Answered
  <2>2. a.req.id \in 1 .. clock
    BY <2>1 DEF Once
  <2> QED BY <2>1, <2>2 DEF Once, Types, ClientTypes
<1>3. merged' # merged
  BY <1>2
<1>4. ASSUME NEW m \in Nodes, Connects(m) PROVE merged'[n] \in {merged[n], 0}
  BY <1>1, <1>4 DEF Connects
<1>5. ASSUME NEW m \in Nodes, NEW b \in answers, Merges(m, b) PROVE m = n /\ b = a
  <2>1. merged' = [merged EXCEPT ![m] = b.req.id]
    BY <1>5 DEF Merges
  <2>2. m = n /\ b.req.id = a.req.id
    BY <1>1, <1>2, <2>1
  <2> QED BY <2>2 DEF Once
<1>6. ASSUME NEW m \in Nodes,
             Leaves(m) \/ GivesUp(m) \/ Executes(m) \/ Barrier(m) \/ \E d \in Delays : Asks(m, d)
      PROVE  merged' = merged
  BY <1>6 DEF Leaves, GivesUp, Executes, Barrier, Asks
<1>7. ASSUME (\E s \in live : Collected(s)) \/ (\E b \in answers : Unheard(b))
                \/ Opened \/ OpenStep \/ Serves \/ Degrades
      PROVE  merged' = merged
  BY <1>7 DEF Collected, Unheard, Opened, OpenStep, Serves, Degrades, clientVars
<1>8. PICK m \in Nodes : \/ Connects(m)
                         \/ \E b \in answers : Merges(m, b)
  BY <1>3, <1>6, <1>7 DEF Next
<1>9. PICK b \in answers : Merges(m, b)
  BY <1>2, <1>4, <1>8
<1> QED BY <1>5, <1>9

(* A chunk made against the one its client merged last, arriving within the *)
(* delay that was announced, leaves the action at the cursor as it was.     *)
LEMMA InTime ==
    ASSUME Types, Once, Plans, Blended, NEW n \in Nodes, NEW a \in answers, Merges(n, a),
           a.base # 0, a.base = merged[n], session[n] = opens, CanPop(sched[n]),
           sched[n].cursor - a.req.start <= a.req.delay
    PROVE  Planned(n, sched[n].cursor)' = Planned(n, sched[n].cursor)
<1> DEFINE k  == sched[n].cursor
           r  == a.req
           M  == merged[n]
           V  == vectors[M]
           i  == k - r.start + 1
           c  == [ts |-> r.id, start |-> r.start, len |-> ChunkSize]
<1>1. /\ HasShape(sched[n]) /\ k \in Nat /\ r \in Request /\ r \in Asked
      /\ session[n] \in Nat /\ waiting[n] = r.id /\ r.id # 0 /\ M \in Nat
      /\ sched = [m \in Nodes |-> sched[m]]
  <2>1. r \in Asked
    BY DEF Asked, Answered
  <2>2. r.id \in 1 .. clock
    BY <2>1 DEF Once
  <2>3. r \in Request /\ waiting[n] = r.id
    BY <2>1 DEF Types, BoxTypes, Merges
  <2>4. ClientTypes /\ clock \in Nat /\ HasShape(sched[n]) /\ k \in Nat
    BY DEF Types, ClientTypes, HasShape
  <2> HIDE DEF r, k, M
  <2>5. r.id # 0
    BY <2>2, <2>4
  <2>6. session[n] \in Nat /\ M \in Nat /\ sched = [m \in Nodes |-> sched[m]]
    BY <2>4 DEF ClientTypes, M
  <2> QED BY <2>1, <2>3, <2>4, <2>5, <2>6
<1>2. r.id \in Nat /\ r.start \in Nat /\ r.delay \in Nat
  BY <1>1 DEF Request
<1>3. /\ M # 0 /\ M # r.id /\ M \in DOMAIN vectors
      /\ sched[n].data[k] = M /\ V.start \in Nat /\ V.start =< r.start
      /\ r.start =< k /\ k < V.start + ChunkSize
      /\ session[n] # 0
  BY <1>1 DEF Plans, PlanOf, Once, CanPop
<1>4. /\ \A j \in 1 .. ChunkSize :
             j - 1 =< Anchor(r, V.start) => a.vectors[j] = V.list[r.start - V.start + j]
  BY <1>1, <1>3 DEF Blended, BlendOf, Newest, Continues
<1>5. Planned(n, k) = V.list[k - V.start + 1]
  BY <1>3 DEF Planned
<1>6. /\ sched'[n] = Merge(sched[n], c)
      /\ vectors' = [id \in DOMAIN vectors \cup {r.id} |->
                       IF id = r.id THEN [start |-> r.start, list |-> a.vectors] ELSE vectors[id]]
  BY <1>1 DEF Merges
<1>7. /\ sched'[n].cursor = k
      /\ sched'[n].data[k] = IF k \in Installs(sched[n], c) THEN r.id ELSE M
  <2>1. c.start = r.start /\ c.len = ChunkSize /\ c.ts = r.id
    OBVIOUS
  <2> HIDE DEF c
  <2>2. LET T == Merge(sched[n], c)
        IN  /\ T.cursor = k
            /\ Scheduled(T) = Scheduled(sched[n]) \cup Installs(sched[n], c)
            /\ \A j \in Scheduled(T) :
                  T.data[j] = IF j \in Installs(sched[n], c) THEN c.ts ELSE sched[n].data[j]
    BY <1>1, <1>2, <2>1, MergeEffect
  <2> QED BY <1>3, <1>6, <2>1, <2>2 DEF CanPop
<1>8. Planned(n, k)' = LET v == vectors'[sched'[n].data[k]] IN v.list[k - v.start + 1]
  BY <1>7 DEF Planned
<1>9. CASE k \in Installs(sched[n], c)
  <2>1. vectors'[r.id] = [start |-> r.start, list |-> a.vectors]
    BY <1>6
  <2>2. Planned(n, k)' = a.vectors[i]
    BY <1>7, <1>8, <1>9, <2>1
  <2>3. i \in 1 .. ChunkSize /\ i - 1 =< Anchor(r, V.start)
        /\ r.start - V.start + i = k - V.start + 1
    <3> DEFINE s == r.start
               d == r.delay
               p == V.start
    <3>1. s \in Nat /\ d \in Nat /\ p \in Nat /\ k \in Nat /\ p =< s /\ s =< k
          /\ k < p + ChunkSize /\ k - s =< d
      BY <1>1, <1>2, <1>3
    <3>2. Anchor(r, p) = IF d < ChunkSize - (s - p) - 1 THEN d ELSE ChunkSize - (s - p) - 1
      BY DEF Anchor
    <3>3. i = k - s + 1
      OBVIOUS
    <3> HIDE DEF s, d, p, i, k
    <3>4. i \in 1 .. ChunkSize /\ i - 1 =< Anchor(r, p) /\ s - p + i = k - p + 1
      BY <3>1, <3>2, <3>3
    <3> QED BY <3>4 DEF s, p, k, i
  <2> HIDE DEF i
  <2>4. a.vectors[i] = V.list[r.start - V.start + i]
    BY <1>4, <2>3
  <2> QED BY <1>5, <2>2, <2>3, <2>4
<1>10. CASE k \notin Installs(sched[n], c)
  <2>1. sched'[n].data[k] = M /\ vectors'[M] = V
    BY <1>3, <1>6, <1>7, <1>10
  <2> QED BY <1>5, <1>8, <2>1
<1>11. Planned(n, sched[n].cursor)' = Planned(n, k)'
  BY <1>7 DEF Planned
<1> QED BY <1>9, <1>10, <1>11

(* The chunk that arrives in time does not change what the robot is about   *)
(* to do: through every reset, give-up, barrier and reconnection, the chunk *)
(* it continues is the one its client executes.                             *)
THEOREM SeamsHold == Spec => SeamIsContinuous
<1> DEFINE IInv == Types /\ Once /\ Opening /\ Plans /\ TrailsMatch /\ Blended
           Seam == \A n \in Nodes : \A a \in answers :
                      /\ waiting[n] = a.req.id /\ merged'[n] = a.req.id
                      /\ a.base # 0 /\ a.base = merged[n]
                      /\ session[n] = opens
                      /\ CanPop(sched[n])
                      /\ sched[n].cursor - a.req.start <= a.req.delay
                      => Planned(n, sched[n].cursor)' = Planned(n, sched[n].cursor)
<1>1. Init => IInv
  BY InitTypes, InitOnce, InitOpening, InitPlans, InitTrailsMatch, InitBlended
<1>2. IInv /\ [Next]_vars => IInv'
  BY ClientSteps, BoxSteps, OnceSteps, OpeningSteps, PlansSteps, TrailsMatchSteps, BlendedSteps
     DEF Types
<1>3. IInv /\ [Next]_vars => [Seam]_vars
  BY OnlyMerges, InTime
<1> QED BY <1>1, <1>2, <1>3, PTL DEF Spec, SeamIsContinuous
=============================================================================
