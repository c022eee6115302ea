---------------------------- MODULE PolicyServer ----------------------------
(***************************************************************************)
(* The inference half of the GPU box: the sessions of the servicer         *)
(* (server/transport.py), the policy runtime cached for the whole process  *)
(* (server/policy_runtime.py), and the trail the backend keeps of its last *)
(* chunk to make the next one continuous (server/lerobot_backend.py,       *)
(* server/chunk_seam.py).                                                  *)
(*                                                                         *)
(* Two threads: the event loop, which answers RPCs and resets the backend  *)
(* inside OpenSession, and the single inference worker, which runs the     *)
(* forwards one after the other.  The trail has no lock: every store of    *)
(* one thread is a step that the other may precede or follow.              *)
(*                                                                         *)
(* An action vector is known by the request that made it and the step it   *)
(* was made for, so two equal vectors of the model are the same vector.    *)
(***************************************************************************)
EXTENDS ActionSchedule, Sequences

CONSTANTS
    Nodes,        \* the nodes that open sessions here, each for its episode
    ChunkSize,    \* actions in a chunk
    RtcPolicies,  \* which policies there are: TRUE denoises with in-painting (RTC),
                  \* FALSE is cross-faded
    MaxOpens,     \* bound: OpenSession calls
    Nothing       \* no trail, no forward, no RPC

ASSUME ServerAssumption ==
    /\ ChunkSize \in Nat \ {0}
    /\ RtcPolicies \subseteq BOOLEAN
    /\ MaxOpens \in Nat
    /\ Nothing \notin Nodes

VARIABLES
    loaded,     \* the runtime is in _RUNTIME_CACHE
    rtcOk,      \* backend._rtc_ok
    rawTrail,   \* backend._last_raw: the request and the session of the chunk
    rawStart,   \* backend._last_start
    trail,      \* backend._last_processed: request, session and vectors of the chunk
    trailStart, \* backend._last_processed_start
    opens,      \* OpenSession calls so far: the number of the newest session
    opener,     \* opener[s]: the node that opened session s
    live,       \* _sessions
    episode,    \* _by_episode: the session of each node's episode, 0 for none
    opening,    \* the event loop inside OpenSession: the next thing it does
    overlapped, \* history: the sessions that did not have the worker to themselves,
                \* since they began to open, but met a request of another one there
    queue,      \* requests handed to the inference executor
    forward,    \* the inference worker, inside forward()
    answers     \* chunks on their way to the clients

trailVars == <<rawTrail, rawStart, trail, trailStart>>
sessionVars == <<opens, opener, live, episode, opening, overlapped>>
workVars == <<queue, forward, answers>>
serverVars == <<loaded, rtcOk, trailVars, sessionVars, workVars>>

Vector == [by: Nat, step: Nat]

Request == [id: Nat, session: Nat, start: Nat, delay: Nat]

\* A chunk as it leaves forward(): `base` is the request whose chunk it was
\* blended into, 0 for none.
Answer == [req: Request, base: Nat, vectors: Seq(Vector)]

ServerInit ==
    /\ loaded \in BOOLEAN
    /\ rtcOk \in RtcPolicies
    /\ rawTrail = Nothing /\ rawStart = 0
    /\ trail = Nothing /\ trailStart = 0
    /\ opens = 0
    /\ opener = <<>>
    /\ live = {}
    /\ episode = [n \in Nodes |-> 0]
    /\ opening = "no"
    /\ overlapped = {}
    /\ queue = <<>>
    /\ forward = Nothing
    /\ answers = {}

-----------------------------------------------------------------------------
(***************************************************************************)
(* OpenSession.  The event loop serves nothing else until it returns, but  *)
(* the worker goes on.                                                     *)
(***************************************************************************)
BeginOpen(n) ==
    /\ opening = "no"
    /\ opens < MaxOpens
    /\ opens' = opens + 1
    /\ opener' = Append(opener, n)
    /\ opening' = IF loaded THEN "reset raw" ELSE "load"
    /\ overlapped' = IF queue = <<>> /\ forward = Nothing THEN overlapped
                     ELSE overlapped \cup {opens + 1}
    /\ UNCHANGED <<loaded, rtcOk, trailVars, live, episode, workVars>>

\* The first session of a policy builds the backend, runs its warm-up forward
\* on this very thread, and resets it.
Load ==
    /\ opening = "load"
    /\ loaded' = TRUE
    /\ opening' = "register"
    /\ UNCHANGED <<rtcOk, trailVars, opens, opener, live, episode, overlapped, workVars>>

\* The checkpoint cannot be fetched, or its cameras are not the node's: the
\* RPC fails before it touched the sessions.
LoadFails ==
    /\ opening = "load"
    /\ opening' = "no"
    /\ UNCHANGED <<loaded, rtcOk, trailVars, opens, opener, live, episode, overlapped, workVars>>

\* reset_session_state(), store by store.
\* Mutant: the attribute-poke it replaced, which knew of the RTC pair only.
AfterRawOnly == [raw |-> "reset raw start", rawStart |-> "register",
                 proc |-> "reset start", start |-> "register"]

AfterStore == [raw |-> "reset raw start", rawStart |-> "reset trail",
               proc |-> "reset start", start |-> "register"]

ResetsRaw ==
    /\ opening = "reset raw"
    /\ rawTrail' = Nothing
    /\ opening' = AfterStore.raw
    /\ UNCHANGED <<rawStart, trail, trailStart>>

ResetsRawStart ==
    /\ opening = "reset raw start"
    /\ rawStart' = 0
    /\ opening' = AfterStore.rawStart
    /\ UNCHANGED <<rawTrail, trail, trailStart>>

ResetsTrail ==
    /\ opening = "reset trail"
    /\ trail' = Nothing
    /\ opening' = AfterStore.proc
    /\ UNCHANGED <<rawTrail, rawStart, trailStart>>

ResetsStart ==
    /\ opening = "reset start"
    /\ trailStart' = 0
    /\ opening' = AfterStore.start
    /\ UNCHANGED <<rawTrail, rawStart, trail>>

Resets ==
    /\ ResetsRaw \/ ResetsRawStart \/ ResetsTrail \/ ResetsStart
    /\ UNCHANGED <<loaded, rtcOk, opens, opener, live, episode, overlapped, workVars>>

\* The session an OpenSession of the episode retires.
Superseded(n) == {episode[n]}

\* The rest of OpenSession: the episode's old session is retired and the new
\* one enters every index.
Registers ==
    LET n == opener[opens] IN
    /\ opening = "register"
    /\ live' = (live \ Superseded(n)) \cup {opens}
    /\ episode' = [episode EXCEPT ![n] = opens]
    /\ opening' = "no"
    /\ UNCHANGED <<loaded, rtcOk, trailVars, opens, opener, overlapped, workVars>>

\* CloseSession.
CloseSession(s) ==
    /\ opening = "no"
    /\ live' = live \ {s}
    /\ episode' = [n \in Nodes |-> IF episode[n] = s THEN 0 ELSE episode[n]]
    /\ UNCHANGED <<loaded, rtcOk, trailVars, opens, opener, opening, overlapped, workVars>>

\* The idle collection takes a silent session, which may have a request in the
\* executor; the episode's index keeps its entry.
IdleGc(s) ==
    /\ opening = "no"
    /\ s \in live
    /\ live' = live \ {s}
    /\ UNCHANGED <<loaded, rtcOk, trailVars, opens, opener, episode, opening, overlapped, workVars>>

-----------------------------------------------------------------------------
(***************************************************************************)
(* Infer, up to the hand-over to the worker.                               *)
(***************************************************************************)
AcceptInfer(req) ==
    /\ opening = "no"
    /\ req.session \in live
    /\ queue' = Append(queue, req)
    /\ overlapped' = overlapped \cup (1..opens \ {req.session})
    /\ UNCHANGED <<loaded, rtcOk, trailVars, opens, opener, live, episode, opening, forward,
                   answers>>

-----------------------------------------------------------------------------
(***************************************************************************)
(* forward() on the inference worker.                                      *)
(***************************************************************************)

\* Where a chunk that starts at `next` sits inside one that started at `start`.
Overlaps(next, start) == next >= start /\ next - start < ChunkSize

\* RTC's left-over of the previous raw chunk.
Leftover(req) ==
    IF rtcOk /\ rawTrail # Nothing /\ Overlaps(req.start, rawStart) THEN rawTrail ELSE Nothing

BeginsForward ==
    /\ forward = Nothing
    /\ queue # <<>>
    /\ forward' = [at |-> "predict", req |-> Head(queue), prev |-> Leftover(Head(queue)),
                   base |-> 0, vectors |-> <<>>]
    /\ queue' = Tail(queue)
    /\ UNCHANGED <<loaded, rtcOk, trailVars, sessionVars, answers>>

\* The in-painting forward raises: RTC is off from here on, and the chunk is
\* predicted again without the left-over.
RtcFails ==
    /\ forward # Nothing
    /\ forward.at = "predict"
    /\ forward.prev # Nothing
    /\ rtcOk' = FALSE
    /\ forward' = [forward EXCEPT !.prev = Nothing]
    /\ UNCHANGED <<loaded, trailVars, sessionVars, queue, answers>>

\* The raw pair is read only while RTC is on, and RTC never comes back: the
\* model stores it only then.
StoresRaw ==
    /\ forward.at = "predict"
    /\ rawTrail' = IF rtcOk THEN [by |-> forward.req.id, session |-> forward.req.session]
                   ELSE Nothing
    /\ forward' = [forward EXCEPT !.at = "raw start", !.prev = Nothing]
    /\ UNCHANGED <<rawStart, trail, trailStart>>

\* The second store, and the read of the previous chunk for the cross-fade,
\* which is made only without RTC.
StoresRawStart ==
    /\ forward.at = "raw start"
    /\ rawStart' = IF rtcOk THEN forward.req.start ELSE 0
    /\ forward' = [forward EXCEPT !.at = "blend", !.prev = IF rtcOk THEN Nothing ELSE trail]
    /\ UNCHANGED <<rawTrail, trail, trailStart>>

\* crossfade_chunk(): through the announced delay the previous chunk's vectors
\* stand, then the ramp mixes and the fresh ones take over.
Blends(req, prev, start) == prev # Nothing /\ Overlaps(req.start, start)

\* Mutant: the last step of the delay is mixed already.
AnchorShort(req, start) == req.delay - 1

Anchor(req, start) ==
    LET m == ChunkSize - (req.start - start)
    IN  IF req.delay < m - 1 THEN req.delay ELSE m - 1

Fresh(req, i) == [by |-> req.id, step |-> req.start + i - 1]

Crossfaded(req, prev, start) ==
    [i \in 1..ChunkSize |->
        IF Blends(req, prev, start) /\ i - 1 <= Anchor(req, start)
        THEN prev.vectors[req.start - start + i]
        ELSE Fresh(req, i)]

\* What is kept for the next blend.
Kept(req, vectors) == vectors

StoresTrail ==
    LET vectors == Crossfaded(forward.req, forward.prev, trailStart) IN
    /\ forward.at = "blend"
    /\ forward' = [forward EXCEPT
                     !.at = "start",
                     !.base = IF Blends(forward.req, forward.prev, trailStart)
                              THEN forward.prev.by ELSE 0,
                     !.vectors = vectors]
    /\ trail' = [by |-> forward.req.id, session |-> forward.req.session,
                 vectors |-> Kept(forward.req, vectors)]
    /\ UNCHANGED <<rawTrail, rawStart, trailStart>>

StoresStart ==
    /\ forward.at = "start"
    /\ trailStart' = forward.req.start
    /\ forward' = [forward EXCEPT !.at = "done"]
    /\ UNCHANGED <<rawTrail, rawStart, trail>>

Computes ==
    /\ forward # Nothing
    /\ StoresRaw \/ StoresRawStart \/ StoresTrail \/ StoresStart
    /\ UNCHANGED <<loaded, rtcOk, sessionVars, queue, answers>>

\* The rest of _infer_one, back on the event loop, whatever became of the
\* session meanwhile.
Answers ==
    /\ opening = "no"
    /\ forward # Nothing
    /\ forward.at = "done"
    /\ answers' = answers \cup {[req |-> forward.req, base |-> forward.base,
                                 vectors |-> forward.vectors]}
    /\ forward' = Nothing
    /\ UNCHANGED <<loaded, rtcOk, trailVars, sessionVars, queue>>
=============================================================================
