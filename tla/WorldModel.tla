----------------------------- MODULE WorldModel -----------------------------
(***************************************************************************)
(* A world-action policy and the video it remembers: the node's ring of    *)
(* camera samples (node/context_ring.py), the engine that forwards the     *)
(* samples its sidecar has not seen (server/dreamzero_backend.py), the     *)
(* one socket between them (server/dreamzero_sidecar.py), and the sidecar  *)
(* that encodes them (interlatent_dreamzero/sidecar_main.py).              *)
(*                                                                         *)
(* Two threads of the engine write the socket and wait on it: the worker   *)
(* inside forward(), and the event loop inside OpenSession, which resets   *)
(* the cached backend.  Neither takes a lock.  A whole frame is read by    *)
(* one of them; a read torn between two threads is left out.  A node asks  *)
(* again only when it has its answer, as its cadence with these            *)
(* checkpoints is the sequential one.                                      *)
(***************************************************************************)
EXTENDS Integers, Sequences, SequencesExt

CONSTANTS
    Capacity,   \* ContextRing.capacity
    Keep,       \* the samples the model conditions on (context_frames)
    MaxSamples, \* bound: samples of one loop
    MaxOpens,   \* bound: OpenSession calls
    MaxFaults,  \* bound: requests that time out or break in the sidecar
    Nothing     \* no forward, no chunk

VARIABLES
    opens,      \* OpenSession calls so far
    loop,       \* the control loop behind the newest session: each has its own ring
    nextSeq,    \* ContextRing._seq
    ring,       \* ContextRing._frames: the numbers of the samples it holds
    mark,       \* DreamZeroBackend._last_ctx_seq
    forward,    \* the worker, inside forward(): its loop, window and stage
    resetting,  \* the event loop, inside reset_session_state()
    toSidecar,  \* requests on the socket
    toEngine,   \* answers on the socket
    encoded,    \* the model's memory: each sample with the loop it came from
    served,     \* the newest chunk: its loop, and the memory it was computed from
    faults

nodeVars == <<opens, loop, nextSeq, ring>>
socketVars == <<toSidecar, toEngine>>
vars == <<nodeVars, mark, forward, resetting, socketVars, encoded, served, faults>>

\* A box that has warmed the backend up; its first node connects.
Init ==
    /\ opens = 0 /\ loop = 0
    /\ nextSeq = 0 /\ ring = <<>>
    /\ mark = -1
    /\ forward = Nothing /\ resetting = "no"
    /\ toSidecar = <<>> /\ toEngine = <<>>
    /\ encoded = <<>> /\ served = Nothing
    /\ faults = 0

Newest(n, s) == IF Len(s) > n THEN SubSeq(s, Len(s) - n + 1, Len(s)) ELSE s

-----------------------------------------------------------------------------
\* offer(): the loop samples its cameras, whether or not it asks for actions.
Sample ==
    /\ loop > 0 /\ nextSeq < MaxSamples
    /\ ring' = Newest(Capacity, Append(ring, nextSeq))
    /\ nextSeq' = nextSeq + 1
    /\ UNCHANGED <<opens, loop, mark, forward, resetting, socketVars, encoded, served, faults>>

\* drain(): a request carries the whole ring, and leaves it as it was.
Packed == [loop |-> loop, window |-> ring, stage |-> "context"]

Ask ==
    /\ loop > 0 /\ resetting = "no" /\ forward = Nothing
    /\ forward' = Packed
    /\ UNCHANGED <<nodeVars, mark, resetting, socketVars, encoded, served, faults>>

NewRing == loop' = loop + 1 /\ nextSeq' = 0 /\ ring' = <<>>

\* OpenSession finds the backend in the cache.  A new loop has a new ring,
\* which counts from 0; a loop that redials keeps the one it has.
Open(fresh) ==
    /\ opens < MaxOpens /\ resetting = "no"
    /\ fresh \/ loop > 0
    /\ opens' = opens + 1
    /\ IF fresh THEN NewRing ELSE UNCHANGED <<loop, nextSeq, ring>>
    /\ mark' = -1
    /\ resetting' = "send"
    /\ UNCHANGED <<forward, socketVars, encoded, served, faults>>

SendReset ==
    /\ resetting = "send"
    /\ toSidecar' = Append(toSidecar, [op |-> "reset"])
    /\ resetting' = "wait"
    /\ UNCHANGED <<nodeVars, mark, forward, toEngine, encoded, served, faults>>

\* Whatever the answer says, the session opens: a failed reset is only logged.
ResetAnswered ==
    /\ resetting = "wait" /\ toEngine # <<>>
    /\ toEngine' = Tail(toEngine)
    /\ resetting' = "no"
    /\ UNCHANGED <<nodeVars, mark, forward, toSidecar, encoded, served, faults>>

-----------------------------------------------------------------------------
\* _forward_context(): the samples past the mark, numbered by the ring.
Unseen(window, seen) == SelectSeq(window, LAMBDA n : n > seen)

ForwardContext ==
    /\ forward # Nothing /\ forward.stage = "context"
    /\ LET unseen == Unseen(forward.window, mark) IN
       IF unseen = <<>>
       THEN forward' = [forward EXCEPT !.stage = "infer"] /\ UNCHANGED toSidecar
       ELSE /\ toSidecar' = Append(toSidecar, [op |-> "context", loop |-> forward.loop,
                                               samples |-> unseen])
            /\ forward' = [forward EXCEPT !.stage = "context wait"]
    /\ UNCHANGED <<nodeVars, mark, resetting, toEngine, encoded, served, faults>>

\* Any answer but an error will do: a request is not matched with its answer.
ContextAnswered ==
    /\ forward # Nothing /\ forward.stage = "context wait" /\ toEngine # <<>>
    /\ toEngine' = Tail(toEngine)
    /\ IF Head(toEngine).kind = "error"
       THEN forward' = Nothing /\ UNCHANGED mark
       ELSE /\ mark' = Last(forward.window)
            /\ forward' = [forward EXCEPT !.stage = "infer"]
    /\ UNCHANGED <<nodeVars, resetting, toSidecar, encoded, served, faults>>

SendInfer ==
    /\ forward # Nothing /\ forward.stage = "infer"
    /\ toSidecar' = Append(toSidecar, [op |-> "infer"])
    /\ forward' = [forward EXCEPT !.stage = "infer wait"]
    /\ UNCHANGED <<nodeVars, mark, resetting, toEngine, encoded, served, faults>>

\* _decode_actions(): an answer without a payload is an error, and no chunk.
InferAnswered ==
    /\ forward # Nothing /\ forward.stage = "infer wait" /\ toEngine # <<>>
    /\ toEngine' = Tail(toEngine)
    /\ forward' = Nothing
    /\ served' = IF Head(toEngine).kind = "chunk"
                 THEN [loop |-> forward.loop, memory |-> Head(toEngine).memory]
                 ELSE served
    /\ UNCHANGED <<nodeVars, mark, resetting, toSidecar, encoded, faults>>

\* The socket's timeout: the request fails, the socket stays, and the answer
\* that comes later is the next request's.
ForwardTimesOut ==
    /\ forward # Nothing /\ forward.stage \in {"context wait", "infer wait"}
    /\ faults < MaxFaults /\ faults' = faults + 1
    /\ forward' = Nothing
    /\ UNCHANGED <<nodeVars, mark, resetting, socketVars, encoded, served>>

ResetTimesOut ==
    /\ resetting = "wait"
    /\ faults < MaxFaults /\ faults' = faults + 1
    /\ resetting' = "no"
    /\ UNCHANGED <<nodeVars, mark, forward, socketVars, encoded, served>>

-----------------------------------------------------------------------------
(* The sidecar: one request after the other, in the order of the socket.   *)
Encoded(req, n) ==
    Newest(Keep, encoded \o [i \in 1..n |-> <<req.loop, req.samples[i]>>])

Answered(answer) ==
    /\ toSidecar' = Tail(toSidecar)
    /\ toEngine' = Append(toEngine, answer)
    /\ UNCHANGED <<nodeVars, mark, forward, resetting, served>>

Handles ==
    /\ toSidecar # <<>>
    /\ LET req == Head(toSidecar) IN
       \/ /\ req.op = "context"
          /\ encoded' = Encoded(req, Len(req.samples))
          /\ Answered([kind |-> "ok"])
       \/ /\ req.op = "infer"
          /\ encoded' = encoded
          /\ Answered([kind |-> "chunk", memory |-> encoded])
       \/ /\ req.op = "reset"
          /\ encoded' = <<>>
          /\ Answered([kind |-> "ok"])
    /\ UNCHANGED faults

\* A sample does not decode: those before it stay encoded.
Breaks ==
    /\ toSidecar # <<>> /\ Head(toSidecar).op = "context"
    /\ faults < MaxFaults /\ faults' = faults + 1
    /\ \E n \in 0..(Len(Head(toSidecar).samples) - 1) :
           encoded' = Encoded(Head(toSidecar), n)
    /\ Answered([kind |-> "error"])

Next ==
    \/ Sample \/ Ask
    \/ \E fresh \in BOOLEAN : Open(fresh)
    \/ SendReset \/ ResetAnswered \/ ResetTimesOut
    \/ ForwardContext \/ ContextAnswered \/ SendInfer \/ InferAnswered \/ ForwardTimesOut
    \/ Handles \/ Breaks

Spec == Init /\ [][Next]_vars

-----------------------------------------------------------------------------
\* reset_session_state() says what it is for: without the reset, session 2
\* "would continue dreaming from session 1's final frames".  A chunk served to
\* a loop is computed from the samples of that loop alone, whatever the worker
\* was doing while the event loop opened the session (dreamzero_backend.py).
SessionsDoNotMix ==
    served # Nothing =>
        \A i \in DOMAIN served.memory : served.memory[i][1] = served.loop
=============================================================================
