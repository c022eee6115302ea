---------------------------- MODULE TeleopRelay ----------------------------
(***************************************************************************)
(* The WebTransport relay embedded in the coordinator, for one teleop      *)
(* session: the registry that pairs a browser with a node, and what the    *)
(* protocol object of one connection does to it when the connection is     *)
(* accepted, when a datagram arrives and when the connection ends          *)
(* (coordinator/relay_core.py, coordinator/relay.py).                      *)
(*                                                                         *)
(* A browser connection is a page: a reload is another page.  A node       *)
(* connection is the child process that made it, since a child makes at    *)
(* most one (see QuicChannel).  Tokens are abstracted: a connection whose  *)
(* token the coordinator refuses is never registered, which is the failing *)
(* connect of QuicChannel.                                                 *)
(***************************************************************************)
EXTENDS Integers, Sequences, FiniteSets

CONSTANTS
    Pages,      \* browser connections, numbered in the order they are opened
    Kids,       \* QUIC child processes of the node, numbered in the order of their birth
    Nobody      \* an empty side of the pair; also "no child", "no frame"

ASSUME RelayAssumption ==
    /\ Pages \subseteq Nat \ {0}
    /\ Kids \subseteq Nat \ {0}
    /\ Nobody \notin Pages \cup Kids

VARIABLES
    browser,    \* Registry._pairs[session].browser
    node,       \* Registry._pairs[session].node
    peers,      \* connections the relay holds as live, superseded ones included
    latest      \* the connection accepted last, on the side of the pages and of the children

relayVars == <<browser, node, peers, latest>>

RelayInit ==
    /\ browser = Nobody
    /\ node = Nobody
    /\ peers = [browsers |-> {}, nodes |-> {}]
    /\ latest = [browser |-> Nobody, node |-> Nobody]

-----------------------------------------------------------------------------
\* The relay accepts a connection: the newcomer takes the side, and whoever
\* held it is left connected.
AcceptBrowser(p) ==
    /\ browser' = p
    /\ peers' = [peers EXCEPT !.browsers = @ \cup {p}]
    /\ latest' = [latest EXCEPT !.browser = p]
    /\ UNCHANGED node

AcceptNode(k) ==
    /\ node' = k
    /\ peers' = [peers EXCEPT !.nodes = @ \cup {k}]
    /\ latest' = [latest EXCEPT !.node = k]
    /\ UNCHANGED browser

\* Registry.detach clears a side only for the peer that holds it.
\* Mutant: it clears the side whoever leaves.
ClearSide(side, c) == Nobody

Detached(side, c) == IF side = c THEN Nobody ELSE side

\* A connection ends.  The survivor of a browser is the node that is paired
\* at that moment, even when the browser had been superseded: it is told by
\* the synthetic close frame.
TearDownBrowser(p) ==
    /\ p \in peers.browsers
    /\ peers' = [peers EXCEPT !.browsers = @ \ {p}]
    /\ browser' = Detached(browser, p)
    /\ UNCHANGED <<node, latest>>

TearDownNode(k) ==
    /\ k \in peers.nodes
    /\ peers' = [peers EXCEPT !.nodes = @ \ {k}]
    /\ node' = Detached(node, k)
    /\ UNCHANGED <<browser, latest>>
=============================================================================
