---------------------------- MODULE MCMcpSession ----------------------------
(***************************************************************************)
(* Two investigations of one incident whose telemetry may differ between   *)
(* them, and a session that may ask for that incident at any moment.  A    *)
(* line of two pieces is above the ceiling.                                *)
(***************************************************************************)
EXTENDS McpSession, TLC

CONSTANTS a, first, second, checkout, cart, gateway, sha

SameIncident == first :> a @@ second :> a

Link(p, c) == [parent |-> p, child |-> c]

Seen(failing, lost, deployed) ==
    [signals |-> TRUE, failing |-> failing, lost |-> lost,
     installed |-> [s \in {checkout, cart, gateway} |->
                        IF s \in deployed THEN sha ELSE NoDeploy]]

Quiet == [Seen({}, {}, {}) EXCEPT !.signals = FALSE]

(* Nothing in the window; a failing service that was deployed; two lost    *)
(* links into one service; one commit deployed to two failing services.    *)
Deploys == Seen({checkout}, {}, {checkout, cart})
TwoParents == Seen({}, {Link(gateway, cart), Link(checkout, cart)}, {})
TwoDeploys == Seen({checkout, cart}, {}, {checkout, cart})

Windows == {Quiet, Deploys, TwoParents}
AllWindows == Windows \cup {TwoDeploys}

Short(kind, last) == [kind |-> kind, incident |-> a, pieces |-> 1, last |-> last]

ClientLines ==
    {Short(k, FALSE) : k \in {"notification", "badCall", "list", "get"}}
    \cup {Short("method", TRUE), [Short("method", FALSE) EXCEPT !.pieces = 2]}
=============================================================================
