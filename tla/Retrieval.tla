----------------------------- MODULE Retrieval ------------------------------
(***************************************************************************)
(* Retrieval of one chunk (pkg/retrieval, pkg/netstore): a node that lacks *)
(* the chunk asks its peers, closest first, several at a time; a peer that *)
(* lacks it asks on.  Calls for the same chunk share a flight: one for the *)
(* node's own requests, one for all requests it forwards.  A node is named *)
(* by its distance from the chunk.                                         *)
(***************************************************************************)
EXTENDS Naturals, FiniteSetsExt

CONSTANTS
  Nodes,          \* the nodes, named by distance
  Links,          \* pairs of connected nodes
  Holders,        \* nodes that have the chunk
  Requesters,     \* nodes that request it for themselves
  MaxSelects,     \* attempts of a flight before it starts over
  MaxRounds,      \* rounds of attempts of an own request
  MaxRefused      \* bound: requests that are refused or not sent

VARIABLES
  flights,        \* the flights: by node and whether it is the node's own
  asks,           \* requests on their way: flight and peer
  has,            \* nodes that have the chunk
  refused

retVars == <<flights, asks, has, refused>>

Flight == (Requesters \X {"origin"}) \cup (Nodes \X {"forward"})
NoFlight == [st |-> "idle", skip |-> {}, overdraft |-> {}, attempts |-> 0, results |-> 0, rounds |-> 0]
Peers(n) == {p \in Nodes : {n, p} \in Links}
Request == {a \in Flight \X Nodes : a[2] \in Peers(a[1][1])}
MaxPeers(f) == IF f[2] = "origin" THEN MaxSelects ELSE 1

Init ==
  /\ flights = [f \in Flight |-> NoFlight] /\ asks = {} /\ has = Holders /\ refused = 0

-----------------------------------------------------------------------------
\* RetrieveChunk joins the flight of its kind or starts it.
Join(fs, f) == IF fs[f].st = "flying" THEN fs ELSE [fs EXCEPT ![f] = [NoFlight EXCEPT !.st = "flying"]]

\* RetrieveChunk returns: the counts of its loop are gone.
Return(f, st) == flights' = [flights EXCEPT ![f] = [NoFlight EXCEPT !.st = st]]

\* netstore Get: a chunk that is not stored is requested from the network.
Get(n) ==
  /\ n \in Requesters \ has /\ flights[<<n, "origin">>].st = "idle"
  /\ flights' = Join(flights, <<n, "origin">>)
  /\ UNCHANGED <<asks, has, refused>>

\* The peers an attempt skips: asked before, or overdrawn in this round.
All(f) == flights[f].skip \cup flights[f].overdraft
Add(fs, f, p) == [fs EXCEPT ![f].skip = @ \cup {p}]
AddOverdraft(fs, f, p) == [fs EXCEPT ![f].overdraft = @ \cup {p}]
Reset(fs, f) == [fs EXCEPT ![f].overdraft = {}]

\* The source of a forwarded request is stored in the context of the handler, but
\* the attempts run in a new context: every attempt may go upstream.
AllowUpstream(f) == TRUE

ClosestPeer(f) ==
  LET c == Peers(f[1]) \ All(f) IN
  IF c = {} \/ (~AllowUpstream(f) /\ f[1] < Min(c)) THEN {} ELSE {Min(c)}

\* A peer that has the chunk delivers it; another one forwards the request.
Handler(fs, p) == IF p \in has THEN fs ELSE Join(fs, <<p, "forward">>)

\* The loop of RetrieveChunk makes one more attempt.
Attempts(f) == flights[f].st = "flying" /\ flights[f].attempts < MaxSelects
Attempted(f) == [flights EXCEPT ![f].attempts = @ + 1]

\* An attempt asks the closest peer that is not skipped.
Ask(f) ==
  /\ Attempts(f)
  /\ \E p \in ClosestPeer(f) :
       /\ asks' = asks \cup {<<f, p>>}
       /\ flights' = Handler(Add(Attempted(f), f, p), p)
  /\ UNCHANGED <<has, refused>>

\* No peer is found, accounting refuses, or the request cannot be sent: the attempt
\* does not count as a result.
AskFails(f) ==
  /\ Attempts(f)
  /\ \/ ClosestPeer(f) = {} /\ flights' = Attempted(f) /\ UNCHANGED refused
     \/ /\ refused < MaxRefused /\ refused' = refused + 1
        /\ \E p \in ClosestPeer(f) :
             flights' \in {AddOverdraft(Attempted(f), f, p), Add(Attempted(f), f, p)}
  /\ UNCHANGED <<asks, has>>

\* The peer delivers: the flight ends; an own request stores the chunk.
Delivery(a) ==
  LET f == a[1]  p == a[2] IN
  /\ a \in asks /\ (p \in has \/ flights[<<p, "forward">>].st = "found")
  /\ asks' = asks \ {a}
  /\ IF flights[f].st = "flying"
     THEN /\ Return(f, "found")
          /\ has' = IF f[2] = "origin" THEN has \cup {f[1]} ELSE has
     ELSE UNCHANGED <<flights, has>>
  /\ UNCHANGED refused

\* The peer fails or the attempt times out: a result without the chunk.
NoDelivery(a) ==
  /\ a \in asks /\ asks' = asks \ {a}
  /\ flights' = IF flights[a[1]].st = "flying" THEN [flights EXCEPT ![a[1]].results = @ + 1] ELSE flights
  /\ UNCHANGED <<has, refused>>

\* Enough results without the chunk: the flight fails.
NotFound(f) ==
  /\ flights[f].st = "flying" /\ flights[f].results >= MaxPeers(f)
  /\ Return(f, "failed")
  /\ UNCHANGED <<asks, has, refused>>

\* Mutant: the rounds are not counted.
NextRoundUncounted(f) ==
  /\ flights[f].st = "flying" /\ flights[f].results < MaxPeers(f)
  /\ flights[f].attempts >= MaxSelects
  /\ IF f[2] = "forward" \/ flights[f].rounds >= MaxRounds
     THEN Return(f, "failed")
     ELSE flights' \in {flights, Reset([flights EXCEPT ![f].attempts = 0], f)}
  /\ UNCHANGED <<asks, has, refused>>

\* All attempts are used: a forwarded request fails, an own one goes to its next
\* round, with new attempts unless the clock shows the second of the last round.
NextRound(f) ==
  /\ flights[f].st = "flying" /\ flights[f].results < MaxPeers(f)
  /\ flights[f].attempts >= MaxSelects
  /\ LET next == [flights EXCEPT ![f].rounds = @ + 1] IN
     IF f[2] = "forward" \/ next[f].rounds >= MaxRounds
     THEN Return(f, "failed")
     ELSE flights' \in {next, Reset([next EXCEPT ![f].attempts = 0], f)}
  /\ UNCHANGED <<asks, has, refused>>

\* Every caller of the flight is gone.
Cancel(f) ==
  /\ flights[f].st = "flying"
  /\ Return(f, "failed")
  /\ UNCHANGED <<asks, has, refused>>

\* The loop of a flight, and an attempt that is under way.
Loop(f) == Ask(f) \/ AskFails(f) \/ NotFound(f) \/ NextRound(f)
Attempt(a) == Delivery(a) \/ NoDelivery(a)

Next ==
  \/ \E n \in Nodes : Get(n)
  \/ \E f \in Flight : Ask(f) \/ AskFails(f) \/ NotFound(f) \/ NextRound(f) \/ Cancel(f)
  \/ \E a \in asks : Delivery(a) \/ NoDelivery(a)

\* A flight's loop goes on, and an attempt has a result or times out.
Fairness ==
  /\ \A f \in Flight : WF_retVars(Loop(f))
  /\ \A a \in Request : WF_retVars(Attempt(a))

Spec == Init /\ [][Next]_retVars /\ Fairness
-----------------------------------------------------------------------------
(***************************************************************************)
(* A node's own request ends, with the chunk or without: also when flights *)
(* wait for each other, and when requests are refused, lost or restarted   *)
(* by the nodes they are forwarded to.                                     *)
(***************************************************************************)
RequestsEnd == \A n \in Requesters : []<>(flights[<<n, "origin">>].st # "flying")

\* A flight waits for the flight of the peer it has asked.
Waits == {<<a[1], <<a[2], "forward">>>> : a \in {b \in asks : flights[b[1]].st = "flying" /\ b[2] \notin has}}

(***************************************************************************)
(* No request comes back to a node that is waiting for it: what the        *)
(* comment in retrieveChunk says of forwarded requests.                    *)
(***************************************************************************)
NoRequestLoop ==
  \A f \in Flight : <<f, f>> \notin Waits /\
    ~\E g \in Flight \ {f} : <<f, g>> \in Waits /\ <<g, f>> \in Waits
=============================================================================
