------------------------- MODULE ManagementRuntime -------------------------
(***************************************************************************)
(* ManagementRuntime: every tick takes requests from the transports of the  *)
(* frontends, one of each per round, starting with another transport each   *)
(* time, and submits them to the service.  A request that the full queue    *)
(* refuses is gone.  The service executes one request a tick.               *)
(***************************************************************************)
EXTENDS Naturals, SequencesExt

CONSTANTS Frontends,   \* the transports frontends may register
          RoundMax,    \* max_requests_per_transport
          BacklogMax,  \* max_requests of a transport
          DepthMax     \* max_queue_depth_ of the service

ASSUME RuntimeSizes == {RoundMax, BacklogMax, DepthMax} \subseteq Nat \ {0}

VARIABLES
  transports,  \* transports_
  cursor,      \* request_rr_cursor_
  backlog,     \* requests that wait in each transport
  depth,       \* requests in the queue of the service
  shut         \* history: consecutive ticks that refused all a transport offered

runtimeVars == <<transports, cursor, backlog, depth, shut>>

RuntimeInit ==
  /\ transports = <<>> /\ cursor = 0 /\ depth = 0
  /\ backlog = [f \in Frontends |-> 0] /\ shut = [f \in Frontends |-> 0]

(* enqueueRequest                                                           *)
Enqueue(f) ==
  /\ backlog[f] < BacklogMax
  /\ backlog' = [backlog EXCEPT ![f] = @ + 1]
  /\ UNCHANGED <<transports, cursor, depth, shut>>

AddTransport(f) ==
  /\ ~Contains(transports, f)
  /\ transports' = Append(transports, f)
  /\ UNCHANGED <<cursor, backlog, depth, shut>>

(* removeTransport moves the transports behind to other turns.              *)
RemoveTransport(f) ==
  /\ \E i \in 1 .. Len(transports) : transports[i] = f /\ transports' = RemoveAt(transports, i)
  /\ shut' = [g \in Frontends |-> 0]
  /\ UNCHANGED <<cursor, backlog, depth>>

ClearTransports ==
  /\ transports' = <<>> /\ shut' = [g \in Frontends |-> 0]
  /\ UNCHANGED <<cursor, backlog, depth>>

(* The transports in the order of this tick, once per round; polled are the *)
(* turns in which the transport has a request.                              *)
FirstTurn == cursor % Len(transports)
Turns == Len(transports) * RoundMax
Turn(k) == [of    |-> transports[1 + ((FirstTurn + k - 1) % Len(transports))],
            round |-> 1 + ((k - 1) \div Len(transports))]
Polled == {k \in 1 .. Turns : backlog[Turn(k).of] >= Turn(k).round}
Taken(f) == IF Contains(transports, f) THEN Min({backlog[f], RoundMax}) ELSE 0

(* submit() accepts what finds a place in the queue.                        *)
Accepted == {k \in Polled : depth + Cardinality({j \in Polled : j < k}) < DepthMax}

(* Fault: the turns start with the same transport every time.               *)
CursorStays == cursor

CursorAfter == IF transports = <<>> THEN cursor ELSE (FirstTurn + 1) % Len(transports)

(* tick(): after the requests are submitted the service takes one.          *)
Tick ==
  LET queued == depth + Cardinality(Accepted)
      heard  == {Turn(k).of : k \in Accepted}
  IN  /\ depth' = IF queued = 0 THEN 0 ELSE queued - 1
      /\ cursor' = CursorAfter
      /\ backlog' = [f \in Frontends |-> backlog[f] - Taken(f)]
      /\ shut' = [f \in Frontends |-> IF f \in heard \/ Taken(f) = 0 THEN 0 ELSE shut[f] + 1]
      /\ UNCHANGED transports

RuntimeNext ==
  \/ \E f \in Frontends : Enqueue(f) \/ AddTransport(f) \/ RemoveTransport(f)
  \/ ClearTransports \/ Tick

RuntimeSpec == RuntimeInit /\ [][RuntimeNext]_runtimeVars

(* The state has its type: the queue has a free place between two ticks.    *)
RuntimeTypeOK ==
  /\ transports \in Seq(Frontends) /\ IsInjective(transports)
  /\ cursor \in Nat /\ depth \in 0 .. DepthMax - 1
  /\ backlog \in [Frontends -> 0 .. BacklogMax] /\ shut \in [Frontends -> Nat]

(* tick(): however many frontends flood the service, none of them is shut   *)
(* out: among the registered ones, one that offers a request in every tick  *)
(* gets one accepted within as many ticks as there are transports.          *)
NobodyShutOut == \A f \in Frontends : shut[f] > 0 => shut[f] < Len(transports)
=============================================================================
