-------------------------- MODULE BackendRequests --------------------------
(***************************************************************************)
(* The requests and jobs of the backend (backend/src).  Its handlers run   *)
(* concurrently, one per connection of the pool, against PostgreSQL at its *)
(* default isolation, READ COMMITTED: each statement sees what has been    *)
(* committed when it starts, an UPDATE or a SELECT .. FOR UPDATE waits for *)
(* the transaction that holds the row, and a transaction that does not     *)
(* reach its commit leaves nothing behind.                                 *)
(*                                                                         *)
(* A handler that reads and writes under one lock is one action.  A        *)
(* handler that reads first and writes later without a lock is two: the    *)
(* first leaves in requests what was read, the second writes.              *)
(***************************************************************************)
EXTENDS LedgerClock

CONSTANT Worker   \* bound: the handlers that can be between two statements

ASSUME WorkerAssumption == IsFiniteSet(Worker)

VARIABLE requests \* what the handler of each worker has read, Absent if idle

Begin(w, request) ==
  /\ requests[w] = Absent
  /\ requests' = [requests EXCEPT ![w] = request]

At(w, mark) == requests[w] # Absent /\ requests[w].stage = mark

Continue(w, request) == requests' = [requests EXCEPT ![w] = request]

Finish(w) == Continue(w, Absent)

(* The handler returns an error, the client leaves or the server stops:    *)
(* the transaction is rolled back and its locks are released.              *)
RollBack(w) == requests[w] # Absent /\ Finish(w)

RequestsInit == requests = [w \in Worker |-> Absent]
=============================================================================
