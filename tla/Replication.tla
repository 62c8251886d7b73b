----------------------------- MODULE Replication -----------------------------
(***************************************************************************)
(* The change stream of the core (cdc.py) and the replication built on it  *)
(* (replication.py).  A change of the primary is made and sent to every    *)
(* client in turn while the core's lock is held; a socket takes a bounded  *)
(* number of messages and keeps their order.  A replica stores what is     *)
(* inserted under an id of its own: copy is the sequence of the inserts it *)
(* has stored.  log keeps every event; base, from and silent are for the   *)
(* properties: what a replica had when it was accepted, the inserts before *)
(* that, and whether the primary has changed without an event.             *)
(***************************************************************************)
EXTENDS Integers, SequencesExt

CONSTANTS Replica, Val, None,
          BufMax,        \* length of the ring buffer
          SockMax,       \* messages a socket takes before sendall blocks
          MaxEvents, MaxConnects   \* bounds

VARIABLES data, log, buffer, running, clients, targets, link, queue, copy, base, from,
          silent, connects
vars == <<data, log, buffer, running, clients, targets, link, queue, copy, base, from,
          silent, connects>>
primaryVars == <<data, log, buffer, running, targets, silent>>
replicaVars == <<link, queue, copy, base, from, connects>>

Id == 1..MaxEvents

Init ==
  /\ data = [i \in Id |-> None] /\ log = <<>> /\ buffer = <<>> /\ running = TRUE
  /\ clients = <<>> /\ targets = <<>> /\ silent = FALSE /\ connects = 0
  /\ link = [r \in Replica |-> "off"]
  /\ queue = [r \in Replica |-> <<>>] /\ copy = queue /\ base = queue
  /\ from = [r \in Replica |-> 0]

-----------------------------------------------------------------------------
(* The primary.  Its lock is free while no event is being sent.            *)

\* Mutant: a full buffer takes no more events.
BoundedOld(s) == IF Len(s) > BufMax THEN Front(s) ELSE s

Bounded(s) == IF Len(s) > BufMax THEN Tail(s) ELSE s
Idle == targets = <<>>

Emit(e) == /\ Len(log) < MaxEvents
           /\ log' = Append(log, e) /\ buffer' = Bounded(Append(buffer, e))
           /\ targets' = clients
           /\ UNCHANGED <<running, clients, link, queue, copy, base, from, connects>>

Inserts(n) == {m \in 1..n : log[m].op = "insert"}
NextId == Cardinality(Inserts(Len(log))) + 1

Insert(v) == /\ Idle
             /\ Emit([op |-> "insert", id |-> NextId, val |-> v])
             /\ data' = [data EXCEPT ![NextId] = v] /\ UNCHANGED silent

\* Mutant: the event has the data before the update.
UpdateOldData(i, v) == /\ Idle /\ data[i] # None
                       /\ Emit([op |-> "update", id |-> i, val |-> data[i]])
                       /\ data' = [data EXCEPT ![i] = v] /\ UNCHANGED silent

Update(i, v) == /\ Idle /\ data[i] # None
                /\ Emit([op |-> "update", id |-> i, val |-> v])
                /\ data' = [data EXCEPT ![i] = v] /\ UNCHANGED silent

Delete(i) == /\ Idle /\ data[i] # None
             /\ Emit([op |-> "delete", id |-> i, val |-> None])
             /\ data' = [data EXCEPT ![i] = None] /\ UNCHANGED silent

\* A transaction that fails after an insert restores the data; the event is out already.
RolledBack(v) == /\ Idle
                 /\ Emit([op |-> "insert", id |-> NextId, val |-> v])
                 /\ silent' = TRUE /\ UNCHANGED data

\* Dropping the collection emits nothing.
Drop == /\ Idle
        /\ data' = [i \in Id |-> None] /\ silent' = TRUE
        /\ UNCHANGED <<log, buffer, running, clients, targets, replicaVars>>

RemoveClient(r) ==
  IF Contains(clients, r)
  THEN \E n \in DOMAIN clients : clients[n] = r /\ clients' = RemoveAt(clients, n)
  ELSE UNCHANGED clients

\* Mutant: a message that does not fit is dropped.
SendOrDrop ==
  /\ ~Idle
  /\ targets' = Tail(targets)
  /\ LET r == Head(targets)
     IN \/ /\ link[r] = "up" /\ UNCHANGED clients
           /\ queue' = IF Len(queue[r]) < SockMax
                       THEN [queue EXCEPT ![r] = Append(@, Last(log))] ELSE queue
        \/ /\ link[r] = "down" /\ RemoveClient(r) /\ UNCHANGED queue
  /\ UNCHANGED <<data, log, buffer, running, link, copy, base, from, silent, connects>>

\* Mutant: a client that is gone is waited for.
SendWaits ==
  /\ ~Idle
  /\ targets' = Tail(targets)
  /\ LET r == Head(targets)
     IN /\ link[r] = "up" /\ Len(queue[r]) < SockMax
        /\ queue' = [queue EXCEPT ![r] = Append(@, Last(log))]
  /\ UNCHANGED <<data, log, buffer, running, clients, link, copy, base, from, silent, connects>>

\* sendall() to the next client: it waits for room, and fails when the peer is gone.
Send ==
  /\ ~Idle
  /\ targets' = Tail(targets)
  /\ LET r == Head(targets)
     IN \/ /\ link[r] = "up" /\ Len(queue[r]) < SockMax
           /\ queue' = [queue EXCEPT ![r] = Append(@, Last(log))]
           /\ UNCHANGED clients
        \/ /\ link[r] = "down" /\ RemoveClient(r) /\ UNCHANGED queue
  /\ UNCHANGED <<data, log, buffer, running, link, copy, base, from, silent, connects>>

\* The accept loop appends the client; what was emitted before is never sent to it.
Accept(r) ==
  /\ running /\ link[r] = "open"
  /\ clients' = Append(clients, r) /\ link' = [link EXCEPT ![r] = "up"]
  /\ base' = [base EXCEPT ![r] = copy[r]] /\ from' = [from EXCEPT ![r] = NextId - 1]
  /\ UNCHANGED <<primaryVars, queue, copy, connects>>

\* The thread of a client sees the end of its connection.
HandlerEnds(r) == /\ link[r] = "down" /\ Contains(clients, r)
                  /\ RemoveClient(r)
                  /\ UNCHANGED <<primaryVars, replicaVars>>

StopPrimary ==
  /\ running
  /\ running' = FALSE /\ clients' = <<>>
  /\ link' = [r \in Replica |-> IF Contains(clients, r) THEN "down" ELSE link[r]]
  /\ UNCHANGED <<data, log, buffer, targets, queue, copy, base, from, silent, connects>>

-----------------------------------------------------------------------------
(* The replicas.                                                           *)

\* connect(), also again after the connection is lost and the primary has noticed.
Connect(r) ==
  /\ running /\ connects < MaxConnects /\ connects' = connects + 1
  /\ link[r] \in {"off", "down"} /\ ~Contains(clients, r) /\ ~Contains(targets, r)
  /\ link' = [link EXCEPT ![r] = "open"] /\ queue' = [queue EXCEPT ![r] = <<>>]
  /\ UNCHANGED <<primaryVars, clients, copy, base, from>>

\* An insert gets a new id; no record has the id of an update or delete.
Apply(c, e) == IF e.op = "insert" THEN Append(c, e) ELSE c

\* Mutant: a message is applied and not taken out of the socket.
ReceiveTwice(r) ==
  /\ queue[r] # <<>> /\ Len(copy[r]) < MaxEvents
  /\ copy' = [copy EXCEPT ![r] = Apply(@, Head(queue[r]))]
  /\ UNCHANGED <<primaryVars, clients, queue, link, base, from, connects>>

\* What was in the socket when the primary closed it is still read.
Receive(r) ==
  /\ queue[r] # <<>>
  /\ copy' = [copy EXCEPT ![r] = Apply(@, Head(queue[r]))]
  /\ queue' = [queue EXCEPT ![r] = Tail(@)]
  /\ UNCHANGED <<primaryVars, clients, link, base, from, connects>>

\* stop() of the replica, or the connection is lost, with what is under way.
Break(r) == /\ link[r] = "up"
            /\ link' = [link EXCEPT ![r] = "down"] /\ queue' = [queue EXCEPT ![r] = <<>>]
            /\ UNCHANGED <<primaryVars, clients, copy, base, from, connects>>

Next == \/ \E v \in Val : Insert(v) \/ RolledBack(v) \/ \E i \in Id : Update(i, v)
        \/ \E i \in Id : Delete(i)
        \/ Drop \/ Send \/ StopPrimary
        \/ \E r \in Replica : Accept(r) \/ HandlerEnds(r) \/ Connect(r) \/ Receive(r) \/ Break(r)

Spec == Init /\ [][Next]_vars

\* The thread of a write and the receiving threads go on when they can.
Fairness == WF_vars(Send) /\ \A r \in Replica : WF_vars(Receive(r))
FairSpec == Spec /\ Fairness

-----------------------------------------------------------------------------
\* The last event about i.
LastAbout(i, n) == /\ n \in DOMAIN log /\ log[n].id = i
                   /\ \A m \in (n + 1)..Len(log) : log[m].id # i

\* The last event about a record has the data of the primary, unless a collection was
\* dropped or a transaction rolled back: the stream says everything the writers do, in the
\* order they do it (cdc.py:52-59, core/engine.py:420-424, 542-546, 587-590).
StreamIsHistory ==
  ~silent => \A i \in Id :
    \/ data[i] = None /\ \A n \in DOMAIN log : log[n].id # i
    \/ \E n \in DOMAIN log : LastAbout(i, n) /\ data[i] = log[n].val

\* The inserts r has stored since it was accepted.
NewIn(r) == Len(copy[r]) - Len(base[r])

\* A replica stores the inserts made since the primary accepted it, in their order, none
\* twice and none left out before a later one, also across lost connections.
ReplicaInOrder ==
  \A r \in Replica : link[r] \in {"up", "down"} =>
    /\ IsPrefix(base[r], copy[r])
    /\ \A k \in 1..NewIn(r) : \E n \in Inserts(Len(log)) :
         copy[r][Len(base[r]) + k] = log[n] /\ log[n].id = from[r] + k

\* A replica that is connected, with nothing under way, has stored all of them
\* ("Replica that receives changes from primary", replication.py:217).
ReplicaFollows ==
  \A r \in Replica : link[r] = "up" /\ ~Contains(targets, r) /\ queue[r] = <<>>
                       => NewIn(r) = NextId - 1 - from[r]

\* The ring buffer has the latest events, as many as it has room for (cdc.py:124-126).
BufferIsRecent ==
  /\ Len(buffer) = Min({BufMax, Len(log)})
  /\ \A k \in DOMAIN buffer : buffer[k] = log[Len(log) - Len(buffer) + k]

\* A write returns: a replica that reads slowly or goes away does not hold the lock of
\* the core for ever, as long as the replicas go on reading (replication.py:108-112).
WritesReturn == ~Idle ~> Idle
=============================================================================
