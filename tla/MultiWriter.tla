----------------------------- MODULE MultiWriter -----------------------------
(***************************************************************************)
(* Optimistic updates of one record by several writers (multi_writer.py).  *)
(* A writer takes the lock of the record, reads the version from the core, *)
(* compares, and updates in a second call of the core; other users of the  *)
(* core do not take the lock.  version is the record's, 0 once it is gone. *)
(* crossed[w] says that the record changed under the writer between its    *)
(* check and its update, won[e] counts the updates that expected e.        *)
(***************************************************************************)
EXTENDS Naturals

CONSTANTS Writer, NoWriter,
          MaxRetries,
          MaxExpected,           \* the versions 1..MaxExpected are expected by somebody
          MaxCalls, MaxDirect    \* bounds: calls of a writer, changes past the writers

VARIABLES version, lock, pc, kind, expected, attempt, got, crossed, calls, directs, won
vars == <<version, lock, pc, kind, expected, attempt, got, crossed, calls, directs, won>>

Gone == 0
Any == 0    \* update() without an expected version

TypeOK ==
  /\ version \in Nat
  /\ lock \in Writer \cup {NoWriter}
  /\ pc \in [Writer -> {"lock", "check", "sleep", "write", "updated", "deleted",
                        "missing", "conflict", "error"}]
  /\ kind \in [Writer -> {"update", "delete"}]
  /\ expected \in [Writer -> 0..MaxExpected]
  /\ attempt \in [Writer -> 0..MaxRetries - 1]
  /\ got \in [Writer -> Nat]
  /\ crossed \in [Writer -> BOOLEAN]
  /\ calls \in [Writer -> Nat] /\ directs \in Nat
  /\ won \in [1..MaxExpected -> Nat]

Init ==
  /\ version = 1 /\ lock = NoWriter
  /\ pc = [w \in Writer |-> "missing"]
  /\ kind = [w \in Writer |-> "update"]
  /\ expected = [w \in Writer |-> Any]
  /\ attempt = [w \in Writer |-> 0]
  /\ got = [w \in Writer |-> Gone]
  /\ crossed = [w \in Writer |-> FALSE]
  /\ calls = [w \in Writer |-> 0] /\ directs = 0
  /\ won = [e \in 1..MaxExpected |-> 0]

Ended(w) == pc[w] \in {"updated", "deleted", "missing", "conflict", "error"}

Call(w, k, e) ==
  /\ Ended(w) /\ calls[w] < MaxCalls
  /\ calls' = [calls EXCEPT ![w] = @ + 1]
  /\ kind' = [kind EXCEPT ![w] = k] /\ expected' = [expected EXCEPT ![w] = e]
  /\ attempt' = [attempt EXCEPT ![w] = 0] /\ got' = [got EXCEPT ![w] = Gone]
  /\ crossed' = [crossed EXCEPT ![w] = FALSE]
  /\ pc' = [pc EXCEPT ![w] = "lock"]
  /\ UNCHANGED <<version, lock, directs, won>>

Acquire(w) ==
  /\ pc[w] = "lock" /\ lock = NoWriter
  /\ lock' = w /\ pc' = [pc EXCEPT ![w] = "check"]
  /\ UNCHANGED <<version, kind, expected, attempt, got, crossed, calls, directs, won>>

\* The with-block of w ends at p.
Leave(w, p) == lock' = NoWriter /\ pc' = [pc EXCEPT ![w] = p]

\* Mutant: the last attempt goes on without the comparison.
CheckGivesUp(w) ==
  /\ pc[w] = "check" /\ kind[w] = "update"
  /\ \/ version = Gone /\ Leave(w, "missing")
     \/ /\ version # Gone
        /\ IF expected[w] \in {Any, version} \/ attempt[w] + 1 >= MaxRetries
           THEN pc' = [pc EXCEPT ![w] = "write"] ELSE pc' = [pc EXCEPT ![w] = "sleep"]
        /\ UNCHANGED lock
  /\ UNCHANGED <<version, kind, expected, attempt, got, crossed, calls, directs, won>>

\* Mutant: one attempt more than range(max_retries).
CheckOnceMore(w) ==
  /\ pc[w] = "check" /\ kind[w] = "update"
  /\ \/ version = Gone /\ Leave(w, "missing")
     \/ /\ version # Gone /\ expected[w] \notin {Any, version}
        /\ IF attempt[w] < MaxRetries
           THEN pc' = [pc EXCEPT ![w] = "sleep"] /\ UNCHANGED lock
           ELSE Leave(w, "conflict")
     \/ /\ version # Gone /\ expected[w] \in {Any, version}
        /\ pc' = [pc EXCEPT ![w] = "write"] /\ UNCHANGED lock
  /\ UNCHANGED <<version, kind, expected, attempt, got, crossed, calls, directs, won>>

\* Mutant: the record's lock is given back after the check.
CheckUnlocks(w) ==
  /\ pc[w] = "check" /\ kind[w] = "update"
  /\ \/ version = Gone /\ Leave(w, "missing")
     \/ version # Gone /\ expected[w] \notin {Any, version} /\ Leave(w, "conflict")
     \/ version # Gone /\ expected[w] \in {Any, version} /\ Leave(w, "write")
  /\ UNCHANGED <<version, kind, expected, attempt, got, crossed, calls, directs, won>>

\* core.get and the comparison; sleep() comes before the block ends.
Check(w) ==
  /\ pc[w] = "check" /\ kind[w] = "update"
  /\ \/ version = Gone /\ Leave(w, "missing")
     \/ /\ version # Gone /\ expected[w] \notin {Any, version}
        /\ IF attempt[w] + 1 < MaxRetries
           THEN pc' = [pc EXCEPT ![w] = "sleep"] /\ UNCHANGED lock
           ELSE Leave(w, "conflict")
     \/ /\ version # Gone /\ expected[w] \in {Any, version}
        /\ pc' = [pc EXCEPT ![w] = "write"] /\ UNCHANGED lock
  /\ UNCHANGED <<version, kind, expected, attempt, got, crossed, calls, directs, won>>

\* Mutant: the writer asks for the lock again while it has it.
RetryHolding(w) ==
  /\ pc[w] = "sleep"
  /\ pc' = [pc EXCEPT ![w] = "lock"] /\ attempt' = [attempt EXCEPT ![w] = @ + 1]
  /\ UNCHANGED <<version, lock, kind, expected, got, crossed, calls, directs, won>>

Retry(w) ==
  /\ pc[w] = "sleep"
  /\ Leave(w, "lock") /\ attempt' = [attempt EXCEPT ![w] = @ + 1]
  /\ UNCHANGED <<version, kind, expected, got, crossed, calls, directs, won>>

\* core.update; it returns None for a record that is gone, and None has no id.
Write(w) ==
  /\ pc[w] = "write"
  /\ IF version = Gone
     THEN Leave(w, "error") /\ UNCHANGED <<version, got, won>>
     ELSE /\ version' = version + 1 /\ got' = [got EXCEPT ![w] = version + 1]
          /\ won' = IF expected[w] = Any \/ crossed[w] THEN won
                    ELSE [won EXCEPT ![expected[w]] = @ + 1]
          /\ Leave(w, "updated")
  /\ UNCHANGED <<kind, expected, attempt, crossed, calls, directs>>

Delete(w) ==
  /\ pc[w] = "check" /\ kind[w] = "delete"
  /\ version' = Gone /\ Leave(w, IF version = Gone THEN "missing" ELSE "deleted")
  /\ UNCHANGED <<kind, expected, attempt, got, crossed, calls, directs, won>>

\* core.update or core.delete by a user of the core itself.
Direct(v) ==   \* v is the next version, or Gone
  /\ version # Gone /\ directs < MaxDirect
  /\ directs' = directs + 1
  /\ version' = v
  /\ crossed' = [w \in Writer |-> crossed[w] \/ pc[w] = "write"]
  /\ UNCHANGED <<lock, pc, kind, expected, attempt, got, calls, won>>

Step(w) == Acquire(w) \/ Check(w) \/ Retry(w) \/ Write(w) \/ Delete(w)
Next == \/ \E w \in Writer : \/ \E e \in 0..MaxExpected : Call(w, "update", e)
                             \/ Call(w, "delete", Any) \/ Step(w)
        \/ \E v \in {version + 1, Gone} : Direct(v)

Spec == Init /\ [][Next]_vars

\* A thread goes on when it can; the lock itself promises nobody a turn.
Fairness == \A w \in Writer : WF_vars(Step(w))
FairSpec == Spec /\ Fairness

-----------------------------------------------------------------------------
\* An update that expected a version and was not crossed by a direct user of the core
\* has replaced exactly that version ("Version check (optimistic)", multi_writer.py:45).
CasIsExact ==
  \A w \in Writer : pc[w] = "updated" /\ expected[w] # Any /\ ~crossed[w] => got[w] = expected[w] + 1

\* Of the updates that expect one version only one is made, among all writers and over
\* all retries: no update is lost to another ("Conflict detection", multi_writer.py:47).
OneWinner == \A e \in 1..MaxExpected : won[e] <= 1

\* An update fails with an AttributeError only when a direct user of the core deletes the
\* record between the check and the update (multi_writer.py:108-113).
ErrorOnlyWhenCrossed == \A w \in Writer : pc[w] = "error" => crossed[w]

\* One writer at a time is past the check of the record's lock, also while it sleeps.
InTurn == \A w \in Writer : pc[w] \in {"check", "sleep", "write"} <=> lock = w

\* Every call ends, with a result or an exception: a writer that sleeps with the lock
\* gives it back, and nobody retries for ever.
CallsEnd == \A w \in Writer : pc[w] = "lock" ~> Ended(w)
=============================================================================
