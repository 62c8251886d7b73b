---------------------------- MODULE PagedStorage ----------------------------
(***************************************************************************)
(* The page file and its cache (paged/storage.py).  disk is the file, with *)
(* pages numbered from 0 and the header's page count; cache is the         *)
(* OrderedDict of pages, least recently used first.  Callers write whole   *)
(* pages, or change the data of a page they have read and mark it dirty.   *)
(* owned, written and pending record what callers hold, for the            *)
(* properties.                                                             *)
(***************************************************************************)
EXTENDS Entries

CONSTANTS Val, Zero, None,  \* contents, an unwritten page in the file, no page
          MaxPages,         \* size of the cache
          Pages             \* bound: pages of the file

VARIABLES disk, header, nextPage, free, cache, owned, written, pending
vars == <<disk, header, nextPage, free, cache, owned, written, pending>>

Id == 0..(Pages - 1)

Position(p) == SelectInSeq(cache, LAMBDA e : e.id = p)
Without(p) == IF Position(p) = 0 THEN cache ELSE RemoveAt(cache, Position(p))
Fit(s) == IF Len(s) > MaxPages THEN Tail(s) ELSE s
Put(p, v, dirty) == Fit(Append(Without(p), [id |-> p, val |-> v, dirty |-> dirty]))

\* What the file has at p: nothing behind its end.
OnDisk(p) == IF p < Len(disk) THEN disk[p + 1] ELSE None
WriteAt(d, p, v) == [i \in 1..Max({Len(d), p + 1}) |->
                       IF i = p + 1 THEN v ELSE IF i <= Len(d) THEN d[i] ELSE Zero]
\* The cached pages at the numbers S, which differ, written one after the other.
WriteAll(d, S) == [i \in 1..Max({Len(d)} \cup {p + 1 : p \in S}) |->
                     IF i - 1 \in S THEN cache[Position(i - 1)].val
                     ELSE IF i <= Len(d) THEN d[i] ELSE Zero]
\* The changes not flushed yet whose page is still in the cache c: evicting drops the rest.
KeptIn(c) == [p \in Id |-> IF \E e \in ToSet(c) : e.id = p THEN pending[p] ELSE None]

Content(p) == IF Position(p) # 0 THEN cache[Position(p)].val ELSE OnDisk(p)

Init == /\ disk = <<>> /\ header = 0 /\ nextPage = 0 /\ free = <<>> /\ cache = <<>>
        /\ owned = {} /\ written = [p \in Id |-> None] /\ pending = [p \in Id |-> None]

\* Mutant: the header is not written for a new page.
AllocateUnheadered ==
  \/ /\ free # <<>>
     /\ free' = Front(free) /\ owned' = owned \cup {Last(free)}
     /\ UNCHANGED <<disk, header, nextPage, cache, written, pending>>
  \/ /\ free = <<>> /\ nextPage < Pages
     /\ nextPage' = nextPage + 1 /\ owned' = owned \cup {nextPage}
     /\ UNCHANGED <<disk, header, free, cache, written, pending>>

\* The last freed page first.
AllocatePage ==
  \/ /\ free # <<>>
     /\ free' = Front(free) /\ owned' = owned \cup {Last(free)}
     /\ UNCHANGED <<disk, header, nextPage, cache, written, pending>>
  \/ /\ free = <<>> /\ nextPage < Pages
     /\ nextPage' = nextPage + 1 /\ header' = nextPage + 1
     /\ owned' = owned \cup {nextPage}
     /\ UNCHANGED <<disk, free, cache, written, pending>>

\* Mutant: the freed page stays in the cache.
FreePageCached(p) ==
  /\ p \in owned
  /\ owned' = owned \ {p} /\ free' = Append(free, p) /\ cache' = cache
  /\ pending' = [pending EXCEPT ![p] = None]
  /\ UNCHANGED <<disk, header, nextPage, written>>

\* The owner gives its page back.
FreePage(p) ==
  /\ p \in owned
  /\ owned' = owned \ {p} /\ free' = Append(free, p) /\ cache' = Without(p)
  /\ pending' = [pending EXCEPT ![p] = None]
  /\ UNCHANGED <<disk, header, nextPage, written>>

\* Write-through; a page at or behind the end is the caller's own from then on.
WritePage(p, v) ==
  /\ p \in owned \/ p >= nextPage
  /\ nextPage' = Max({nextPage, p + 1})
  /\ header' = IF p >= nextPage THEN p + 1 ELSE header
  /\ disk' = WriteAt(disk, p, v) /\ cache' = Put(p, v, FALSE)
  /\ owned' = owned \cup {p} /\ written' = [written EXCEPT ![p] = v]
  /\ pending' = [KeptIn(cache') EXCEPT ![p] = None]
  /\ UNCHANGED free

ReadPage(p) ==
  /\ Content(p) # None
  /\ cache' = IF Position(p) # 0 THEN Append(Without(p), cache[Position(p)])
              ELSE Put(p, OnDisk(p), FALSE)
  /\ pending' = KeptIn(cache')
  /\ UNCHANGED <<disk, header, nextPage, free, owned, written>>

\* The owner changes a page it has read; the object is the one in the cache.
Modify(p, v) ==
  /\ p \in owned /\ Position(p) # 0
  /\ cache' = [cache EXCEPT ![Position(p)].val = v, ![Position(p)].dirty = TRUE]
  /\ pending' = [pending EXCEPT ![p] = v]
  /\ UNCHANGED <<disk, header, nextPage, free, owned, written>>

Dirty == {i \in DOMAIN cache : cache[i].dirty}
Clean(s) == [i \in DOMAIN s |-> [s[i] EXCEPT !.dirty = FALSE]]

\* Mutant: only the least recently used of the dirty pages is written.
FlushOne ==
  LET dirty == Kept(cache, Dirty)
      saved == {e.id : e \in ToSet(dirty)}
  IN /\ disk' = IF dirty = <<>> THEN disk ELSE WriteAt(disk, dirty[1].id, dirty[1].val)
     /\ cache' = Kept(cache, DOMAIN cache \ Dirty) \o Clean(dirty)
     /\ written' = [p \in Id |-> IF p \in saved THEN Content(p) ELSE written[p]]
     /\ pending' = [p \in Id |-> IF p \in saved THEN None ELSE pending[p]]
     /\ UNCHANGED <<header, nextPage, free, owned>>

\* Dirty pages are written, and go to the end of the cache.
Flush ==
  LET saved == {cache[i].id : i \in Dirty}
  IN /\ disk' = WriteAll(disk, saved)
     /\ cache' = Kept(cache, DOMAIN cache \ Dirty) \o Clean(Kept(cache, Dirty))
     /\ written' = [p \in Id |-> IF p \in saved THEN Content(p) ELSE written[p]]
     /\ pending' = [p \in Id |-> IF p \in saved THEN None ELSE pending[p]]
     /\ UNCHANGED <<header, nextPage, free, owned>>

\* The process ends without a flush and the file is opened again: the free list is gone.
Reopen ==
  /\ nextPage' = header /\ free' = <<>> /\ cache' = <<>>
  /\ pending' = [p \in Id |-> None]
  /\ UNCHANGED <<disk, header, owned, written>>

Next == \/ AllocatePage \/ Flush \/ Reopen
        \/ \E p \in Id : FreePage(p) \/ ReadPage(p)
        \/ \E p \in Id, v \in Val : WritePage(p, v) \/ Modify(p, v)

Spec == Init /\ [][Next]_vars

-----------------------------------------------------------------------------
\* A page reads as it was last written, after evictions, flushes and a restart too, or
\* as its owner has changed it since, while that page stays cached (storage.py:191-239).
ReadsWhatWasWritten ==
  \A p \in owned :
    IF pending[p] # None THEN Content(p) = pending[p]
    ELSE written[p] # None => Content(p) = written[p]

\* No page that is in use can be handed out again: it is neither free nor at or behind
\* the header's count, also after a restart (storage.py:241-249).
OwnedPagesSafe ==
  /\ owned \cap ToSet(free) = {} /\ (\A p \in owned : p < header)
  /\ header = nextPage /\ \A i, j \in DOMAIN free : free[i] = free[j] => i = j

\* A flush puts on disk every change that has not fallen out of the cache, and nothing
\* that is older than what the file has (storage.py:297-306).
FlushSavesCached ==
  [][Flush => \A p \in owned : OnDisk(p) # None \/ pending[p] # None =>
       disk'[p + 1] = IF pending[p] # None THEN Content(p) ELSE OnDisk(p)]_vars
=============================================================================
