--------------------------- MODULE BackfillInvariant ---------------------------
(***************************************************************************)
(* Why the properties of BackfillProperties hold: what a run knows about   *)
(* the rows it has locked and the chunks it has counted.  Sound, the       *)
(* conjunction of the parts below, is inductive.                           *)
(***************************************************************************)
EXTENDS BackfillProperties

Locking == {"locking", "locked", "checked"}

\* A row has one owner, and a transaction that locks rows has locked, or has
\* still to lock, exactly those its statement named.
LocksHeld ==
    /\ \A c, x \in Call : c # x => held[c] \cap held[x] = {}
    /\ \A c \in Call :
          /\ pc[c] \notin Locking => held[c] = {}
          /\ pc[c] = "locking" => next[c] \in todo[c]
          /\ pc[c] # "locking" => next[c] = None
          /\ pc[c] \in {"locked", "checked"} => todo[c] = {}
    /\ \A r \in Run : pc[r] \in Locking => held[r] \cup todo[r] = batch[r]
    /\ \A x \in Retirer :
          /\ pc[x] \in {"idle", "locking", "locked"} \cup Over
          /\ pc[x] \in Locking => held[x] \cup todo[x] = ChunksOf(target[x])

\* What a batch has found active is active until it commits: to retire it takes
\* the rows the batch holds.
CheckedIsActive ==
    \A r \in Run : pc[r] = "checked" => batch[r] \subseteq ActiveChunks

\* A run over the whole table, which goes on after its first batch.
Whole(r) == request[r].ids = {} /\ ~request[r].force

\* A run that goes on has not failed, and its batch is new to it and within its limit.
Accounted(r) ==
    /\ wrote[r] \subseteq embedded
    /\ pc[r] = "idle" =>
          /\ count[r] = [attempted |-> 0, succeeded |-> 0, failed |-> 0]
          /\ wrote[r] = {}
    /\ pc[r] \in {"looping", "done"} \cup InBatch =>
          /\ count[r].attempted = count[r].succeeded + count[r].failed
          /\ count[r].attempted <= request[r].limit
          /\ count[r].succeeded = Cardinality(wrote[r])
    /\ pc[r] \in {"looping"} \cup InBatch =>
          /\ count[r].failed = 0
          /\ Whole(r) \/ wrote[r] = {}
    /\ pc[r] \in InBatch =>
          /\ batch[r] \cap wrote[r] = {}
          /\ Cardinality(batch[r]) > 0
          /\ count[r].attempted + Cardinality(batch[r]) <= request[r].limit

\* A batch shorter than asked for has all that was left when it was read, and a
\* run that ended without reaching its limit has left nothing.
NothingMissed(r) ==
    /\ /\ pc[r] \in InBatch
       /\ Whole(r)
       /\ Cardinality(batch[r]) < BatchLimit(r)
       => seen[r] \cap ActiveChunks \subseteq embedded \cup batch[r]
    /\ /\ pc[r] = "done"
       /\ Whole(r)
       /\ count[r].failed = 0
       /\ count[r].attempted < request[r].limit
       => seen[r] \cap ActiveChunks \subseteq embedded

\* A chunk that a run has seen never becomes active again: a document is only
\* ever stored once, by one transaction.
SeenIsStored ==
    /\ \A r \in Run : \A c \in seen[r] : status[DocumentOf[c]] # "absent"
    /\ \A x \in Retirer : pc[x] \in Locking =>
          /\ target[x] # None /\ status[target[x]] # "absent"
          /\ replacement[x] # None => status[replacement[x]] = "absent"
    /\ \A x, y \in Retirer :
          /\ x # y
          /\ pc[x] \in Locking /\ pc[y] \in Locking
          /\ replacement[x] # None
          => replacement[x] # replacement[y]

Sound ==
    /\ TypeOK
    /\ LocksHeld
    /\ CheckedIsActive
    /\ SeenIsStored
    /\ \A r \in Run : Accounted(r) /\ NothingMissed(r)
===============================================================================
