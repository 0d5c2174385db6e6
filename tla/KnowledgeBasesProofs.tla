------------------------- MODULE KnowledgeBasesProofs -------------------------
(***************************************************************************)
(* Proofs of the invariants of KnowledgeBases, for any calls, bases,       *)
(* documents and users.  A step of a call leaves all that is another's as  *)
(* it is (Untouched).  Most steps do not write a table (Reads); for those  *)
(* that do there are lemmas on the rows, the names and the events.         *)
(***************************************************************************)
EXTENDS KnowledgeBasesInvariant, TLAPS

Known(c) == IdsAreFree(c) /\ BaseKnown(c) /\ WorkKnown(c) /\ ListKnown(c)

\* What a step of call c leaves as it is
Untouched(c) ==
    /\ pc[c] # "done"
    /\ \A x \in Call \ {c} :
         /\ pc'[x] = pc[x] /\ user'[x] = user[x] /\ op'[x] = op[x] /\ target'[x] = target[x]
         /\ name'[x] = name[x] /\ work'[x] = work[x] /\ gone'[x] = gone[x] /\ seen'[x] = seen[x]
Reads(c) == Untouched(c) /\ UNCHANGED tables

\* After a step of c nobody else has a row that c has or writes a name that it writes.
Alone(c) ==
    /\ \A x \in Call \ {c} :
         /\ LockedBase(c)' # None => LockedBase(x) # LockedBase(c)'
         /\ \A d \in Document : Holds(c, d)' => ~Holds(x, d)
         /\ \A n \in Name : Writes(c, n)' => ~Writes(x, n)
    /\ \A n \in Name : Writes(c, n)' => ~NameTaken(target'[c], n)

\* At the end of a transaction nothing is locked any more ...
Releases(c) ==
    /\ Untouched(c)
    /\ pc'[c] \in {"resolved", "stored", "done"}

\* ... and the rows that others know of have changed only as far as they allow.
RespectsBases(c) ==
    /\ \A r \in Base : base[r].status # "absent" => base'[r].status # "absent"
    /\ \A x \in Call \ {c} :
         base[NewBase[x]].status = "absent" => base'[NewBase[x]].status = "absent"
RespectsDocuments(c) ==
    /\ \A f \in Document :
         /\ doc[f].status # "absent" => doc'[f].status # "absent" /\ doc'[f].base = doc[f].base
         /\ doc[f].status = "deleted" => doc'[f].status = "deleted"
         /\ doc[f].by # None => doc'[f].by # None
    /\ \A x \in Call \ {c} :
         /\ doc[NewDocument[x]].status = "absent" => doc'[NewDocument[x]].status = "absent"
         /\ pc[x] = "editing" => \A f \in work[x] : doc'[f].status = "active"
Respects(c) == RespectsBases(c) /\ RespectsDocuments(c)

\* What deletions and updates do: documents of their base that are active get the status
\* s, and are last updated by c; the others are deleted already.
Rewrites(c, s) ==
    /\ doc' \in [Document -> DocumentRow]
    /\ \A f \in Document :
         \/ doc'[f] = doc[f] /\ (f \in work[c] => doc[f].status = "deleted")
         \/ /\ f \in work[c] /\ doc[f].status = "active" /\ doc[f].base = target[c]
            /\ doc'[f] = [status |-> s, base |-> target[c], by |-> c]

LEMMA ReadingStep ==
  ASSUME Governed, NEW c \in Call, Reads(c), TypeOK', Known(c)', Alone(c)
  PROVE  Governed'
<1>1. RowsHeld'
  BY DEF Governed, Reads, Untouched, RowsHeld, Alone, LockedBase, Holds, tables
<1>2. RowsExist'
  BY DEF Governed, Reads, RowsExist, tables
<1>3. \A x \in Call : Known(x)'
  BY DEF Governed, Reads, Untouched, Known, IdsAreFree, BaseKnown, WorkKnown, ListKnown,
         tables
<1>4. KeysHeld'
  <2> SUFFICES ASSUME NEW x \in Call, NEW n \in Name, Writes(x, n)'
               PROVE  /\ ~NameTaken(target[x], n)'
                      /\ \A y \in Call \ {x} : ~Writes(y, n)'
    BY DEF KeysHeld
  <2>1. \A y \in Call \ {c} : Writes(y, n)' <=> Writes(y, n)
    BY DEF Reads, Untouched, Writes, Active, tables
  <2>2. \A y \in Call \ {c} : NameTaken(target[y], n)' <=> NameTaken(target[y], n)
    BY DEF Reads, Untouched, NameTaken, Active, tables
  <2>3. NameTaken(target'[c], n) <=> NameTaken(target[c], n)'
    BY DEF Reads, NameTaken, Active, tables
  <2>4. CASE x = c
    BY <2>1, <2>3, <2>4 DEF Alone
  <2>5. CASE x # c
    BY <2>1, <2>2, <2>5 DEF Alone, Governed, KeysHeld
  <2> QED
    BY <2>4, <2>5
<1>5. ActiveNamesUnique'
  BY DEF Governed, Reads, ActiveNamesUnique, Active, tables
<1>6. EventsCommitted'
  BY DEF Governed, Reads, Untouched, EventsCommitted, tables, TypeOK, Event
<1>7. AuditIsTrue'
  <2>1. \A e \in audit : e[3] \in Call \ {c}
    BY DEF Governed, Reads, Untouched, EventsCommitted, TypeOK, Event
  <2> QED
    BY <2>1 DEF Governed, Reads, Untouched, AuditIsTrue, ChangeIsAudited, EndIsAudited,
                EventIsTrue, tables
<1> QED
  BY <1>1, <1>2, <1>3, <1>4, <1>5, <1>6, <1>7 DEF Governed, Known

\* A step that writes tables disturbs nobody's knowledge if it respects the rows.
LEMMA OthersStillKnow ==
  ASSUME Governed, NEW c \in Call, Releases(c), Respects(c), NEW x \in Call \ {c}
  PROVE  Known(x)'
<1> USE DEF Releases, Untouched, Respects, RespectsBases, RespectsDocuments
<1>1. IdsAreFree(x)'
  BY DEF Governed, IdsAreFree
<1>2. BaseKnown(x)'
  BY DEF Governed, BaseKnown
<1>3. WorkKnown(x)'
  BY DEF Governed, WorkKnown, TypeOK
<1>4. ListKnown(x)'
  BY DEF Governed, ListKnown, TypeOK
<1> QED
  BY <1>1, <1>2, <1>3, <1>4 DEF Known

\* The names, when bases are not written
LEMMA NamesKept ==
  ASSUME Governed, NEW c \in Call, Releases(c), base' = base
  PROVE  KeysHeld' /\ ActiveNamesUnique'
<1>1. \A n \in Name : ~Writes(c, n)'
  BY DEF Releases, Writes
<1>2. \A y \in Call \ {c}, n \in Name : Writes(y, n)' <=> Writes(y, n)
  BY DEF Releases, Untouched, Writes, Active
<1>3. \A y \in Call \ {c}, n \in Name : NameTaken(target[y], n)' <=> NameTaken(target[y], n)
  BY DEF Releases, Untouched, NameTaken, Active
<1>4. KeysHeld'
  BY <1>1, <1>2, <1>3 DEF Governed, KeysHeld
<1>5. ActiveNamesUnique'
  BY DEF Governed, ActiveNamesUnique, Active
<1> QED
  BY <1>4, <1>5

\* The names, when one base is written: it is not active afterwards or has the name that
\* the call was to write.
LEMMA NamesWritten ==
  ASSUME Governed, NEW c \in Call, Releases(c), target[c] \in Base,
         \A b \in Base \ {target[c]} : base'[b] = base[b],
         \A x \in Call \ {c} : pc[x] = "writing" => target[x] # target[c],
         base'[target[c]].status = "active" =>
             base'[target[c]].name \in Name /\ Writes(c, base'[target[c]].name)
  PROVE  KeysHeld' /\ ActiveNamesUnique'
<1> DEFINE t == target[c]
<1>1. \A n \in Name : ~Writes(c, n)'
  BY DEF Releases, Writes
<1>2. \A y \in Call \ {c}, n \in Name : Writes(y, n)' <=> Writes(y, n)
  BY DEF Releases, Untouched, Writes, Active, Governed, BaseKnown
<1>3. ASSUME NEW y \in Call \ {c}, NEW n \in Name, Writes(y, n)
      PROVE  ~NameTaken(target[y], n)'
  <2>1. ~NameTaken(target[y], n) /\ ~Writes(c, n)
    BY <1>3 DEF Governed, KeysHeld
  <2>2. base'[t].status = "active" => base'[t].name # n
    BY <2>1
  <2> QED
    BY <2>1, <2>2 DEF NameTaken, Active, Releases, Untouched
<1>4. KeysHeld'
  BY <1>1, <1>2, <1>3 DEF Governed, KeysHeld
<1>5. ActiveNamesUnique'
  <2>1. base'[t].status = "active" => ~NameTaken(t, base'[t].name)
    BY DEF Governed, KeysHeld
  <2> QED
    BY <2>1 DEF Governed, ActiveNamesUnique, Active, NameTaken
<1> QED
  BY <1>4, <1>5

\* The events: those that are there stay true, and what the call has changed or says it
\* has is as the parts of AuditIsTrue ask.
LEMMA AuditKept ==
  ASSUME Governed, NEW c \in Call, Releases(c), Respects(c),
         audit \subseteq audit',
         \A e \in audit' \ audit : e[2] = "success" /\ e[3] = c /\ pc'[c] = "done",
         \A d \in Document : doc'[d] = doc[d] \/ ChangeIsAudited(d)',
         \A b \in Base : base'[b] = base[b] \/ EndIsAudited(b)',
         \A e \in audit' \ audit : EventIsTrue(e)'
  PROVE  EventsCommitted' /\ AuditIsTrue'
<1>1. \A e \in audit : e[3] \in Call \ {c}
  BY DEF Governed, Releases, Untouched, EventsCommitted, TypeOK, Event
<1>2. EventsCommitted'
  BY <1>1 DEF Governed, Releases, Untouched, EventsCommitted
<1>3. ASSUME NEW d \in Document, doc'[d] = doc[d]
      PROVE  ChangeIsAudited(d)'
  BY <1>1, <1>3 DEF Governed, AuditIsTrue, ChangeIsAudited, Releases, Untouched
<1>4. ASSUME NEW b \in Base, base'[b] = base[b]
      PROVE  EndIsAudited(b)'
  BY <1>1, <1>4 DEF Governed, AuditIsTrue, EndIsAudited, Releases, Untouched
<1>5. ASSUME NEW e \in audit
      PROVE  EventIsTrue(e)'
  <2>1. e[3] \in Call \ {c} /\ work[e[3]] \subseteq Document
    BY <1>1 DEF Governed, TypeOK
  <2>2. EventIsTrue(e)
    BY DEF Governed, AuditIsTrue
  <2> QED
    BY <2>1, <2>2 DEF EventIsTrue, Releases, Untouched, Respects, RespectsDocuments
<1>6. AuditIsTrue'
  BY <1>3, <1>4, <1>5 DEF AuditIsTrue
<1> QED
  BY <1>2, <1>6

\* What is left to show of a step that ends a transaction
LEMMA WritingStep ==
  ASSUME Governed, NEW c \in Call, Releases(c), Respects(c), TypeOK', RowsExist', Known(c)',
         KeysHeld', ActiveNamesUnique', EventsCommitted', AuditIsTrue'
  PROVE  Governed'
<1>1. RowsHeld'
  BY DEF Governed, Releases, Untouched, RowsHeld, LockedBase, Holds
<1> QED
  BY <1>1, OthersStillKnow DEF Governed, Known

\* A call that raises has locked nothing and nothing has changed.
LEMMA RaisingStep ==
  ASSUME Governed, NEW c \in Call, pc[c] # "done", Forget(c), UNCHANGED tables,
         NEW l \in {"raised", "denied"}, Goes(c, l)
  PROVE  Governed'
<1> USE DEF Forget, Goes, tables
<1>1. Reads(c)
  BY DEF Governed, TypeOK, Reads, Untouched
<1>2. TypeOK'
  BY DEF Governed, TypeOK, Location, Over
<1>3. Known(c)'
  BY DEF Governed, TypeOK, Known, IdsAreFree, BaseKnown, WorkKnown, ListKnown
<1>4. Alone(c)
  BY DEF Governed, TypeOK, Alone, LockedBase, Holds, Writes
<1> QED
  BY <1>1, <1>2, <1>3, <1>4, ReadingStep

\* Who is about to write a base is alone with it.
LEMMA WritersDiffer ==
  ASSUME Governed, NEW c \in Call, pc[c] \in {"creating", "writing", "deleting"}
  PROVE  \A x \in Call \ {c} : pc[x] = "writing" => target[x] # target[c]
<1>1. CASE pc[c] = "creating"
  BY <1>1 DEF Governed, BaseKnown, IdsAreFree
<1>2. CASE pc[c] \in {"writing", "deleting"}
  BY <1>2, NoneIsNothing DEF Governed, BaseKnown, RowsHeld, LockedBase
<1> QED
  BY <1>1, <1>2

LEMMA StatusWritten ==
  ASSUME base \in [Base -> BaseRow], NEW t \in Base,
         NEW s \in {"active", "archived", "deleted"},
         base' = [base EXCEPT ![t].status = s]
  PROVE  base' \in [Base -> BaseRow]
<1>1. /\ base[t] = [status |-> base[t].status, name |-> base[t].name]
      /\ base[t].name \in Name \cup {None}
  BY DEF BaseRow
<1>2. [base[t] EXCEPT !.status = s] = [status |-> s, name |-> base[t].name]
  BY <1>1
<1> QED
  BY <1>1, <1>2 DEF BaseRow

LEMMA NameWritten ==
  ASSUME base \in [Base -> BaseRow], NEW t \in Base, NEW n \in Name,
         base' = [base EXCEPT ![t].name = n]
  PROVE  base' \in [Base -> BaseRow]
<1>1. /\ base[t] = [status |-> base[t].status, name |-> base[t].name]
      /\ base[t].status \in {"absent", "active", "archived", "deleted"}
  BY DEF BaseRow
<1>2. [base[t] EXCEPT !.name = n] = [status |-> base[t].status, name |-> n]
  BY <1>1
<1> QED
  BY <1>1, <1>2 DEF BaseRow

\* The owner of a new base
LEMMA OwnerAdded ==
  ASSUME Governed, NEW c \in Call, pc[c] = "creating", AddBase(c)
  PROVE  member' \subseteq Member /\ \A m \in member' : base'[m.base].status # "absent"
<1> USE DEF Governed, BaseKnown, AddBase
<1>1. user[c] \in User /\ target[c] \in Base
  BY IdsAreNew
<1>2. user[c] \in UNION {Principals[u] : u \in User}
  BY <1>1, FirstBases
<1>3. [who |-> user[c], base |-> target[c], role |-> "owner"] \in Member
  BY <1>1, <1>2 DEF Member, Role, RoleRank
<1>4. member' \subseteq Member
  BY <1>3 DEF TypeOK
<1>5. base'[target[c]].status = "active" /\ \A r \in Base : r # target[c] => base'[r] = base[r]
  BY <1>1 DEF TypeOK
<1>6. \A m \in member' : m.base \in Base /\ (m \in member \/ m.base = target[c])
  BY <1>1, <1>4 DEF Member
<1>7. \A m \in member' : base'[m.base].status # "absent"
  BY <1>5, <1>6 DEF RowsExist
<1> QED
  BY <1>4, <1>7

\* Erase rewrites what the call deletes.
LEMMA ErasingRewrites ==
  ASSUME Governed, NEW c \in Call, pc[c] \in {"deleting", "removing"},
         work[c] \subseteq gone[c],
         Erase(c)
  PROVE  Rewrites(c, "deleted")
<1>1. /\ gone[c] = work[c] /\ target[c] \in Base \cup {None}
      /\ \A f \in work[c] : doc[f].status # "absent" /\ doc[f].base = target[c]
  BY DEF Governed, TypeOK, WorkKnown
<1>2. \A f \in Document : doc[f] \in DocumentRow
  BY DEF Governed, TypeOK
<1>3. \A f \in Document : doc'[f] = IF f \in work[c] /\ doc[f].status # "deleted"
          THEN [status |-> "deleted", base |-> doc[f].base, by |-> c] ELSE doc[f]
  BY <1>1 DEF Erase
<1>4. \A f \in work[c] : doc[f].status \in {"active", "deleted"}
  BY <1>1, <1>2 DEF DocumentRow, Governed, TypeOK
<1>5. doc' \in [Document -> DocumentRow]
  <2>1. doc' = [f \in Document |-> doc'[f]]
    BY DEF Erase
  <2>2. ASSUME NEW f \in Document PROVE doc'[f] \in DocumentRow
    <3>1. doc[f].base \in Base \cup {None}
      BY <1>2 DEF DocumentRow
    <3>2. [status |-> "deleted", base |-> doc[f].base, by |-> c] \in DocumentRow
      BY <3>1 DEF DocumentRow
    <3> QED
      BY <1>2, <1>3, <3>2
  <2> QED
    BY <2>1, <2>2
<1> QED
  BY <1>1, <1>3, <1>4, <1>5 DEF Rewrites

LEMMA RewritingRespects ==
  ASSUME Governed, NEW c \in Call, NEW s \in {"active", "deleted"}, Rewrites(c, s),
         pc[c] = "editing" \/ (pc[c] \in {"deleting", "removing"} /\ work[c] \subseteq gone[c])
  PROVE  RespectsDocuments(c)
<1>1. ASSUME NEW x \in Call \ {c}, pc[x] = "editing", NEW f \in work[x]
      PROVE  doc'[f].status = "active"
  <2>1. f \in Document /\ doc[f].status = "active"
    BY <1>1 DEF Governed, TypeOK, WorkKnown
  <2>2. f \notin work[c]
    BY <1>1, <2>1 DEF Governed, RowsHeld, Holds
  <2> QED
    BY <2>1, <2>2 DEF Rewrites
<1>2. ASSUME NEW f \in Document
      PROVE  /\ doc[f].status # "absent" => doc'[f].status # "absent" /\ doc'[f].base = doc[f].base
             /\ doc[f].status = "deleted" => doc'[f].status = "deleted"
             /\ doc[f].by # None => doc'[f].by # None
             /\ doc[f].status = "absent" => doc'[f].status = "absent"
  BY NoneIsNothing DEF Rewrites
<1>3. \A x \in Call : NewDocument[x] \in Document
  BY IdsAreNew
<1> QED
  BY <1>1, <1>2, <1>3 DEF RespectsDocuments

LEMMA RewritingAudited ==
  ASSUME NEW c \in Call, NEW s \in {"active", "deleted"}, Rewrites(c, s),
         UNCHANGED <<work, target>>,
         NEW a, <<a, "success", c>> \in audit',
         IF s = "deleted" THEN a \in {"document.delete", "kb.delete"}
                          ELSE a = "document.update_metadata"
  PROVE  \A f \in Document : doc'[f] = doc[f] \/ ChangeIsAudited(f)'
<1> SUFFICES ASSUME NEW f \in Document, doc'[f] # doc[f]
             PROVE  ChangeIsAudited(f)'
  OBVIOUS
<1>1. f \in work[c] /\ doc'[f] = [status |-> s, base |-> target[c], by |-> c]
  BY DEF Rewrites
<1> DEFINE e == <<a, "success", c>>
<1>2. e \in audit' /\ e[1] = a /\ e[3] = c
  OBVIOUS
<1> QED
  BY <1>1, <1>2, NoneIsNothing DEF ChangeIsAudited

\* Members are of bases that exist.
LEMMA RolesAreOfBases ==
  ASSUME RowsExist, NEW u, NEW b, NEW min, HasRole(u, b, min)
  PROVE  base[b].status # "absent"
  BY DEF RowsExist, HasRole

-----------------------------------------------------------------------------
(* Steps that read the tables: what the call knows then, and that it is alone *)

LEMMA ForbidStep ==
  ASSUME Governed, NEW c \in Call, NEW u \in User, NEW b \in Base, NEW o \in DOMAIN MinRole,
         Forbid(c, u, b, o, MinRole[o])
  PROVE  Governed'
<1> USE FirstBases, IdsAreNew, SomeOperations, DefaultIsName, NoneIsNothing
    DEF Forbid, MinRole, Governed, TypeOK, Goes, Offered, Starts, tables, request, progress
<1>1. Reads(c)
  BY DEF Reads, Untouched
<1>2. TypeOK'
  BY DEF Location, InTransaction, Between, Operation, MinRole
<1>3. Known(c)'
  BY DEF Known, IdsAreFree, BaseKnown, WorkKnown, ListKnown
<1>4. Alone(c)
  BY DEF Alone, LockedBase, Holds, Writes
<1> QED
  BY <1>1, <1>2, <1>3, <1>4, ReadingStep

LEMMA CreateBaseStep ==
  ASSUME Governed, NEW c \in Call, NEW u \in User, NEW n \in Name, CreateBase(c, u, n)
  PROVE  Governed'
<1> USE FirstBases, IdsAreNew, SomeOperations, DefaultIsName, NoneIsNothing
    DEF CreateBase, Governed, TypeOK, Goes, Offered, Starts, tables, request, progress
<1>1. Reads(c)
  BY DEF Reads, Untouched
<1>2. TypeOK'
  BY DEF Location, InTransaction, Between, Operation
<1>3. Known(c)'
  BY DEF Known, IdsAreFree, BaseKnown, WorkKnown, ListKnown
<1>4. Alone(c)
  BY DEF Alone, LockedBase, Holds, Writes, NameFree, Touches, Active
<1> QED
  BY <1>1, <1>2, <1>3, <1>4, ReadingStep

LEMMA LockForUpdateStep ==
  ASSUME Governed, NEW c \in Call, NEW u \in User, NEW b \in Base, NEW n \in Name,
         LockForUpdate(c, u, b, n)
  PROVE  Governed'
<1> USE FirstBases, IdsAreNew, SomeOperations, DefaultIsName, NoneIsNothing
    DEF LockForUpdate, Governed, TypeOK, Goes, Offered, Starts, tables, request, progress
<1>1. Reads(c)
  BY DEF Reads, Untouched
<1>2. TypeOK'
  BY DEF Location, InTransaction, Between, Operation
<1>3. Known(c)'
  BY RolesAreOfBases DEF Known, IdsAreFree, BaseKnown, WorkKnown, ListKnown
<1>4. Alone(c)
  BY DEF Alone, LockedBase, Holds, Writes, BaseFree
<1> QED
  BY <1>1, <1>2, <1>3, <1>4, ReadingStep

LEMMA MarkBaseStep ==
  ASSUME Governed, NEW c \in Call, NEW u \in User, NEW b \in Base,
         NEW o \in {"archive", "delete"}, MarkBase(c, u, b, o)
  PROVE  Governed'
<1> USE FirstBases, IdsAreNew, SomeOperations, DefaultIsName, NoneIsNothing
    DEF MarkBase, Governed, TypeOK, Goes, Offered, Starts, tables, request, progress
<1>1. Reads(c)
  BY DEF Reads, Untouched
<1>2. TypeOK'
  BY DEF Location, InTransaction, Between, Operation
<1>3. Known(c)'
  BY RolesAreOfBases DEF Known, IdsAreFree, BaseKnown, WorkKnown, ListKnown
<1>4. Alone(c)
  BY DEF Alone, LockedBase, Holds, Writes, BaseFree
<1> QED
  BY <1>1, <1>2, <1>3, <1>4, ReadingStep

LEMMA PickDocumentStep ==
  ASSUME Governed, NEW c \in Call, NEW u \in User, NEW b \in Base, NEW d \in Document,
         PickDocument(c, u, b, d)
  PROVE  Governed'
<1> USE FirstBases, IdsAreNew, SomeOperations, DefaultIsName, NoneIsNothing
    DEF PickDocument, Governed, TypeOK, Goes, Offered, Starts, tables, request, progress
<1>1. Reads(c)
  BY DEF Reads, Untouched
<1>2. TypeOK'
  BY DEF Location, InTransaction, Between, Operation, Documents
<1>3. Known(c)'
  BY RolesAreOfBases DEF Known, IdsAreFree, BaseKnown, WorkKnown, ListKnown, Documents
<1>4. Alone(c)
  BY DEF Alone, LockedBase, Holds, Writes
<1> QED
  BY <1>1, <1>2, <1>3, <1>4, ReadingStep

LEMMA EditDocumentStep ==
  ASSUME Governed, NEW c \in Call, NEW u \in User, NEW b \in Base, NEW d \in Document,
         EditDocument(c, u, b, d)
  PROVE  Governed'
<1> USE FirstBases, IdsAreNew, SomeOperations, DefaultIsName, NoneIsNothing
    DEF EditDocument, Governed, TypeOK, Goes, Offered, Starts, tables, request, progress
<1>1. Reads(c)
  BY DEF Reads, Untouched
<1>2. TypeOK'
  BY DEF Location, InTransaction, Between, Operation, Documents
<1>3. Known(c)'
  BY RolesAreOfBases DEF Known, IdsAreFree, BaseKnown, WorkKnown, ListKnown, Documents
<1>4. Alone(c)
  BY DEF Alone, LockedBase, Holds, Writes, DocumentFree
<1> QED
  BY <1>1, <1>2, <1>3, <1>4, ReadingStep

LEMMA BeginUploadStep ==
  ASSUME Governed, NEW c \in Call, NEW u \in User, NEW b \in Base \cup {None},
         NEW o \in {"upload", "ingest"}, BeginUpload(c, u, b, o)
  PROVE  Governed'
<1> USE FirstBases, IdsAreNew, SomeOperations, DefaultIsName, NoneIsNothing
    DEF BeginUpload, Governed, TypeOK, Goes, Offered, Starts, tables, request, progress
<1>1. Reads(c)
  BY DEF Reads, Untouched
<1>2. TypeOK'
  BY DEF Location, InTransaction, Between, Operation
<1>3. Known(c)'
  BY DEF Known, IdsAreFree, BaseKnown, WorkKnown, ListKnown
<1>4. Alone(c)
  BY DEF Alone, LockedBase, Holds, Writes
<1> QED
  BY <1>1, <1>2, <1>3, <1>4, ReadingStep

LEMMA ForbidScopeStep ==
  ASSUME Governed, NEW c \in Call, NEW u \in User, NEW asked \in SUBSET Base,
         ForbidScope(c, u, asked)
  PROVE  Governed'
<1> USE FirstBases, IdsAreNew, SomeOperations, DefaultIsName, NoneIsNothing
    DEF ForbidScope, Governed, TypeOK, Goes, Offered, Starts, tables, request, progress
<1>1. Reads(c)
  BY DEF Reads, Untouched
<1>2. TypeOK'
  BY DEF Location, InTransaction, Between, Operation
<1>3. Known(c)'
  BY DEF Known, IdsAreFree, BaseKnown, WorkKnown, ListKnown
<1>4. Alone(c)
  BY DEF Alone, LockedBase, Holds, Writes
<1> QED
  BY <1>1, <1>2, <1>3, <1>4, ReadingStep

LEMMA RenameStep ==
  ASSUME Governed, NEW c \in Call, Rename(c)
  PROVE  Governed'
<1> USE FirstBases, IdsAreNew, SomeOperations, DefaultIsName, NoneIsNothing
    DEF Rename, Governed, TypeOK, Goes, Offered, Starts, tables, request, progress
<1>1. Reads(c)
  BY DEF Reads, Untouched
<1>2. TypeOK'
  BY DEF Location, InTransaction, Between, Operation
<1>3. Known(c)'
  BY DEF Known, IdsAreFree, BaseKnown, WorkKnown, ListKnown
<1>4. Alone(c)
  BY DEF Alone, LockedBase, Holds, Writes, RowsHeld, NameFree, Touches, Active
<1> QED
  BY <1>1, <1>2, <1>3, <1>4, ReadingStep

LEMMA ListDocumentsStep ==
  ASSUME Governed, NEW c \in Call, ListDocuments(c)
  PROVE  Governed'
<1> USE FirstBases, IdsAreNew, SomeOperations, DefaultIsName, NoneIsNothing
    DEF ListDocuments, Governed, TypeOK, Goes, Offered, Starts, tables, request, progress
<1>1. Reads(c)
  BY DEF Reads, Untouched
<1>2. TypeOK'
  BY DEF Location, InTransaction, Between, Operation, Documents
<1>3. Known(c)'
  BY DEF Known, IdsAreFree, BaseKnown, WorkKnown, ListKnown, Documents
<1>4. Alone(c)
  BY DEF Alone, LockedBase, Holds, Writes, RowsHeld, WorkKnown
<1> QED
  BY <1>1, <1>2, <1>3, <1>4, ReadingStep

LEMMA DeleteNextStep ==
  ASSUME Governed, NEW c \in Call, DeleteNext(c)
  PROVE  Governed'
<1> USE FirstBases, IdsAreNew, SomeOperations, DefaultIsName, NoneIsNothing
    DEF DeleteNext, Governed, TypeOK, Goes, Offered, Starts, tables, request, progress
<1>1. Reads(c)
  BY DEF Reads, Untouched
<1>2. TypeOK'
  BY DEF Location, InTransaction, Between, Operation
<1>3. Known(c)'
  BY DEF Known, IdsAreFree, BaseKnown, WorkKnown, ListKnown
<1>4. Alone(c)
  BY DEF Alone, LockedBase, Holds, Writes, RowsHeld, DocumentFree
<1> QED
  BY <1>1, <1>2, <1>3, <1>4, ReadingStep

LEMMA RemoveDocumentStep ==
  ASSUME Governed, NEW c \in Call, RemoveDocument(c)
  PROVE  Governed'
<1> USE FirstBases, IdsAreNew, SomeOperations, DefaultIsName, NoneIsNothing
    DEF RemoveDocument, Governed, TypeOK, Goes, Offered, Starts, tables, request, progress
<1>1. Reads(c)
  BY DEF Reads, Untouched
<1>2. TypeOK'
  BY DEF Location, InTransaction, Between, Operation
<1>3. Known(c)'
  BY DEF Known, IdsAreFree, BaseKnown, WorkKnown, ListKnown
<1>4. Alone(c)
  BY DEF Alone, LockedBase, Holds, Writes, DocumentFree
<1> QED
  BY <1>1, <1>2, <1>3, <1>4, ReadingStep

LEMMA ResolveStep ==
  ASSUME Governed, NEW c \in Call, Resolve(c)
  PROVE  Governed'
<1> USE FirstBases, IdsAreNew, SomeOperations, DefaultIsName, NoneIsNothing
    DEF Resolve, Governed, TypeOK, Goes, Offered, Starts, tables, request, progress
<1>1. Reads(c)
  BY DEF Reads, Untouched
<1>2. TypeOK'
  BY DEF Location, InTransaction, Between, Operation
<1>3. Known(c)'
  BY RolesAreOfBases DEF Known, IdsAreFree, BaseKnown, WorkKnown, ListKnown
<1>4. Alone(c)
  BY DEF Alone, LockedBase, Holds, Writes
<1> QED
  BY <1>1, <1>2, <1>3, <1>4, ReadingStep

LEMMA ResolveAccessibleStep ==
  ASSUME Governed, NEW c \in Call, ResolveAccessible(c)
  PROVE  Governed'
<1> USE FirstBases, IdsAreNew, SomeOperations, DefaultIsName, NoneIsNothing
    DEF ResolveAccessible, Governed, TypeOK, Goes, Offered, Starts, tables, request,
        progress
<1>1. Reads(c)
  BY DEF Reads, Untouched
<1>2. TypeOK'
  BY DEF Location, InTransaction, Between, Operation, Accessible
<1>3. Known(c)'
  BY RolesAreOfBases DEF Known, IdsAreFree, BaseKnown, WorkKnown, ListKnown
<1>4. Alone(c)
  BY DEF Alone, LockedBase, Holds, Writes
<1> QED
  BY <1>1, <1>2, <1>3, <1>4, ReadingStep

LEMMA CreateDefaultStep ==
  ASSUME Governed, NEW c \in Call, CreateDefault(c)
  PROVE  Governed'
<1> USE FirstBases, IdsAreNew, SomeOperations, DefaultIsName, NoneIsNothing
    DEF CreateDefault, Governed, TypeOK, Goes, Offered, Starts, tables, request, progress
<1>1. Reads(c)
  BY DEF Reads, Untouched
<1>2. TypeOK'
  BY DEF Location, InTransaction, Between, Operation
<1>3. Known(c)'
  BY DEF Known, IdsAreFree, BaseKnown, WorkKnown, ListKnown
<1>4. Alone(c)
  BY DEF Alone, LockedBase, Holds, Writes, NameFree, Touches, Active
<1> QED
  BY <1>1, <1>2, <1>3, <1>4, ReadingStep

-----------------------------------------------------------------------------
(* Steps that write them *)

LEMMA CommitCreateStep ==
  ASSUME Governed, NEW c \in Call, CommitCreate(c)
  PROVE  Governed'
<1> USE FirstBases, IdsAreNew, NoneIsNothing
    DEF CommitCreate, Governed, TypeOK, Goes, Offered, Starts, tables, request, progress,
        Log, AddBase
<1>1. Releases(c)
  BY DEF Releases, Untouched
<1>3. Respects(c)
  <2>1. RespectsBases(c)
    BY DEF RespectsBases, BaseKnown, IdsAreFree
  <2>2. RespectsDocuments(c)
    BY DEF RespectsDocuments, WorkKnown, IdsAreFree
  <2> QED
    BY <2>1, <2>2 DEF Respects
<1>4. TypeOK'
  <2>1. base' \in [Base -> BaseRow]
    BY DEF BaseKnown, BaseRow
  <2>2. member' \subseteq Member
    BY OwnerAdded
  <2>3. doc' \in [Document -> DocumentRow]
    BY DEF DocumentRow
  <2>4. audit' \subseteq Event
    BY DEF Event, Action
  <2> QED
    BY <2>1, <2>2, <2>3, <2>4 DEF Location, Between, Over, Operation
<1>5. RowsExist'
  BY OwnerAdded, <1>3 DEF RowsExist, Respects, RespectsBases, RespectsDocuments, BaseKnown
<1>6. Known(c)'
  BY <1>3 DEF Known, IdsAreFree, BaseKnown, WorkKnown, ListKnown, Respects,
              RespectsDocuments
<1>7. KeysHeld' /\ ActiveNamesUnique'
  <2>1. /\ target[c] \in Base
        /\ \A r \in Base \ {target[c]} : base'[r] = base[r]
    BY DEF BaseKnown
  <2>2. \A x \in Call \ {c} : pc[x] = "writing" => target[x] # target[c]
    BY WritersDiffer
  <2>3. base'[target[c]].status = "active" =>
            base'[target[c]].name \in Name /\ Writes(c, base'[target[c]].name)
    BY DEF BaseKnown, Writes, Active
  <2> HIDE DEF CommitCreate
  <2> QED
    BY <1>1, <2>1, <2>2, <2>3, NamesWritten
<1>8. EventsCommitted' /\ AuditIsTrue'
  <2>1. /\ audit \subseteq audit'
        /\ \A e \in audit' \ audit : e[2] = "success" /\ e[3] = c /\ pc'[c] = "done"
    OBVIOUS
  <2>2. \A f \in Document : doc'[f] = doc[f] \/ ChangeIsAudited(f)'
    BY DEF ChangeIsAudited, WorkKnown, BaseKnown
  <2>3. \A r \in Base : base'[r] = base[r] \/ EndIsAudited(r)'
    BY DEF EndIsAudited, BaseKnown
  <2>4. \A e \in audit' \ audit : EventIsTrue(e)'
    BY DEF EventIsTrue
  <2> HIDE DEF CommitCreate
  <2> QED
    BY <1>1, <1>3, <2>1, <2>2, <2>3, <2>4, AuditKept
<1> HIDE DEF Governed, TypeOK, CommitCreate
<1> QED
  BY <1>1, <1>3, <1>4, <1>5, <1>6, <1>7, <1>8, WritingStep

LEMMA CommitDefaultStep ==
  ASSUME Governed, NEW c \in Call, CommitDefault(c)
  PROVE  Governed'
<1> USE FirstBases, IdsAreNew, NoneIsNothing
    DEF CommitDefault, Governed, TypeOK, Goes, Offered, Starts, tables, request, progress,
        Log, AddBase
<1>1. Releases(c)
  BY DEF Releases, Untouched
<1>3. Respects(c)
  <2>1. RespectsBases(c)
    BY DEF RespectsBases, BaseKnown, IdsAreFree
  <2>2. RespectsDocuments(c)
    BY DEF RespectsDocuments, WorkKnown, IdsAreFree
  <2> QED
    BY <2>1, <2>2 DEF Respects
<1>4. TypeOK'
  <2>1. base' \in [Base -> BaseRow]
    BY DEF BaseKnown, BaseRow
  <2>2. member' \subseteq Member
    BY OwnerAdded
  <2>3. doc' \in [Document -> DocumentRow]
    BY DEF DocumentRow
  <2>4. audit' \subseteq Event
    BY DEF Event, Action
  <2> QED
    BY <2>1, <2>2, <2>3, <2>4 DEF Location, Between, Over, Operation
<1>5. RowsExist'
  BY OwnerAdded, <1>3 DEF RowsExist, Respects, RespectsBases, RespectsDocuments, BaseKnown
<1>6. Known(c)'
  BY <1>3 DEF Known, IdsAreFree, BaseKnown, WorkKnown, ListKnown, Respects,
              RespectsDocuments
<1>7. KeysHeld' /\ ActiveNamesUnique'
  <2>1. /\ target[c] \in Base
        /\ \A r \in Base \ {target[c]} : base'[r] = base[r]
    BY DEF BaseKnown
  <2>2. \A x \in Call \ {c} : pc[x] = "writing" => target[x] # target[c]
    BY WritersDiffer
  <2>3. base'[target[c]].status = "active" =>
            base'[target[c]].name \in Name /\ Writes(c, base'[target[c]].name)
    BY DEF BaseKnown, Writes, Active
  <2> HIDE DEF CommitDefault
  <2> QED
    BY <1>1, <2>1, <2>2, <2>3, NamesWritten
<1>8. EventsCommitted' /\ AuditIsTrue'
  <2>1. /\ audit \subseteq audit'
        /\ \A e \in audit' \ audit : e[2] = "success" /\ e[3] = c /\ pc'[c] = "done"
    OBVIOUS
  <2>2. \A f \in Document : doc'[f] = doc[f] \/ ChangeIsAudited(f)'
    BY DEF ChangeIsAudited, WorkKnown, BaseKnown
  <2>3. \A r \in Base : base'[r] = base[r] \/ EndIsAudited(r)'
    BY DEF EndIsAudited, BaseKnown
  <2>4. \A e \in audit' \ audit : EventIsTrue(e)'
    BY DEF EventIsTrue
  <2> HIDE DEF CommitDefault
  <2> QED
    BY <1>1, <1>3, <2>1, <2>2, <2>3, <2>4, AuditKept
<1> HIDE DEF Governed, TypeOK, CommitDefault
<1> QED
  BY <1>1, <1>3, <1>4, <1>5, <1>6, <1>7, <1>8, WritingStep

LEMMA CommitUpdateStep ==
  ASSUME Governed, NEW c \in Call, CommitUpdate(c)
  PROVE  Governed'
<1> USE FirstBases, IdsAreNew, NoneIsNothing
    DEF CommitUpdate, Governed, TypeOK, Goes, Offered, Starts, tables, request, progress,
        Log
<1>1. Releases(c)
  BY DEF Releases, Untouched
<1>3. Respects(c)
  <2>1. RespectsBases(c)
    BY DEF RespectsBases, BaseKnown, IdsAreFree
  <2>2. RespectsDocuments(c)
    BY DEF RespectsDocuments, WorkKnown, IdsAreFree
  <2> QED
    BY <2>1, <2>2 DEF Respects
<1>4. TypeOK'
  <2>1. base' \in [Base -> BaseRow]
    BY NameWritten DEF BaseKnown
  <2>2. member' \subseteq Member
    OBVIOUS
  <2>3. doc' \in [Document -> DocumentRow]
    BY DEF DocumentRow
  <2>4. audit' \subseteq Event
    BY DEF Event, Action
  <2> QED
    BY <2>1, <2>2, <2>3, <2>4 DEF Location, Between, Over, Operation
<1>5. RowsExist'
  BY <1>3 DEF RowsExist, Respects, RespectsBases, RespectsDocuments, BaseKnown
<1>6. Known(c)'
  BY <1>3 DEF Known, IdsAreFree, BaseKnown, WorkKnown, ListKnown, Respects,
              RespectsDocuments
<1>7. KeysHeld' /\ ActiveNamesUnique'
  <2>1. /\ target[c] \in Base
        /\ \A r \in Base \ {target[c]} : base'[r] = base[r]
    BY DEF BaseKnown
  <2>2. \A x \in Call \ {c} : pc[x] = "writing" => target[x] # target[c]
    BY WritersDiffer
  <2>3. base'[target[c]].status = "active" =>
            base'[target[c]].name \in Name /\ Writes(c, base'[target[c]].name)
    BY DEF BaseKnown, Writes, Active
  <2> HIDE DEF CommitUpdate
  <2> QED
    BY <1>1, <2>1, <2>2, <2>3, NamesWritten
<1>8. EventsCommitted' /\ AuditIsTrue'
  <2>1. /\ audit \subseteq audit'
        /\ \A e \in audit' \ audit : e[2] = "success" /\ e[3] = c /\ pc'[c] = "done"
    OBVIOUS
  <2>2. \A f \in Document : doc'[f] = doc[f] \/ ChangeIsAudited(f)'
    BY DEF ChangeIsAudited, WorkKnown, BaseKnown
  <2>3. \A r \in Base : base'[r] = base[r] \/ EndIsAudited(r)'
    <3>1. EndIsAudited(target[c])
      BY DEF AuditIsTrue, BaseKnown
    <3>2. base'[target[c]].status = base[target[c]].status /\ UNCHANGED target
      BY DEF BaseKnown
    <3> QED
      BY <2>1, <3>1, <3>2 DEF EndIsAudited, BaseKnown
  <2>4. \A e \in audit' \ audit : EventIsTrue(e)'
    BY DEF EventIsTrue
  <2> HIDE DEF CommitUpdate
  <2> QED
    BY <1>1, <1>3, <2>1, <2>2, <2>3, <2>4, AuditKept
<1> HIDE DEF Governed, TypeOK, CommitUpdate
<1> QED
  BY <1>1, <1>3, <1>4, <1>5, <1>6, <1>7, <1>8, WritingStep

LEMMA CommitArchiveStep ==
  ASSUME Governed, NEW c \in Call, CommitArchive(c)
  PROVE  Governed'
<1> USE FirstBases, IdsAreNew, NoneIsNothing
    DEF CommitArchive, Governed, TypeOK, Goes, Offered, Starts, tables, request, progress,
        Log
<1>1. Releases(c)
  BY DEF Releases, Untouched
<1>3. Respects(c)
  <2>1. RespectsBases(c)
    BY DEF RespectsBases, BaseKnown, IdsAreFree
  <2>2. RespectsDocuments(c)
    BY DEF RespectsDocuments, WorkKnown, IdsAreFree
  <2> QED
    BY <2>1, <2>2 DEF Respects
<1>4. TypeOK'
  <2>1. base' \in [Base -> BaseRow]
    BY StatusWritten DEF BaseKnown
  <2>2. member' \subseteq Member
    OBVIOUS
  <2>3. doc' \in [Document -> DocumentRow]
    BY DEF DocumentRow
  <2>4. audit' \subseteq Event
    BY DEF Event, Action
  <2> QED
    BY <2>1, <2>2, <2>3, <2>4 DEF Location, Between, Over, Operation
<1>5. RowsExist'
  BY <1>3 DEF RowsExist, Respects, RespectsBases, RespectsDocuments, BaseKnown
<1>6. Known(c)'
  BY <1>3 DEF Known, IdsAreFree, BaseKnown, WorkKnown, ListKnown, Respects,
              RespectsDocuments
<1>7. KeysHeld' /\ ActiveNamesUnique'
  <2>1. /\ target[c] \in Base
        /\ \A r \in Base \ {target[c]} : base'[r] = base[r]
    BY DEF BaseKnown
  <2>2. \A x \in Call \ {c} : pc[x] = "writing" => target[x] # target[c]
    BY WritersDiffer
  <2>3. base'[target[c]].status = "active" =>
            base'[target[c]].name \in Name /\ Writes(c, base'[target[c]].name)
    BY DEF BaseKnown, Writes, Active
  <2> HIDE DEF CommitArchive
  <2> QED
    BY <1>1, <2>1, <2>2, <2>3, NamesWritten
<1>8. EventsCommitted' /\ AuditIsTrue'
  <2>1. /\ audit \subseteq audit'
        /\ \A e \in audit' \ audit : e[2] = "success" /\ e[3] = c /\ pc'[c] = "done"
    OBVIOUS
  <2>2. \A f \in Document : doc'[f] = doc[f] \/ ChangeIsAudited(f)'
    BY DEF ChangeIsAudited, WorkKnown, BaseKnown
  <2>3. \A r \in Base : base'[r] = base[r] \/ EndIsAudited(r)'
    <3>1. <<"kb.archive", "success", c>> \in audit'
      OBVIOUS
    <3> QED
      BY <3>1 DEF EndIsAudited, BaseKnown
  <2>4. \A e \in audit' \ audit : EventIsTrue(e)'
    BY DEF EventIsTrue
  <2> HIDE DEF CommitArchive
  <2> QED
    BY <1>1, <1>3, <2>1, <2>2, <2>3, <2>4, AuditKept
<1> HIDE DEF Governed, TypeOK, CommitArchive
<1> QED
  BY <1>1, <1>3, <1>4, <1>5, <1>6, <1>7, <1>8, WritingStep

LEMMA CommitDeleteStep ==
  ASSUME Governed, NEW c \in Call, CommitDelete(c)
  PROVE  Governed'
<1> USE FirstBases, IdsAreNew, NoneIsNothing
    DEF CommitDelete, Governed, TypeOK, Goes, Offered, Starts, tables, request, progress,
        Log
<1>1. Releases(c)
  BY DEF Releases, Untouched
<1>2. Rewrites(c, "deleted")
  BY ErasingRewrites DEF WorkKnown
<1>3. Respects(c)
  <2>1. RespectsBases(c)
    BY DEF RespectsBases, BaseKnown, IdsAreFree
  <2>2. RespectsDocuments(c)
    BY <1>2, RewritingRespects DEF WorkKnown
  <2> QED
    BY <2>1, <2>2 DEF Respects
<1>4. TypeOK'
  <2>1. base' \in [Base -> BaseRow]
    BY StatusWritten DEF BaseKnown
  <2>2. member' \subseteq Member
    OBVIOUS
  <2>3. doc' \in [Document -> DocumentRow]
    BY <1>2 DEF Rewrites
  <2>4. audit' \subseteq Event
    BY DEF Event, Action
  <2> QED
    BY <2>1, <2>2, <2>3, <2>4 DEF Location, Between, Over, Operation
<1>5. RowsExist'
  BY <1>2, <1>3 DEF RowsExist, Respects, RespectsBases, RespectsDocuments, BaseKnown,
                    Rewrites
<1>6. Known(c)'
  BY <1>2, <1>3 DEF Known, IdsAreFree, BaseKnown, WorkKnown, ListKnown, Respects,
                    RespectsDocuments, Rewrites
<1>7. KeysHeld' /\ ActiveNamesUnique'
  <2>1. /\ target[c] \in Base
        /\ \A r \in Base \ {target[c]} : base'[r] = base[r]
    BY DEF BaseKnown
  <2>2. \A x \in Call \ {c} : pc[x] = "writing" => target[x] # target[c]
    BY WritersDiffer
  <2>3. base'[target[c]].status = "active" =>
            base'[target[c]].name \in Name /\ Writes(c, base'[target[c]].name)
    BY DEF BaseKnown, Writes, Active
  <2> HIDE DEF CommitDelete
  <2> QED
    BY <1>1, <2>1, <2>2, <2>3, NamesWritten
<1>8. EventsCommitted' /\ AuditIsTrue'
  <2>1. /\ audit \subseteq audit'
        /\ \A e \in audit' \ audit : e[2] = "success" /\ e[3] = c /\ pc'[c] = "done"
    OBVIOUS
  <2>2. \A f \in Document : doc'[f] = doc[f] \/ ChangeIsAudited(f)'
    BY <1>2, RewritingAudited
  <2>3. \A r \in Base : base'[r] = base[r] \/ EndIsAudited(r)'
    <3>1. <<"kb.delete", "success", c>> \in audit'
      OBVIOUS
    <3> QED
      BY <3>1 DEF EndIsAudited, BaseKnown
  <2>4. \A e \in audit' \ audit : EventIsTrue(e)'
    BY <1>2 DEF EventIsTrue, Rewrites
  <2> HIDE DEF CommitDelete
  <2> QED
    BY <1>1, <1>3, <2>1, <2>2, <2>3, <2>4, AuditKept
<1> HIDE DEF Governed, TypeOK, CommitDelete
<1> QED
  BY <1>1, <1>3, <1>4, <1>5, <1>6, <1>7, <1>8, WritingStep

LEMMA CommitRemoveStep ==
  ASSUME Governed, NEW c \in Call, CommitRemove(c)
  PROVE  Governed'
<1> USE FirstBases, IdsAreNew, NoneIsNothing
    DEF CommitRemove, Governed, TypeOK, Goes, Offered, Starts, tables, request, progress,
        Log
<1>1. Releases(c)
  BY DEF Releases, Untouched
<1>2. Rewrites(c, "deleted")
  BY ErasingRewrites DEF WorkKnown
<1>3. Respects(c)
  <2>1. RespectsBases(c)
    BY DEF RespectsBases, BaseKnown, IdsAreFree
  <2>2. RespectsDocuments(c)
    BY <1>2, RewritingRespects DEF WorkKnown
  <2> QED
    BY <2>1, <2>2 DEF Respects
<1>4. TypeOK'
  <2>1. base' \in [Base -> BaseRow]
    BY DEF BaseKnown, BaseRow
  <2>2. member' \subseteq Member
    OBVIOUS
  <2>3. doc' \in [Document -> DocumentRow]
    BY <1>2 DEF Rewrites
  <2>4. audit' \subseteq Event
    BY DEF Event, Action
  <2> QED
    BY <2>1, <2>2, <2>3, <2>4 DEF Location, Between, Over, Operation
<1>5. RowsExist'
  BY <1>2, <1>3 DEF RowsExist, Respects, RespectsBases, RespectsDocuments, BaseKnown,
                    Rewrites
<1>6. Known(c)'
  BY <1>2, <1>3 DEF Known, IdsAreFree, BaseKnown, WorkKnown, ListKnown, Respects,
                    RespectsDocuments, Rewrites
<1>7. KeysHeld' /\ ActiveNamesUnique'
  BY <1>1, NamesKept
<1>8. EventsCommitted' /\ AuditIsTrue'
  <2>1. /\ audit \subseteq audit'
        /\ \A e \in audit' \ audit : e[2] = "success" /\ e[3] = c /\ pc'[c] = "done"
    OBVIOUS
  <2>2. \A f \in Document : doc'[f] = doc[f] \/ ChangeIsAudited(f)'
    BY <1>2, RewritingAudited
  <2>3. \A r \in Base : base'[r] = base[r] \/ EndIsAudited(r)'
    OBVIOUS
  <2>4. \A e \in audit' \ audit : EventIsTrue(e)'
    BY <1>2 DEF EventIsTrue, Rewrites
  <2> HIDE DEF CommitRemove
  <2> QED
    BY <1>1, <1>3, <2>1, <2>2, <2>3, <2>4, AuditKept
<1> HIDE DEF Governed, TypeOK, CommitRemove
<1> QED
  BY <1>1, <1>3, <1>4, <1>5, <1>6, <1>7, <1>8, WritingStep

LEMMA CommitEditStep ==
  ASSUME Governed, NEW c \in Call, CommitEdit(c)
  PROVE  Governed'
<1> USE FirstBases, IdsAreNew, NoneIsNothing
    DEF CommitEdit, Governed, TypeOK, Goes, Offered, Starts, tables, request, progress, Log
<1>1. Releases(c)
  BY DEF Releases, Untouched
<1>2. Rewrites(c, "active")
  BY DEF Rewrites, WorkKnown, DocumentRow
<1>3. Respects(c)
  <2>1. RespectsBases(c)
    BY DEF RespectsBases, BaseKnown, IdsAreFree
  <2>2. RespectsDocuments(c)
    BY <1>2, RewritingRespects DEF WorkKnown
  <2> QED
    BY <2>1, <2>2 DEF Respects
<1>4. TypeOK'
  <2>1. base' \in [Base -> BaseRow]
    BY DEF BaseKnown, BaseRow
  <2>2. member' \subseteq Member
    OBVIOUS
  <2>3. doc' \in [Document -> DocumentRow]
    BY <1>2 DEF Rewrites
  <2>4. audit' \subseteq Event
    BY DEF Event, Action
  <2> QED
    BY <2>1, <2>2, <2>3, <2>4 DEF Location, Between, Over, Operation
<1>5. RowsExist'
  BY <1>2, <1>3 DEF RowsExist, Respects, RespectsBases, RespectsDocuments, BaseKnown,
                    Rewrites
<1>6. Known(c)'
  BY <1>2, <1>3 DEF Known, IdsAreFree, BaseKnown, WorkKnown, ListKnown, Respects,
                    RespectsDocuments, Rewrites
<1>7. KeysHeld' /\ ActiveNamesUnique'
  BY <1>1, NamesKept
<1>8. EventsCommitted' /\ AuditIsTrue'
  <2>1. /\ audit \subseteq audit'
        /\ \A e \in audit' \ audit : e[2] = "success" /\ e[3] = c /\ pc'[c] = "done"
    OBVIOUS
  <2>2. \A f \in Document : doc'[f] = doc[f] \/ ChangeIsAudited(f)'
    BY <1>2, RewritingAudited
  <2>3. \A r \in Base : base'[r] = base[r] \/ EndIsAudited(r)'
    OBVIOUS
  <2>4. \A e \in audit' \ audit : EventIsTrue(e)'
    BY <1>2 DEF EventIsTrue, Rewrites
  <2> HIDE DEF CommitEdit
  <2> QED
    BY <1>1, <1>3, <2>1, <2>2, <2>3, <2>4, AuditKept
<1> HIDE DEF Governed, TypeOK, CommitEdit
<1> QED
  BY <1>1, <1>3, <1>4, <1>5, <1>6, <1>7, <1>8, WritingStep

LEMMA ReindexStep ==
  ASSUME Governed, NEW c \in Call, NEW u \in User, NEW b \in Base, Reindex(c, u, b)
  PROVE  Governed'
<1> USE FirstBases, IdsAreNew, NoneIsNothing
    DEF Reindex, Governed, TypeOK, Goes, Offered, Starts, tables, request, progress, Log
<1>1. Releases(c)
  BY DEF Releases, Untouched
<1>3. Respects(c)
  <2>1. RespectsBases(c)
    BY DEF RespectsBases, BaseKnown, IdsAreFree
  <2>2. RespectsDocuments(c)
    BY DEF RespectsDocuments, WorkKnown, IdsAreFree
  <2> QED
    BY <2>1, <2>2 DEF Respects
<1>4. TypeOK'
  <2>1. base' \in [Base -> BaseRow]
    BY DEF BaseKnown, BaseRow
  <2>2. member' \subseteq Member
    OBVIOUS
  <2>3. doc' \in [Document -> DocumentRow]
    BY DEF DocumentRow
  <2>4. audit' \subseteq Event
    BY DEF Event, Action
  <2> QED
    BY <2>1, <2>2, <2>3, <2>4 DEF Location, Between, Over, Operation
<1>5. RowsExist'
  BY <1>3 DEF RowsExist, Respects, RespectsBases, RespectsDocuments, BaseKnown
<1>6. Known(c)'
  BY <1>3 DEF Known, IdsAreFree, BaseKnown, WorkKnown, ListKnown, Respects,
              RespectsDocuments
<1>7. KeysHeld' /\ ActiveNamesUnique'
  BY <1>1, NamesKept
<1>8. EventsCommitted' /\ AuditIsTrue'
  <2>1. /\ audit \subseteq audit'
        /\ \A e \in audit' \ audit : e[2] = "success" /\ e[3] = c /\ pc'[c] = "done"
    OBVIOUS
  <2>2. \A f \in Document : doc'[f] = doc[f] \/ ChangeIsAudited(f)'
    BY DEF ChangeIsAudited, WorkKnown, BaseKnown
  <2>3. \A r \in Base : base'[r] = base[r] \/ EndIsAudited(r)'
    OBVIOUS
  <2>4. \A e \in audit' \ audit : EventIsTrue(e)'
    BY DEF EventIsTrue
  <2> HIDE DEF Reindex
  <2> QED
    BY <1>1, <1>3, <2>1, <2>2, <2>3, <2>4, AuditKept
<1> HIDE DEF Governed, TypeOK, Reindex
<1> QED
  BY <1>1, <1>3, <1>4, <1>5, <1>6, <1>7, <1>8, WritingStep

LEMMA ResolveScopeStep ==
  ASSUME Governed, NEW c \in Call, NEW u \in User, NEW asked \in SUBSET Base,
         ResolveScope(c, u, asked)
  PROVE  Governed'
<1> USE FirstBases, IdsAreNew, NoneIsNothing
    DEF ResolveScope, Governed, TypeOK, Goes, Offered, Starts, tables, request, progress,
        Log
<1>1. Releases(c)
  BY DEF Releases, Untouched
<1>3. Respects(c)
  <2>1. RespectsBases(c)
    BY DEF RespectsBases, BaseKnown, IdsAreFree
  <2>2. RespectsDocuments(c)
    BY DEF RespectsDocuments, WorkKnown, IdsAreFree
  <2> QED
    BY <2>1, <2>2 DEF Respects
<1>4. TypeOK'
  <2>1. base' \in [Base -> BaseRow]
    BY DEF BaseKnown, BaseRow
  <2>2. member' \subseteq Member
    OBVIOUS
  <2>3. doc' \in [Document -> DocumentRow]
    BY DEF DocumentRow
  <2>4. audit' \subseteq Event
    BY DEF Event, Action
  <2> QED
    BY <2>1, <2>2, <2>3, <2>4 DEF Location, Between, Over, Operation
<1>5. RowsExist'
  BY <1>3 DEF RowsExist, Respects, RespectsBases, RespectsDocuments, BaseKnown
<1>6. Known(c)'
  BY <1>3 DEF Known, IdsAreFree, BaseKnown, WorkKnown, ListKnown, Respects,
              RespectsDocuments
<1>7. KeysHeld' /\ ActiveNamesUnique'
  BY <1>1, NamesKept
<1>8. EventsCommitted' /\ AuditIsTrue'
  <2>1. /\ audit \subseteq audit'
        /\ \A e \in audit' \ audit : e[2] = "success" /\ e[3] = c /\ pc'[c] = "done"
    OBVIOUS
  <2>2. \A f \in Document : doc'[f] = doc[f] \/ ChangeIsAudited(f)'
    BY DEF ChangeIsAudited, WorkKnown, BaseKnown
  <2>3. \A r \in Base : base'[r] = base[r] \/ EndIsAudited(r)'
    OBVIOUS
  <2>4. \A e \in audit' \ audit : EventIsTrue(e)'
    BY DEF EventIsTrue
  <2> HIDE DEF ResolveScope
  <2> QED
    BY <1>1, <1>3, <2>1, <2>2, <2>3, <2>4, AuditKept
<1> HIDE DEF Governed, TypeOK, ResolveScope
<1> QED
  BY <1>1, <1>3, <1>4, <1>5, <1>6, <1>7, <1>8, WritingStep

LEMMA StoreDocumentStep ==
  ASSUME Governed, NEW c \in Call, StoreDocument(c)
  PROVE  Governed'
<1> USE FirstBases, IdsAreNew, NoneIsNothing
    DEF StoreDocument, Governed, TypeOK, Goes, Offered, Starts, tables, request, progress,
        Log
<1>1. Releases(c)
  BY DEF Releases, Untouched
<1>3. Respects(c)
  <2>1. RespectsBases(c)
    BY DEF RespectsBases, BaseKnown, IdsAreFree
  <2>2. RespectsDocuments(c)
    <3>1. doc[NewDocument[c]].status = "absent"
      BY DEF IdsAreFree
    <3>2. \A f \in Document : f # NewDocument[c] => doc'[f] = doc[f]
      OBVIOUS
    <3>3. doc[NewDocument[c]].by = None
      BY <3>1 DEF RowsExist
    <3>4. \A x \in Call \ {c} : NewDocument[x] \in Document /\ NewDocument[x] # NewDocument[c]
      OBVIOUS
    <3>5. \A x \in Call \ {c} : pc[x] = "editing" => \A f \in work[x] : doc[f].status = "active"
      BY DEF WorkKnown
    <3> HIDE DEF StoreDocument
    <3> QED
      BY <3>1, <3>2, <3>3, <3>4, <3>5 DEF RespectsDocuments
  <2> QED
    BY <2>1, <2>2 DEF Respects
<1>4. TypeOK'
  <2>1. base' \in [Base -> BaseRow]
    BY DEF BaseKnown, BaseRow
  <2>2. member' \subseteq Member
    OBVIOUS
  <2>3. doc' \in [Document -> DocumentRow]
    BY DEF DocumentRow
  <2>4. audit' \subseteq Event
    BY DEF Event, Action
  <2> QED
    BY <2>1, <2>2, <2>3, <2>4 DEF Location, Between, Over, Operation
<1>5. RowsExist'
  BY <1>3 DEF RowsExist, Respects, RespectsBases, RespectsDocuments, BaseKnown
<1>6. Known(c)'
  BY <1>3 DEF Known, IdsAreFree, BaseKnown, WorkKnown, ListKnown, Respects,
              RespectsDocuments
<1>7. KeysHeld' /\ ActiveNamesUnique'
  BY <1>1, NamesKept
<1>8. EventsCommitted' /\ AuditIsTrue'
  <2>1. /\ audit \subseteq audit'
        /\ \A e \in audit' \ audit : e[2] = "success" /\ e[3] = c /\ pc'[c] = "done"
    OBVIOUS
  <2>2. \A f \in Document : doc'[f] = doc[f] \/ ChangeIsAudited(f)'
    BY DEF ChangeIsAudited, WorkKnown, BaseKnown
  <2>3. \A r \in Base : base'[r] = base[r] \/ EndIsAudited(r)'
    OBVIOUS
  <2>4. \A e \in audit' \ audit : EventIsTrue(e)'
    BY DEF EventIsTrue
  <2> HIDE DEF StoreDocument
  <2> QED
    BY <1>1, <1>3, <2>1, <2>2, <2>3, <2>4, AuditKept
<1> HIDE DEF Governed, TypeOK, StoreDocument
<1> QED
  BY <1>1, <1>3, <1>4, <1>5, <1>6, <1>7, <1>8, WritingStep

LEMMA AuditUploadStep ==
  ASSUME Governed, NEW c \in Call, AuditUpload(c)
  PROVE  Governed'
<1> USE FirstBases, IdsAreNew, NoneIsNothing
    DEF AuditUpload, Governed, TypeOK, Goes, Offered, Starts, tables, request, progress, Log
<1>1. Releases(c)
  BY DEF Releases, Untouched
<1>3. Respects(c)
  <2>1. RespectsBases(c)
    BY DEF RespectsBases, BaseKnown, IdsAreFree
  <2>2. RespectsDocuments(c)
    BY DEF RespectsDocuments, WorkKnown, IdsAreFree
  <2> QED
    BY <2>1, <2>2 DEF Respects
<1>4. TypeOK'
  <2>1. base' \in [Base -> BaseRow]
    BY DEF BaseKnown, BaseRow
  <2>2. member' \subseteq Member
    OBVIOUS
  <2>3. doc' \in [Document -> DocumentRow]
    BY DEF DocumentRow
  <2>4. audit' \subseteq Event
    BY DEF Event, Action
  <2> QED
    BY <2>1, <2>2, <2>3, <2>4 DEF Location, Between, Over, Operation
<1>5. RowsExist'
  BY <1>3 DEF RowsExist, Respects, RespectsBases, RespectsDocuments, BaseKnown
<1>6. Known(c)'
  BY <1>3 DEF Known, IdsAreFree, BaseKnown, WorkKnown, ListKnown, Respects,
              RespectsDocuments
<1>7. KeysHeld' /\ ActiveNamesUnique'
  BY <1>1, NamesKept
<1>8. EventsCommitted' /\ AuditIsTrue'
  <2>1. /\ audit \subseteq audit'
        /\ \A e \in audit' \ audit : e[2] = "success" /\ e[3] = c /\ pc'[c] = "done"
    OBVIOUS
  <2>2. \A f \in Document : doc'[f] = doc[f] \/ ChangeIsAudited(f)'
    BY DEF ChangeIsAudited, WorkKnown, BaseKnown
  <2>3. \A r \in Base : base'[r] = base[r] \/ EndIsAudited(r)'
    OBVIOUS
  <2>4. \A e \in audit' \ audit : EventIsTrue(e)'
    BY DEF EventIsTrue
  <2> HIDE DEF AuditUpload
  <2> QED
    BY <1>1, <1>3, <2>1, <2>2, <2>3, <2>4, AuditKept
<1> HIDE DEF Governed, TypeOK, AuditUpload
<1> QED
  BY <1>1, <1>3, <1>4, <1>5, <1>6, <1>7, <1>8, WritingStep

-----------------------------------------------------------------------------
\* Governed is inductive.
LEMMA GovernedStep ==
  ASSUME Governed, [Next]_vars
  PROVE  Governed'
<1>1. ASSUME NEW c \in Call, NEW u \in User, NEW b \in Base, NEW o \in DOMAIN MinRole,
             Forbid(c, u, b, o, MinRole[o])
      PROVE  Governed'
  BY <1>1, ForbidStep
<1>2. ASSUME NEW c \in Call, NEW u \in User, NEW n \in Name, CreateBase(c, u, n)
      PROVE  Governed'
  BY <1>2, CreateBaseStep
<1>3. ASSUME NEW c \in Call, NEW n \in Name, CreateConflicts(c, n) PROVE Governed'
  BY <1>3, RaisingStep DEF CreateConflicts, Raise, Offered
<1>4. ASSUME NEW c \in Call, NEW u \in User, NEW b \in Base, NEW n \in Name,
             LockForUpdate(c, u, b, n)
      PROVE  Governed'
  BY <1>4, LockForUpdateStep
<1>5. ASSUME NEW c \in Call, NEW u \in User, NEW b \in Base, UpdateFindsNone(c, u, b)
      PROVE  Governed'
  BY <1>5, RaisingStep DEF UpdateFindsNone, Raise, Offered
<1>6. ASSUME NEW c \in Call, NEW u \in User, NEW b \in Base,
             NEW o \in {"archive", "delete"}, MarkBase(c, u, b, o)
      PROVE  Governed'
  BY <1>6, MarkBaseStep
<1>7. ASSUME NEW c \in Call, NEW u \in User, NEW b \in Base, NEW d \in Document,
             PickDocument(c, u, b, d)
      PROVE  Governed'
  BY <1>7, PickDocumentStep
<1>8. ASSUME NEW c \in Call, NEW u \in User, NEW b \in Base, NEW d \in Document,
             PickNone(c, u, b, d)
      PROVE  Governed'
  BY <1>8, RaisingStep DEF PickNone, Raise, Offered
<1>9. ASSUME NEW c \in Call, NEW u \in User, NEW b \in Base, NEW d \in Document,
             EditDocument(c, u, b, d)
      PROVE  Governed'
  BY <1>9, EditDocumentStep
<1>10. ASSUME NEW c \in Call, NEW u \in User, NEW b \in Base, NEW d \in Document,
              EditNone(c, u, b, d)
       PROVE  Governed'
  BY <1>10, RaisingStep DEF EditNone, Raise, Offered
<1>11. ASSUME NEW c \in Call, NEW u \in User, NEW b \in Base, Reindex(c, u, b)
       PROVE  Governed'
  BY <1>11, ReindexStep
<1>12. ASSUME NEW c \in Call, NEW u \in User, NEW b \in Base \cup {None},
              NEW o \in {"upload", "ingest"}, BeginUpload(c, u, b, o)
       PROVE  Governed'
  BY <1>12, BeginUploadStep
<1>13. ASSUME NEW c \in Call, NEW u \in User, NEW asked \in SUBSET Base,
              ResolveScope(c, u, asked)
       PROVE  Governed'
  BY <1>13, ResolveScopeStep
<1>14. ASSUME NEW c \in Call, NEW u \in User, NEW asked \in SUBSET Base,
              ForbidScope(c, u, asked)
       PROVE  Governed'
  BY <1>14, ForbidScopeStep
<1>15. ASSUME NEW c \in Call, RaiseDenied(c) PROVE Governed'
  BY <1>15, RaisingStep DEF RaiseDenied
<1>16. ASSUME NEW c \in Call, CommitCreate(c) PROVE Governed'
  BY <1>16, CommitCreateStep
<1>17. ASSUME NEW c \in Call, Rename(c) PROVE Governed'
  BY <1>17, RenameStep
<1>18. ASSUME NEW c \in Call, RenameConflicts(c) PROVE Governed'
  BY <1>18, RaisingStep DEF RenameConflicts, Raise
<1>19. ASSUME NEW c \in Call, CommitUpdate(c) PROVE Governed'
  BY <1>19, CommitUpdateStep
<1>20. ASSUME NEW c \in Call, ListDocuments(c) PROVE Governed'
  BY <1>20, ListDocumentsStep
<1>21. ASSUME NEW c \in Call, DeleteNext(c) PROVE Governed'
  BY <1>21, DeleteNextStep
<1>22. ASSUME NEW c \in Call, CommitArchive(c) PROVE Governed'
  BY <1>22, CommitArchiveStep
<1>23. ASSUME NEW c \in Call, CommitDelete(c) PROVE Governed'
  BY <1>23, CommitDeleteStep
<1>24. ASSUME NEW c \in Call, RemoveDocument(c) PROVE Governed'
  BY <1>24, RemoveDocumentStep
<1>25. ASSUME NEW c \in Call, CommitRemove(c) PROVE Governed'
  BY <1>25, CommitRemoveStep
<1>26. ASSUME NEW c \in Call, CommitEdit(c) PROVE Governed'
  BY <1>26, CommitEditStep
<1>27. ASSUME NEW c \in Call, Resolve(c) PROVE Governed'
  BY <1>27, ResolveStep
<1>28. ASSUME NEW c \in Call, ResolveNone(c) PROVE Governed'
  BY <1>28, RaisingStep DEF ResolveNone, Raise
<1>29. ASSUME NEW c \in Call, ResolveAccessible(c) PROVE Governed'
  BY <1>29, ResolveAccessibleStep
<1>30. ASSUME NEW c \in Call, CreateDefault(c) PROVE Governed'
  BY <1>30, CreateDefaultStep
<1>31. ASSUME NEW c \in Call, DefaultConflicts(c) PROVE Governed'
  BY <1>31, RaisingStep DEF DefaultConflicts, Raise
<1>32. ASSUME NEW c \in Call, CommitDefault(c) PROVE Governed'
  BY <1>32, CommitDefaultStep
<1>33. ASSUME NEW c \in Call, StoreDocument(c) PROVE Governed'
  BY <1>33, StoreDocumentStep
<1>34. ASSUME NEW c \in Call, AuditUpload(c) PROVE Governed'
  BY <1>34, AuditUploadStep
<1>35. ASSUME NEW c \in Call, Fail(c) PROVE Governed'
  BY <1>35, RaisingStep DEF Fail, Raise, InTransaction, Between
<1>36. CASE UNCHANGED vars
  BY <1>36 DEF vars, tables, request, progress, Governed, TypeOK, RowsHeld, RowsExist,
               IdsAreFree,
     BaseKnown, WorkKnown, ListKnown, KeysHeld, Writes, Active, NameTaken, LockedBase,
     Holds,
     ActiveNamesUnique, EventsCommitted, AuditIsTrue, ChangeIsAudited, EndIsAudited,
     EventIsTrue
<1>37. ASSUME NEW c \in Call, Begin(c) PROVE Governed'
  BY <1>37, <1>1, <1>2, <1>3, <1>4, <1>5, <1>6, <1>7, <1>8, <1>9, <1>10, <1>11, <1>12,
     <1>13, <1>14 DEF Begin
<1>38. ASSUME NEW c \in Call, Proceed(c) PROVE Governed'
  BY <1>38, <1>15, <1>16, <1>17, <1>18, <1>19, <1>20, <1>21, <1>22, <1>23, <1>24, <1>25,
     <1>26, <1>27, <1>28, <1>29, <1>30, <1>31, <1>32, <1>33, <1>34 DEF Proceed
<1> QED
  BY <1>35, <1>36, <1>37, <1>38 DEF Next

LEMMA GovernedInit == Init => Governed
<1> SUFFICES ASSUME Init PROVE Governed
  OBVIOUS
<1> USE FirstBases, IdsAreNew, NoneIsNothing DEF Init
<1>1. TypeOK
  BY DEF TypeOK, Location, BaseRow, DocumentRow
<1>2. RowsHeld /\ RowsExist
  BY DEF RowsHeld, RowsExist, LockedBase, Holds
<1>3. \A c \in Call : IdsAreFree(c) /\ BaseKnown(c) /\ WorkKnown(c) /\ ListKnown(c)
  BY DEF IdsAreFree, BaseKnown, WorkKnown, ListKnown
<1>4. KeysHeld /\ ActiveNamesUnique
  BY DEF KeysHeld, Writes, ActiveNamesUnique, Active
<1>5. EventsCommitted /\ AuditIsTrue
  BY DEF EventsCommitted, AuditIsTrue, ChangeIsAudited, EndIsAudited
<1> QED
  BY <1>1, <1>2, <1>3, <1>4, <1>5 DEF Governed

\* Governed holds in every reachable state.
THEOREM AlwaysGoverned == Spec => []Governed
  BY GovernedInit, GovernedStep, PTL DEF Spec

\* Type correctness.
THEOREM BasesTypeCorrect == Spec => []TypeOK
<1>1. Governed => TypeOK
  BY DEF Governed
<1> QED
  BY <1>1, AlwaysGoverned, PTL

\* Two active bases never have the same name, whatever calls create, rename or end them.
THEOREM NamesAlwaysUnique == Spec => []ActiveNamesUnique
<1>1. Governed => ActiveNamesUnique
  BY DEF Governed
<1> QED
  BY <1>1, AlwaysGoverned, PTL

\* What is still active of a deleted base was stored too late or not listed.
THEOREM LeftoversAlwaysExplained == Spec => []LeftoversAreExplained
<1>1. Governed => LeftoversAreExplained
  BY DEF Governed, ListKnown, LeftoversAreExplained
<1> QED
  BY <1>1, AlwaysGoverned, PTL

\* Every change has its event, and every event its change.
THEOREM AuditAlwaysTrue == Spec => []AuditIsTrue
<1>1. Governed => AuditIsTrue
  BY DEF Governed
<1> QED
  BY <1>1, AlwaysGoverned, PTL
===============================================================================
