--------------------------------- MODULE Scope ---------------------------------
(***************************************************************************)
(* What a question may find: the filters that a client may send, and those  *)
(* that FilterBuilder makes of who asks.  Documents carry a label, and so   *)
(* do their chunks, where the search looks at it.                           *)
(***************************************************************************)
EXTENDS Naturals, Sequences, FiniteSets

CONSTANTS
    Department,  \* departments of users and documents
    Global,      \* the department "global"
    Base         \* knowledge bases

ASSUME GlobalIsDepartment == Global \in Department

AccessLevels == <<"public", "internal", "confidential", "restricted">>
Level == {AccessLevels[i] : i \in DOMAIN AccessLevels}
Label == [department : Department, level : Level, base : Base]
Asker == [department : Department, level : Level]

\* The keys a client may filter by, and those that are the server's alone.
FilterKeys == {"doc_type", "source_uri", "version", "date_range",
               "knowledge_base_id", "knowledge_base_ids"}
IdentityKeys == {"tenant_id", "user_id", "department", "access_level", "status"}

\* validate_client_filters, which asks for no less than FilterBuilder.build does.
AcceptsFilters(keys) ==
    /\ keys \subseteq FilterKeys
    /\ ~({"knowledge_base_id", "knowledge_base_ids"} \subseteq keys)

LevelsFor(level) ==
    {AccessLevels[i] : i \in {j \in DOMAIN AccessLevels :
        \E k \in j..Len(AccessLevels) : AccessLevels[k] = level}}
DepartmentsFor(department) == {department, Global}

\* What the client adds (the type, version or URI of documents) leaves less to be found.
Filter(asker, bases) ==
    [departments |-> DepartmentsFor(asker.department),
     levels |-> LevelsFor(asker.level), bases |-> bases]

Matches(filter, label) ==
    /\ label.department \in filter.departments
    /\ label.level \in filter.levels
    /\ label.base \in filter.bases
===============================================================================
