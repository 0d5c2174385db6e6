--------------------------- MODULE MCKnowledgeBases ---------------------------
EXTENDS KnowledgeBasesProperties, TLC

CONSTANTS b1, b2, b3, b4, b5, d1, d2, d3, d4, d5, u1, u2, n1, n2, dept

\* One user owns both bases; the other one views the first as a member of its
\* department.
OfDepartment == (u1 :> {u1}) @@ (u2 :> {u2, dept})
TwoBases == (b1 :> n1) @@ (b2 :> n2)
TwoMembers == {[who |-> u1, base |-> b, role |-> "owner"] : b \in {b1, b2}}
                \cup {[who |-> dept, base |-> b1, role |-> "viewer"]}
TwoStored == (d1 :> b1) @@ (d2 :> b1)

BaseIds == [c \in Call |-> CASE c = 1 -> b3 [] c = 2 -> b4 [] OTHER -> b5]
DocumentIds == [c \in Call |-> CASE c = 1 -> d3 [] c = 2 -> d4 [] OTHER -> d5]

\* Two calls of any kind, and a third that renames a base.
TwoOfAnyKind == [c \in Call |-> IF c = 3 THEN {"update"} ELSE Operation]
OnlyRetrieve == [c \in Call |-> {"retrieve"}]
===============================================================================
