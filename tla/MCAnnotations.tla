----------------------------- MODULE MCAnnotations -----------------------------
(***************************************************************************)
(* Instances of RevisionAnnotations.  A memory has the artifact a0; calls  *)
(* save a1 and a2, delete a0 or a1, confirm with f1 and f2, one updates    *)
(* the memory, one retracts it and one reads it.                           *)
(***************************************************************************)
EXTENDS RevisionAnnotations

CONSTANTS u, d, g,        \* an update, a retraction, a reader
          s1, s2, x0, x1, \* save a1, save a2, delete a0, delete a1
          k1, k2, k3,     \* confirm with f1, with f2, with f1 again
          a0, a1, a2, e1, f1, f2

MCAnnotator == {s1, s2, x0, x1, k1, k2, k3}
MCCall == {u, d, g} \cup MCAnnotator
MCArtifact == {a0, a1, a2}
MCEvidence == {e1, f1, f2}
MCTaskOf == [c \in MCAnnotator |-> CASE c \in {s1, s2} -> "save"
                                     [] c \in {x0, x1} -> "delete"
                                     [] OTHER -> "confirm"]
MCArtifactOf == [c \in MCAnnotator |-> CASE c \in {s1, x1} -> a1
                                         [] c = s2 -> a2 [] OTHER -> a0]
MCRootOf == [c \in MCAnnotator |-> IF c = k2 THEN f2 ELSE f1]

\* A request of an annotation is what it does and to what; its token names the
\* revision too.
MCRequestOf ==
    [c \in MCCall |-> IF c \notin MCAnnotator THEN <<c, c>>
                      ELSE <<MCTaskOf[c], IF MCTaskOf[c] = "confirm"
                                          THEN MCRootOf[c] ELSE MCArtifactOf[c]>>]
MCRequest == {MCRequestOf[c] : c \in MCCall}
Updated == <<u, u>>
Notable == {MCRequestOf[c] : c \in MCAnnotator} \X {Root, Updated}
MCToken == {<<u, u>>, <<d, d>>, <<g, g>>} \cup Notable
MCTokenOf ==
    [c \in MCCall |-> [p \in MCToken \cup {Root} |->
        IF c \in MCAnnotator
        THEN <<MCRequestOf[c], IF p = Updated THEN p ELSE Root>>
        ELSE <<c, c>>]]
MCTokenKey == [t \in MCToken |-> t]
MCTokenRequest == [t \in MCToken |-> IF t \in Notable THEN t[1] ELSE t]
MCKindOf == [c \in MCCall |-> CASE c = u -> "revise" [] c = d -> "retract"
                             [] OTHER -> "read"]
MCExpectedOf == [c \in MCCall |-> 0]
MCAfter == [c \in MCCall |-> {}]
MCRootArtifacts == {a0}
MCRootEvidence == {e1}

MCScenarios ==
    {{s1, s2}, {s1, x1, g}, {s2, x0, g}, {k1, k2, g}, {k1, k3, u}, {s1, u}, {x0, u},
     {s1, k1}, {s1, d}, {x0, d}, {k1, d}}
===============================================================================
