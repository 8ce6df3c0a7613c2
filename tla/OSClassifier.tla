----------------------------- MODULE OSClassifier -----------------------------
(***************************************************************************)
(* How the tags of the six services of one host become one decision:       *)
(* os/classifier.go.  The patterns that give a banner its tag are data and *)
(* left out; the tree of parent tags is a parameter.                       *)
(***************************************************************************)
EXTENDS Integers, Sequences, FiniteSets, SequencesExt

CONSTANTS
    Tags,        \* the tags that detectTag returns
    NoTag,       \* "": no banner, or a banner that matches no rule
    parentTag    \* the next less specific tag, NoTag at a root

\* What the loop of resolveTags ends with when two tags conflict.
Conflict == "conflict"

ASSUME OSClassifierAssumption ==
    /\ IsFiniteSet(Tags) /\ {NoTag, Conflict} \cap Tags = {}
    /\ parentTag \in [Tags -> Tags \cup {NoTag}]

\* The chain from a tag to its root, walked while there is a parent.
IsAncestor(ancestor, descendant) ==
    LET up[n \in 0 .. Cardinality(Tags)] ==
            IF n = 0 THEN descendant
            ELSE IF up[n - 1] = NoTag THEN NoTag ELSE parentTag[up[n - 1]]
    IN  \E n \in 1 .. Cardinality(Tags) : up[n] = ancestor

\* serviceTags.values: the tags that exist, in the order of the services.
Values(serviceTags) ==
    LET out[n \in 0 .. Len(serviceTags)] ==
            IF n = 0 THEN <<>>
            ELSE IF serviceTags[n] = NoTag THEN out[n - 1]
            ELSE Append(out[n - 1], serviceTags[n])
    IN  out[Len(serviceTags)]

\* The loop without its last case: a tag that conflicts replaces the one selected.
ReplaceIncomparable(selected, candidate) ==
    IF candidate = selected \/ IsAncestor(candidate, selected) THEN selected ELSE candidate

\* One round of the loop of resolveTags, whose switch takes the first case that holds; a
\* conflict ends it.
Select(selected, candidate) ==
    IF selected = Conflict THEN Conflict
    ELSE IF candidate = selected \/ IsAncestor(candidate, selected) THEN selected
    ELSE IF IsAncestor(selected, candidate) THEN candidate
    ELSE Conflict

Decision(status, tag, conflicts) == [status |-> status, tag |-> tag, conflicts |-> conflicts]

\* The loop over the values but for the first one, which is selected before it.
Selected(values) ==
    LET selected[n \in 1 .. Len(values)] ==
            IF n = 1 THEN values[1] ELSE Select(selected[n - 1], values[n])
    IN  selected[Len(values)]

ResolveTags(serviceTags) ==
    LET values == Values(serviceTags)
    IN  IF values = <<>> THEN Decision("unclassified", NoTag, {})
        ELSE IF Selected(values) = Conflict THEN Decision("ambiguous", NoTag, Range(values))
        ELSE Decision("resolved", Selected(values), {})

-----------------------------------------------------------------------------
(* The reference definition *)

Comparable(a, b) == a = b \/ IsAncestor(a, b) \/ IsAncestor(b, a)

MostSpecific(serviceTags) ==
    LET found == Range(serviceTags) \ {NoTag}
        d == ResolveTags(serviceTags)
    IN  /\ d.status = "unclassified" <=> found = {}
        /\ d.status = "ambiguous" <=> \E a, b \in found : ~Comparable(a, b)
        /\ d.status = "ambiguous" => d.conflicts = found
        /\ d.status = "resolved" =>
               d.tag \in found /\ \A a \in found : a = d.tag \/ IsAncestor(a, d.tag)
=============================================================================
