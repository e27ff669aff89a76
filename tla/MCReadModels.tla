------------------------------ MODULE MCReadModels ------------------------------
(***************************************************************************)
(* A decision, a test, a piece of evidence and a module, with relations    *)
(* that make chains, cycles, a self-loop, two ways to one subject and two  *)
(* relations between the same two subjects.                                *)
(***************************************************************************)
EXTENDS ReadModels

MCOrder == << "d", "e", "m", "t" >>
MCKindOrder == << "depends_on", "mentions", "provides_evidence_for", "verifies" >>

Rel(from, kind, to) == [from |-> from, kind |-> kind, to |-> to]

MCFacts == << Rel("d", "depends_on", "e"), Rel("d", "mentions", "m"),
              Rel("e", "mentions", "t"), Rel("e", "provides_evidence_for", "d"),
              Rel("m", "depends_on", "d"), Rel("m", "depends_on", "m"),
              Rel("m", "mentions", "e"),
              Rel("t", "depends_on", "m"), Rel("t", "mentions", "d"),
              Rel("t", "verifies", "d") >>

\* By kind and source, where MCFacts is by source, kind and target.
MCBySupport == << Rel("d", "depends_on", "e"), Rel("m", "depends_on", "d"),
                  Rel("m", "depends_on", "m"), Rel("t", "depends_on", "m"),
                  Rel("d", "mentions", "m"), Rel("e", "mentions", "t"),
                  Rel("m", "mentions", "e"), Rel("t", "mentions", "d"),
                  Rel("e", "provides_evidence_for", "d"), Rel("t", "verifies", "d") >>

MCKind == [d |-> "decision", e |-> "evidence", m |-> "module", t |-> "test"]
MCAuthority == [d |-> "authoritative", e |-> "derived", m |-> "authoritative",
                t |-> "advisory"]
MCSize == [d |-> 2, e |-> 1, m |-> 1, t |-> 1]

View(roots, kinds, maxDepth, derived, advisory, cutoff, budget) ==
  [roots |-> roots, kinds |-> kinds, maxDepth |-> maxDepth, derived |-> derived,
   advisory |-> advisory, cutoff |-> cutoff, budget |-> budget]

AllKinds == {"depends_on", "mentions", "provides_evidence_for", "verifies"}

\* Everything, in every depth; and one view for each way not to be in it.
MCRequests ==
  {View(roots, AllKinds, depth, TRUE, TRUE, FALSE, 10) :
     roots \in { <<"d">>, <<"t">>, <<"m", "t">> }, depth \in 0..2} \cup
  { View(<<"t">>, AllKinds, 2, FALSE, TRUE, FALSE, 10),
    View(<<"d", "m">>, {"mentions"}, 3, TRUE, FALSE, FALSE, 10),
    View(<<"m", "d">>, AllKinds, 3, TRUE, TRUE, TRUE, 10),
    View(<<"t", "d">>, AllKinds, 3, TRUE, TRUE, FALSE, 3),
    View(<<"e">>, AllKinds, 3, TRUE, TRUE, FALSE, 2),
    View(<<"d", "m">>, AllKinds, 1, TRUE, TRUE, FALSE, 2),
    View(<<"d", "m">>, AllKinds, 0, TRUE, TRUE, FALSE, 2) }
=============================================================================
