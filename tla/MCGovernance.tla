------------------------------ MODULE MCGovernance ------------------------------
(***************************************************************************)
(* Two intents, two proposals, one SDDK cycle and the observed project.    *)
(* The cycle may be known only through the sync (derived) or be defined as *)
(* SDDK's own (authoritative) by another client.                           *)
(***************************************************************************)
EXTENDS Governance, TLC

CONSTANTS a, c, project, i1, i2, p1, p2

MCSubjects == {a, c, project, i1, i2, p1, p2}
MCSddk == {c, project}
MCIntents == {i1, i2}
MCProposals == {p1, p2}
MCCycles == {c}
MCPropKeys == {"status", "ledger_sequence"}
MCPropValues == Statuses \cup {"s1", "s2", "s3", "elsewhere"}

Elsewhere == Prop("ledger_sequence", "elsewhere")

Locally == << Upsert(a, "derived", NoProps) >>
Governed == << Upsert(c, "authoritative", NoProps) >>
IfOwned == << Upsert(c, "derived", Elsewhere) >>
Twice == Declare(Fact(a, "depends_on", a, "derived"))
Tearing == << Twice, Twice >>

MCPatches == {Locally, Governed, IfOwned, Tearing, << >>}

\* A local change, one that SDDK governs, one that depends on who defined the
\* cycle, one that passes validation and tears, and one that is no patch.
MCGestures == { <<a, Locally>>, <<c, Governed>>, <<c, IfOwned>>,
                <<a, Tearing>>, <<a, Malformed>> }

Judged(failed, evidence, horizon) ==
  [failed |-> failed, evidence |-> evidence, horizon |-> horizon]

\* A proposal, and one step short of it in each respect.
MCEvaluations == { Judged({}, TRUE, "given"), Judged({}, TRUE, "blank"),
                   Judged({}, FALSE, "given"), Judged({"focus-test"}, TRUE, "given") }

Defined(s, authority) ==
  [EventOf("subject-defined", s, NoSubject, NoProps)
     EXCEPT !.id = <<s, 0>>, !.authority = authority]

MCEvents == { Defined(a, "derived"), Defined(c, "authoritative") }
MCSequence(n) == <<"s1", "s2", "s3">>[n]
MCEventIds == {a, c} \X (0..MaxLedger)
=============================================================================
