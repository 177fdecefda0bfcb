---------------------------- MODULE MC_Ingestion ----------------------------
(***************************************************************************)
(* Instances of Ingestion for TLC.                                         *)
(***************************************************************************)
EXTENDS Ingestion, TLC

CONSTANTS t1, t2, report_pdf, report_dot_pdf, alice, bob, finance

\* "report.pdf" and "report_pdf" share one SpiceDB name.
MCObjectName == [f \in Files |-> "documents/report_pdf"]
MCObjectNames == {"documents/report_pdf"}

Form(t, f, who, n) ==
    [tenant |-> t, file |-> f, user |-> who, teams |-> {finance}, chunks |-> n]

\* One path, overwritten by a longer or a shorter document.
OnePath == {Form(t1, report_pdf, alice, n) : n \in 1 .. 2}

\* One path; the ETL may find nothing to index in the document.
MaybeEmpty == {Form(t1, report_pdf, alice, n) : n \in 0 .. 1}

\* A path overwritten by a longer or a shorter document, the same file name
\* in another tenant, a file of the same SpiceDB name, and a request without a
\* tenant.
ThreePaths ==
    OnePath \cup {Form(t2, report_pdf, bob, 1), Form(t1, report_dot_pdf, bob, 1),
                 Form(NoTenant, report_pdf, bob, 1)}

\* Uploads are interchangeable: no definition tells two of them apart.
UploadSymmetry == Permutations(Uploads)

\* No guard and no other variable's next value depends on results: states that
\* differ only there have the same successors otherwise.
Observed ==
    <<request, upc, batch, objects, log, appends, tuples, points, committed,
      wpc, position, msg, doc, outbox, handled, faults>>

=============================================================================
