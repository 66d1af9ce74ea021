---------------------------- MODULE CandidateRules ----------------------------
(***************************************************************************)
(* Which candidate of company-wiki fetch_filing.py takes for the filing    *)
(* that was asked for: scripts/ff_source_ref.py, ff_source_candidate.py    *)
(* and the handle rules of scripts/filing_contracts.py.  A document is     *)
(* what its metadata says of it, in the eyes of the request; an answer     *)
(* names documents in several places, and they need not be the same one.   *)
(***************************************************************************)

Documents == [kind : {"asked", "other"}, year : {"asked", "other"},
              company : {"asked", "other"}, published : {"in_time", "later"}]

\* ref: the document of the SourceRef (or of the one match); echo: that of the
\* SourceRef inside the candidate; own: the one that the candidate describes.
\* says_company: market and security_id are among its fields.  fault: what is wrong
\* with the shape of a part, or, with "file", on the disk.  receipt: the outcome and
\* the download events that come with it are known, and agree.
AnyCandidate ==
  [ref : Documents, echo : Documents, own : Documents, says_company : BOOLEAN,
   fault : {"none", "ref", "path", "metadata", "file"}, receipt : BOOLEAN, capture_ready : BOOLEAN]

SourceRefAccepted(c) == c.fault # "ref"
LogicalOnly(c) == c.fault # "path"
HandleAccepted(c) == c.fault # "metadata" /\ c.own.published = "in_time"
ReceiptAccepted(c) == c.receipt

\* validate_source_candidate: one document, and the one asked for.
BoundOnce(c) == c.echo = c.ref
Bound(c) == c.echo = c.ref /\ c.own = c.ref
Suits(r, c) ==
  /\ c.own.kind = "asked"
  /\ r.dated => c.own.year = "asked"
  /\ c.says_company => c.own.company = "asked"
CandidateAccepted(r, c) ==
  SourceRefAccepted(c) /\ LogicalOnly(c) /\ HandleAccepted(c) /\ Bound(c) /\ Suits(r, c)

\* A legacy handle stands for itself: it must be ready for capture, and its file,
\* under a reusable root, has its bytes.
LegacyHandleAccepted(c) == c.capture_ready /\ c.fault # "file" /\ HandleAccepted(c)
=============================================================================
