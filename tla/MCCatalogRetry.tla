--------------------------- MODULE MCCatalogRetry ---------------------------
EXTENDS CatalogRetry

CONSTANTS FirstDeadline, OtherDeadline, FirstClient

MCDeadline == [c \in Clients |-> IF c = FirstClient THEN FirstDeadline ELSE OtherDeadline]

\* Every stderr type, and one of each filing code with each answer a receipt can give.
AllReports ==
  StderrTypes \X {NoReceipt} \cup
  {"catalog_locked", "db_timeout", "worker_paused", "fatal"} \X
    {[code |-> "provider_failed", started |-> s, complete |-> "null"] : s \in Tri}

\* Every status, and a blocked result and the ones that are none with and without a
\* receipt and, where it may be, a local preparation.
AllDocuments ==
  {r \in Results :
     /\ r.receipt = NoReceipt \/ (r.receipt.code = "provider_failed" /\ r.receipt.complete = "null")
     /\ r.local \in {NoLocal, "catalog_unavailable"}
     /\ r.form # "refusal" => r.status = "blocked" /\ r.local = NoLocal
     /\ r.status # "blocked" => r.receipt = NoReceipt /\ r.local = NoLocal}
FewReports == {<<"catalog_locked", NoReceipt>>, <<"fatal", NoReceipt>>}
=============================================================================
