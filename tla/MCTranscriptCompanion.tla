----------------------- MODULE MCTranscriptCompanion -----------------------
(* Every use of the companion, and direct acquisitions. *)
EXTENDS TranscriptCompanion

MCOptions ==
  {o \in AnyOption : o.entry = "direct" => o.intent = "fetch_if_missing" /\ o.provider # "unsupported"}
=============================================================================
