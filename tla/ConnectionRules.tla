---------------------------- MODULE ConnectionRules ----------------------------
(***************************************************************************)
(* From a configuration file to the commands of company-wiki:              *)
(* scripts/ff_configuration.py load_connection_root and scripts/           *)
(* ff_company_wiki_connection.py.  The older form names the root of a      *)
(* company-wiki, whose layout has every command; the newer one names a     *)
(* directory and the commands themselves.                                  *)
(***************************************************************************)

WikiOperations == {"catalog", "query", "local_prepare", "open", "transcript_import",
                   "financial_statements"}

\* place: where its root or cwd is, after the expansion of the known tokens.
AnyConfiguration ==
  [readable : BOOLEAN, contract : BOOLEAN, form : {"root", "connection"},
   place : {"absolute", "relative", "token", "gone"},
   commands : SUBSET (WikiOperations \cup {"unknown"})]

\* Only a connection may be relative, to the file that names it.
PlaceAccepted(c) ==
  c.place = "absolute" \/ (c.place = "relative" /\ c.form = "connection")

ConfigAccepted(c) ==
  /\ c.readable /\ c.contract /\ PlaceAccepted(c)
  /\ c.form = "connection" => c.commands \subseteq WikiOperations

ConfiguredCommands(c) == IF c.form = "root" THEN WikiOperations ELSE c.commands
=============================================================================
