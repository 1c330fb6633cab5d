-------------------------- MODULE MCFrontTranslator --------------------------
(* Small instances of FrontTranslator; the configurations give the constants. *)
EXTENDS FrontTranslator
=============================================================================
