------------------------- MODULE MCBackendTranslator -------------------------
(* Small instances of BackendTranslator; the configurations give the         *)
(* constants.                                                                *)
EXTENDS BackendTranslator
=============================================================================
