----------------------------- MODULE MCLifecycle -----------------------------
(***************************************************************************)
(* Instances of Lifecycle for TLC.                                         *)
(***************************************************************************)
EXTENDS Lifecycle

MCScanners == <<"entry">>
MCIntercom == <<"intercom">>
MCThreads == {"main", "entry", "intercom"}
=============================================================================
