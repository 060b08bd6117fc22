----------------------------- MODULE MCDevkitTV -----------------------------
(***************************************************************************)
(* Instances of DevkitTV for TLC: the plugin is small enough to be checked *)
(* whole; two work items are more than one resume can leave behind.        *)
(***************************************************************************)
EXTENDS DevkitTV

Both == BOOLEAN
DeferredOnly == {TRUE}

=============================================================================
