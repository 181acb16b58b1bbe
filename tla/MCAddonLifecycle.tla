-------------------------- MODULE MCAddonLifecycle --------------------------
(* The instance of AddonLifecycle that TLC checks. *)
EXTENDS AddonLifecycle
=============================================================================
