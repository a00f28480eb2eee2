-------------------------- MODULE SidecarRequests --------------------------
(* What the modules about the handlers of one sidecar share. *)
CONSTANT Request  \* the requests it handles, each once
============================================================================
