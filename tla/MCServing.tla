------------------------------ MODULE MCServing ------------------------------
(* Two viewers and every shape of SOURCES: detection, one source, both, a   *)
(* typo next to a source, and nothing that is known.                        *)
EXTENDS Serving

Entries == { {"auto"}, {"auto", "flux"}, {"argocd"}, {"flux", "argo"}, {"argocd", "flux"}, {"fluxx"} }
=============================================================================
