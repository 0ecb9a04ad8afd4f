---------------------------- MODULE Declarations ----------------------------
(* What is declared before a run: a manifest of producers and a             *)
(* configuration, each of which may not be offered.  Neither changes.       *)
EXTENDS ProducerManifest, Configuration

CONSTANT NothingOffered

declaredVars == <<manifest, configuration>>

DeclarationsInit ==
    /\ ManifestInit \/ manifest = NothingOffered
    /\ ConfigurationInit \/ configuration = NothingOffered

DeclarationsSpec == DeclarationsInit /\ [][FALSE]_declaredVars

(* A manifest that is constructed computes all it enables and has no        *)
(* circle, and a configuration that is loaded suits the components.         *)
DeclarationsInv ==
    /\ manifest # NothingOffered => ManifestInv
    /\ configuration # NothingOffered => ConfigurationInv
=============================================================================
