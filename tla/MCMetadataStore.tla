-------------------------- MODULE MCMetadataStore --------------------------
(* Instances of MetadataStore for TLC. *)
EXTENDS MetadataStore, TLC

\* A refresh (only_if_changed), a save without exports, and an export that
\* leaves the document alone: each flag on and off.
ThreeModes ==
    {[changed |-> TRUE, save |-> TRUE, markdown |-> TRUE, okf |-> TRUE],
     [changed |-> FALSE, save |-> TRUE, markdown |-> FALSE, okf |-> FALSE],
     [changed |-> FALSE, save |-> FALSE, markdown |-> FALSE, okf |-> TRUE]}

\* The defaults of a request.
Defaults == {[changed |-> FALSE, save |-> TRUE, markdown |-> TRUE, okf |-> TRUE]}

Symmetry ==
    {f @@ g @@ h : f \in Permutations(Paths), g \in Permutations(Schemas),
                   h \in Permutations(Procs \ Editors)}
=============================================================================
