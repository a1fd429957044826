----------------------------- MODULE MCSettings -----------------------------
(* An instance of Settings for TLC.                                        *)
EXTENDS Settings, TLC
\* The directory has no tojfl.toml, or one that names a host.
Directories == {Missing, [Default EXCEPT !["base_url"] = "local"]}
\* No property tells the two commands apart.
Symmetry == Permutations(Procs)
=============================================================================
