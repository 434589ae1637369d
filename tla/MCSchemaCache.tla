---------------------------- MODULE MCSchemaCache ----------------------------
EXTENDS SchemaCache, TLC

CONSTANTS r1, r2, app, audit, one, other

(* Requests, databases and lists are alike: every product of their permutations. *)
CacheSymmetry ==
    {p @@ q @@ s : p \in Permutations({r1, r2}), q \in Permutations({app, audit}),
                   s \in Permutations({one, other})}
=============================================================================
