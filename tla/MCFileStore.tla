------------------------------ MODULE MCFileStore ------------------------------
(* Small instances of FileStore for TLC.                                   *)
EXTENDS FileStore, TLC

CONSTANTS u1, u2

\* Names that mislead handleShareAccess: the first user's reads as 0, the id of a
\* caller without a session, and the second's as the first user's id.
MCNameValue == (u1 :> Zero) @@ (u2 :> u1)

\* Random identifiers are interchangeable; a file with a numeric title only with
\* another one.
MCSymmetry ==
  Permutations(Sids) \cup Permutations(Codes) \cup Permutations(Extracts)
    \cup Permutations(NumericTitle) \cup Permutations(Names \ NumericTitle)

=============================================================================
