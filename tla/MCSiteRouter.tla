---------------------------- MODULE MCSiteRouter ----------------------------
(* Small instances of SiteRouter for TLC. *)
EXTENDS SiteRouter, TLC

CONSTANTS a, b, p1, p2, p3
SitesAB == {a, b}
SitesA == {a}
ThreePids == {p1, p2, p3}
\* The first renderer is p1; the others are interchangeable.
SparePids == Permutations({p2, p3})
=============================================================================
