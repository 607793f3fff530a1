----------------------------- MODULE MCToolexec -----------------------------
(***************************************************************************)
(* Instances of Toolexec for TLC.                                          *)
(***************************************************************************)
EXTENDS Toolexec, TLC

CONSTANTS p1, p2, p3, pkg, asmhdr

MCContent == [by : {p1, p2, p3}, linkdeps : BOOLEAN]

\* All processes compile one package ...
SameKey == (p1 :> pkg) @@ (p2 :> pkg) @@ (p3 :> pkg)
\* ... with assembly, but for the one that does not know it has any.
MixedOutputs ==
    (p1 :> {Archive, asmhdr}) @@ (p2 :> {Archive, asmhdr}) @@ (p3 :> {Archive})
=============================================================================
