---------------------------- MODULE MCSelfUpdate ----------------------------
(* Model-checking instance of SelfUpdate.                                  *)
EXTENDS SelfUpdate

\* As text, 0.10.0 would come before 0.2.0, and with its missing component
\* 0.2 would too.
MCReleases    == {<<0, 2, 0>>, <<0, 10, 0>>}
MCLocalBuilds == {<<0, 2>>}

=============================================================================
