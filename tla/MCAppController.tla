-------------------------- MODULE MCAppController --------------------------
(* Instances of AppController for TLC.                                     *)
EXTENDS AppController

CONSTANTS img, r1

\* A pinned image, an unpinned one and no source at all.
SomeSources == {[url |-> img, ref |-> r1], [url |-> None, ref |-> r1], None}
=============================================================================
