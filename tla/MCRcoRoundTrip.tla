--------------------------- MODULE MCRcoRoundTrip ---------------------------
(* Writer and reader on the archives of MCArchives.                        *)
EXTENDS RcoRoundTrip, MCArchives
=============================================================================
