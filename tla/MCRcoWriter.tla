---------------------------- MODULE MCRcoWriter ----------------------------
(* The writer, with its properties, on the archives of MCArchives.         *)
EXTENDS RcoWriterProps, MCArchives
=============================================================================
