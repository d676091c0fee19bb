------------------------------ MODULE MCUploads ------------------------------
(* A small instance of Uploads: lists that fill two batches and that share  *)
(* files at other positions.                                                *)
EXTENDS Uploads

CONSTANTS k1, k2, k3

MCKey == {k1, k2, k3}
MCFileLists == {<<>>, <<k1, k2, k3>>, <<k3, k1>>}
=============================================================================
