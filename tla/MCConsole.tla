------------------------------ MODULE MCConsole ------------------------------
(* Instances of Console for TLC: what is entered into the upload form. *)
EXTENDS Console

SomeKeys == {<<"/", "x">>}
SomeSizes == {Size("256 MB", 256), Size("1 GB", 1)}
SomeBuckets == {"vault-ml-bucket"}
=============================================================================
