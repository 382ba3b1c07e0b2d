-------------------------------- MODULE MCVfs --------------------------------
(* The virtual file system with one name, two devices and two descriptors. *)
EXTENDS Vfs

MCDevices == <<"kbd", "null">>
MCChunks == {<<"x">>, <<"y", "x">>}
==============================================================================
