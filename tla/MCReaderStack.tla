---------------------------- MODULE MCReaderStack ----------------------------
(* ReaderStack on a disk of four blocks of three bytes, with a partition that *)
(* starts on it and one that ends with it.                                    *)
EXTENDS ReaderStack

MCCurrentOffsets == {-2, 0, 1}
MCWindows        == {<<3, 6>>, <<6, 6>>}
MCEndOffsets     == {-2, -1, 0}
===============================================================================
