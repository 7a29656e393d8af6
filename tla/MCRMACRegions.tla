-------------------------- MODULE MCRMACRegions ---------------------------
(* Model-checking instance of RMACRegions: the input shapes of the run (a *)
(* .cfg cannot write tuples).                                              *)
EXTENDS RMACRegions

(* <<batch_size, H, W>>: a square 2 x 2 image (5 regions over two scales),*)
(* a 3 x 1 column (4 regions, scale 2 empty), two 1 x 2 images (3 regions *)
(* each), and an empty batch.                                              *)
InputImages == {<<1, 2, 2>>, <<1, 3, 1>>, <<2, 1, 2>>, <<0, 2, 2>>}
=============================================================================
