------------------------------ MODULE MCBoxes ------------------------------
(* One field and one element, two variables, one of them of a short form.  *)
EXTENDS Boxes
=============================================================================
