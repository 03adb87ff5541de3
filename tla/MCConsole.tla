----------------------------- MODULE MCConsole -----------------------------
(* Console with menus of which one fits on the screen. *)
EXTENDS Console

MCMenus == {<<FALSE, TRUE, TRUE>>, <<TRUE, TRUE, TRUE, TRUE>>}
===============================================================================
