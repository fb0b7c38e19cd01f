-------------------------------- MODULE MCWindow --------------------------------
(* Window as TLC checks it: words of two samples, windows of two or three.    *)
EXTENDS Window

MCWindows == {8, 12}
==============================================================================
