-------------------------------- MODULE MCWeb --------------------------------
(* An instance of WebServer: a printer taken out of its box.                  *)
EXTENDS WebServer
=============================================================================
