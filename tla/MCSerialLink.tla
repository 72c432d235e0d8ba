---------------------------- MODULE MCSerialLink ----------------------------
(* TLC instances of SerialLink: the .cfg files give the constants values.    *)
EXTENDS SerialLink
=============================================================================
