------------------------------- MODULE MCDial -------------------------------
(* An instance of Dial for TLC: three versions, of which the server supports *)
(* the client's favourite, two others, or none.                              *)
EXTENDS Dial

MCClientVersions == <<"v1", "v2", "v3">>

====
