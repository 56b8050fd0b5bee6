--------------------------- MODULE MCPipeConnector ---------------------------
(* Two services, one of which needs arguments, for checking PipeConnector.  *)
EXTENDS PipeConnector

MCKnown == {<<"a">>, <<"b">>}
MCNeedsArgs == {<<"b">>}
=============================================================================
