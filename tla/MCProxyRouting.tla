--------------------------- MODULE MCProxyRouting ---------------------------
(* A small instance of ProxyRouting. *)
EXTENDS ProxyRouting, TLC

\* The model's name at the front and at the end of the body.
BodiesMC == {<<"key", "value", "text">>, <<"text", "text", "text", "key", "value">>}
=============================================================================
