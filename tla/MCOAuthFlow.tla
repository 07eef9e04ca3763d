----------------------------- MODULE MCOAuthFlow -----------------------------
(* A click, an upload, a listing and a restore that compete for two codes.             *)
EXTENDS OAuthFlow
=============================================================================
