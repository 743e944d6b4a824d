------------------------------- MODULE MC_OIDC -------------------------------
EXTENDS OIDC

\* a user with an IdP account and a visitor without one
MCActors == {"alice", "mallory"}
MCHonest == {"alice"}

\* base64url strings: none contains ':'
MCTokens == {"t1", "t2", "t3"}
=============================================================================
