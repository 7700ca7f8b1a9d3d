-------------------------- MODULE MCRefreshTokens --------------------------
(* Small instances of RefreshTokens for TLC, with the history variable that *)
(* one property needs.                                                     *)
EXTENDS RefreshTokens, TLC

CONSTANTS u1, u2, h1, h2, h3

VARIABLE
    cut     \* tokens issued when a phone change last revoked them all

MCInit == TokenInit /\ cut = 0

MCNext ==
    /\ TokenNext
    /\ cut' = IF \E h \in Handlers : serve[h].op = "changePhone" /\ RevokeAll(h)
              THEN Cardinality(Issued) ELSE cut

MCSpec == MCInit /\ [][MCNext]_<<tokenVars, cut>>

\* auth-login/spec.md:96: after a phone change all refresh tokens issued
\* before it are invalid and the user has to log in again.  No token issued
\* after the change was exchanged for one issued before.
ChangeEndsSessions ==
    \A x \in Live : x > cut /\ token[x].parent # None => token[x].parent > cut

Interchangeable == Permutations(Handlers) \cup Permutations(Users)
============================================================================
