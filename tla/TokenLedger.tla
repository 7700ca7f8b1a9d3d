---------------------------- MODULE TokenLedger ----------------------------
(***************************************************************************)
(* What the refresh tokens of my-closet promise to their holders, with no  *)
(* request handler and no database call: a login opens a token; it is      *)
(* exchanged for a new one, in one piece, at most once; what has ended or  *)
(* is spent stays so.  Nothing is promised of a token that two requests    *)
(* refreshed at once.  RefreshTokens implements this module                *)
(* (RefreshTokens!TokenLedgerSpec).                                        *)
(***************************************************************************)
CONSTANTS
    Tokens,     \* identities of tokens
    None

VARIABLES
    right,      \* right[t]: what token t is good for
    from        \* from[t]: the token t was given for, None after a login

Right == {"none", "usable", "exchanging", "spent", "ended", "contested"}

LedgerInit ==
    /\ right = [t \in Tokens |-> "none"]
    /\ from = [t \in Tokens |-> None]

\* A login.
Open(t) ==
    /\ right[t] = "none"
    /\ right' = [right EXCEPT ![t] = "usable"]
    /\ UNCHANGED from

\* The one refresh of t is accepted.
Take(t) ==
    /\ right[t] = "usable"
    /\ right' = [right EXCEPT ![t] = "exchanging"]
    /\ UNCHANGED from

\* It ends in a new token, in t as it was, or in neither.
Give(t, x) ==
    /\ right[t] = "exchanging" /\ right[x] = "none"
    /\ right' = [right EXCEPT ![t] = "spent", ![x] = "usable"]
    /\ from' = [from EXCEPT ![x] = t]

GiveBack(t, outcome) ==
    /\ right[t] = "exchanging"
    /\ right' = [right EXCEPT ![t] = outcome]
    /\ UNCHANGED from

\* A logout, a reset, the reuse of another token, or time: some end together.
End(S) ==
    /\ right' = [t \in Tokens |-> IF t \in S THEN "ended" ELSE right[t]]
    /\ UNCHANGED from

\* Two requests refresh t at once, and each may get a new token.
Contest(t) ==
    /\ right[t] # "none"
    /\ right' = [right EXCEPT ![t] = "contested"]
    /\ UNCHANGED from

GiveContested(t, x) ==
    /\ right[t] = "contested" /\ right[x] = "none"
    /\ right' = [right EXCEPT ![x] = "usable"]
    /\ from' = [from EXCEPT ![x] = t]

LedgerNext ==
    \/ \E S \in SUBSET {t \in Tokens : right[t] = "usable"} : End(S)
    \/ \E t \in Tokens :
        \/ Open(t) \/ Take(t) \/ Contest(t)
        \/ \E outcome \in {"usable", "ended"} : GiveBack(t, outcome)
        \/ \E x \in Tokens : Give(t, x) \/ GiveContested(t, x)

LedgerSpec == LedgerInit /\ [][LedgerNext]_<<right, from>>

============================================================================
