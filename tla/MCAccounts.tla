----------------------------- MODULE MCAccounts -----------------------------
(* Worlds for checking Accounts: each lets a few kinds of requests meet.   *)
EXTENDS Accounts, TLC

CONSTANTS u1, u2, p1, p2

Nobody == [u \in Users |-> None]
OneUser == [u \in Users |-> IF u = u1 THEN p1 ELSE None]

\* Sends of codes to one number, for as long as the window and a cooldown.
Sends == [ops |-> {"send"}, time |-> 4, home |-> Nobody, faults |-> TRUE,
          codes |-> <<<<p1, "SIGNUP">>, <<p1, "SIGNUP">>, <<p1, "SIGNUP">>>>]

\* Checks of one code, past its expiry.
Checks == [ops |-> {"send", "verify", "miss"}, time |-> 3, home |-> Nobody,
           faults |-> TRUE, codes |-> <<<<p1, "SIGNUP">>>>]

\* Logins, for as long as a lock.
Pins == [ops |-> {"login"}, time |-> 2, home |-> OneUser, faults |-> TRUE,
         codes |-> <<>>]

\* Logins with the old and the new PIN, and refreshes, around a reset.
Resets == [ops |-> {"send", "verify", "reset", "login", "refresh"}, time |-> 0, home |-> OneUser,
           faults |-> TRUE, codes |-> <<<<p1, "RESET">>>>]

\* Signups of one number, with two codes or the same one.
Signups == [ops |-> {"send", "verify", "signup"}, time |-> 1, home |-> Nobody,
            faults |-> TRUE, codes |-> <<<<p1, "SIGNUP">>, <<p1, "SIGNUP">>>>]

\* A change of number.
Changes == [ops |-> {"send", "verify", "change"}, time |-> 0, home |-> OneUser,
            faults |-> TRUE, codes |-> <<<<p1, "PHONE_CHANGE">>, <<p2, "PHONE_CHANGE">>>>]

\* A change to a number that signs up meanwhile: both codes of it are sent
\* together, so the world needs no time.
Taken == [ops |-> {"send", "verify", "signup", "change"}, time |-> 0, home |-> OneUser,
          faults |-> FALSE,
          codes |-> <<<<p1, "PHONE_CHANGE">>, <<p2, "PHONE_CHANGE">>, <<p2, "SIGNUP">>>>]

TheWorlds == {Sends, Checks, Pins, Resets, Signups, Changes, Taken}

\* Where two resets can present one session.
TwiceWorlds == {Resets}

Symmetric == Permutations(Handlers)
=============================================================================
