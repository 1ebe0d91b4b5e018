---------------------------- MODULE MCUserConfig -----------------------------
EXTENDS UserConfig

CONSTANTS r1, r2, old, new, none

Token(kid, key) == [kid |-> kid, key |-> key, rsa |-> TRUE, expired |-> FALSE]

\* Tokens of either key, without a kid, with a wrong signature, expired, of another algorithm.
MCTokens == {Token(old, old), Token(new, new), Token(none, new),
             [Token(old, new) EXCEPT !.expired = TRUE], [Token(old, old) EXCEPT !.rsa = FALSE]}

\* authn rotates from one key to the other; the last document holds no usable key.
Holding(set) == [k \in AllKids |-> IF k \in set THEN "RS256" ELSE "absent"]
MCDocuments == {Holding({old}), Holding({old, new}), [Holding({new}) EXCEPT ![old] = "other"],
                [Holding({}) EXCEPT ![none] = "other"]}
=============================================================================
