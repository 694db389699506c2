-------------------------- MODULE PasswordHistory --------------------------
(***************************************************************************)
(* Changes of one user's password against the passwords it had before      *)
(* (user_service.update_password and reset_password,                       *)
(* admin/utils/password_security.py).  The history is read before the row  *)
(* is locked by the UPDATE; everything is committed at the end.            *)
(***************************************************************************)
EXTENDS Integers, Sequences, FiniteSets, TLC

CONSTANTS
    Words,          \* passwords that satisfy the rules for length and characters
    CheckCount,     \* USER_PASSWORD_HISTORY_CHECK_COUNT
    AtOnce,         \* bound: changes in progress at the same time
    MaxChanges      \* bound: changes in all

VARIABLES
    password,       \* the committed row's
    past,           \* committed history rows, newest first
    changes,        \* changes in progress
    (* history *)
    asked,          \* changes begun
    beside          \* pairs of changes that were in progress together

vars == <<password, past, changes, asked, beside>>

\* crud_user.add sets the first password and records none.
Init ==
    /\ password \in Words /\ past = <<>>
    /\ changes = {} /\ asked = 0 /\ beside = {}

Become(c, d) == changes' = (changes \ {c}) \union {d}
Drop(c) == changes' = changes \ {c}
Recent(s) == {s[i].word : i \in DOMAIN SubSeq(s, 1, IF Len(s) < CheckCount THEN Len(s) ELSE CheckCount)}

\* The row is read, and with it the old password the owner must know; an
\* administrator need not.
Ask(word) ==
    /\ asked < MaxChanges /\ Cardinality(changes) < AtOnce
    /\ asked' = asked + 1
    /\ beside' = beside \union {{asked + 1, c.n} : c \in changes}
    /\ changes' = changes \union {[n |-> asked + 1, word |-> word, at |-> "validate"]}
    /\ UNCHANGED <<password, past>>

\* Variant with a bug: the newest row is not compared.
ValidateOlder(c) ==
    /\ c.at = "validate"
    /\ IF past # <<>> /\ c.word \in Recent(Tail(past)) THEN Drop(c)
       ELSE Become(c, [c EXCEPT !.at = "update"])
    /\ UNCHANGED <<password, past, asked, beside>>

\* validate_new_password: none of the newest CheckCount rows may match.
Validate(c) ==
    /\ c.at = "validate"
    /\ IF c.word \in Recent(past) THEN Drop(c) ELSE Become(c, [c EXCEPT !.at = "update"])
    /\ UNCHANGED <<password, past, asked, beside>>

\* reset_password's UPDATE waits for another change's.
Update(c) ==
    /\ c.at = "update"
    /\ \A d \in changes : d.at # "record"
    /\ Become(c, [c EXCEPT !.at = "record"])
    /\ UNCHANGED <<password, past, asked, beside>>

\* save_password_history inserts the password the updated row now has, and
\* the transaction commits.
Record(c) ==
    /\ c.at = "record"
    /\ password' = c.word
    /\ past' = <<[word |-> c.word, by |-> c.n]>> \o past
    /\ Drop(c)
    /\ UNCHANGED <<asked, beside>>

Abandon(c) == Drop(c) /\ UNCHANGED <<password, past, asked, beside>>

Next ==
    \/ \E w \in Words : Ask(w)
    \/ \E c \in changes : Validate(c) \/ Update(c) \/ Record(c) \/ Abandon(c)

-----------------------------------------------------------------------------
\* validate_new_password: of the last CheckCount passwords and the one that
\* follows them no two are the same, unless their changes ran together.
NoRecentReuse ==
    \A i, j \in DOMAIN past :
        (i < j /\ j <= i + CheckCount /\ past[i].word = past[j].word) =>
            {past[i].by, past[j].by} \in beside

=============================================================================
