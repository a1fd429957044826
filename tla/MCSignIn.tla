------------------------------ MODULE MCSignIn ------------------------------
(* Instances of SignIn for TLC: environments, configs, and symmetry.       *)
EXTENDS SignIn, TLC
Bare == [user |-> NoUser, password |-> NoPassword]
NoEnv == {[p \in Procs |-> Bare]}

\* A server with a password of its own, and a command with a username of its own.
Variables ==
  NoEnv \cup
    {[p \in Procs |-> IF p \in Servers THEN [Bare EXCEPT !.password = w] ELSE [Bare EXCEPT !.user = u]]
       : w \in Passwords, u \in Users}

\* A config that holds a password names its user.
PlainConfigs == {c \in Config : c.password = NoPassword}
UsualConfigs == PlainConfigs \cup {c \in Config : c.auto /\ c.user # NoUser}

\* No definition tells one login, password or session from another.
Symmetry == Permutations(Users) \cup Permutations(Passwords) \cup Permutations(Sids)
=============================================================================
