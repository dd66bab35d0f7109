----------------------------- MODULE MCOtpLogin -----------------------------
(* Small instances of OtpLogin. *)
EXTENDS OtpLogin, TLC

Symmetry ==
    Permutations(Senders) \union Permutations(Verifiers)

\* States that differ only in how an ended request ended, in the codes that SingleUse
\* asks about, in why a code is spent that nobody holds, or in what a login has seen
\* beside the phone without an owner, have the same future and satisfy the same
\* invariants.
Held == {row.code} \union {obj[r].code : r \in Requests}
View ==
    <<otpVars, userVars, rate, attempts, obj, guess, user,
      [r \in Requests |-> IF pc[r] \in Ended THEN "ended" ELSE pc[r]],
      history.retired \union expired, expired \intersect Held,
      history.sends, history.misses,
      [v \in Verifiers |-> IF pc[v] \in {"read", "decide", "delete"}
                           THEN history.late[v] ELSE {}],
      [v \in Verifiers |-> IF NoUser \in history.owners[v]
                           THEN {NoUser} ELSE history.owners[v]]>>
=============================================================================
