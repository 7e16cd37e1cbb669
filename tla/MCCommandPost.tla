--------------------------- MODULE MCCommandPost ----------------------------
(* Instances of CommandPost and Enrolment for TLC.                         *)
EXTENDS Enrolment, TLC

\* Neither the transactions nor the teams have names of their own.
Symmetry == Permutations(Txns) \cup Permutations(Teams)

Wish(kind, subject, incident, team, cells) ==
    [kind |-> kind, subject |-> subject, incident |-> incident, team |-> team, cells |-> cells]

\* Each team's cell may be taken over by the other, and one assignment revoked.
AllWishes ==
    {Wish("declare", 0, 0, NoTeam, {}),
     Wish("grid", 1, 1, NoTeam, {}),
     Wish("revoke", 1, 0, NoTeam, {}),
     Wish("team", 1, 2, NoTeam, {})}
    \cup {Wish("assign", 0, 1, team, Cells) : team \in Teams}

\* Once requests overlap, no property of the passing run reads what was answered.
View ==
    <<tableVars, content, pc, draft, seq, number, alone,
      IF alone THEN answered ELSE {}, commandVars, enrolVars>>
=============================================================================
