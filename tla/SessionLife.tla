----------------------------- MODULE SessionLife -----------------------------
(***************************************************************************)
(* What the session core promises for an account none of whose requests    *)
(* meets a fault and none of whose rotations overlaps another request: its *)
(* key is there before the users table says online and gone before it says *)
(* offline, a rotation comes back to the session it left, and no request   *)
(* finds a way from one stage to another but the ones below.               *)
(***************************************************************************)
CONSTANT User

VARIABLE life       \* the stage each account is in

Stage == {"offline", "opening", "online", "rotating", "closing", "disturbed"}

Init == life = [u \in User |-> "offline"]

Moves == {<<"offline", "opening">>, <<"opening", "online">>,     \* login
          <<"online", "rotating">>, <<"rotating", "online">>,    \* refresh
          <<"online", "closing">>, <<"closing", "offline">>}     \* logout

Move(u) == \E m \in Moves : life[u] = m[1] /\ life' = [life EXCEPT ![u] = m[2]]

\* From here on nothing is promised.
Disturb(u) == life' = [life EXCEPT ![u] = "disturbed"]

Next == \E u \in User : Move(u) \/ Disturb(u)

Spec == Init /\ [][Next]_life
=============================================================================
