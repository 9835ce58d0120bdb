----------------------------- MODULE MCRelayCli -----------------------------
(* RelayCli with two terminals, each started twice.                        *)
EXTENDS RelayCli, TLC

CONSTANTS t1, t2, home, away, f1, f2, eve, right, wrong

demo == <<"d">>

Run(mode, room, pw, path, dir) ==
  [mode |-> mode, room |-> room, pw |-> pw, path |-> path, dir |-> dir]

Cmds(c1, c2, old, full) == [cmd |-> t1 :> c1 @@ t2 :> c2, old |-> old, full |-> full]

\* The README's two terminals in one directory, with client.id there or not;
\* two users in their own directories, each with a client.id or about to make
\* one; two profiles in one directory; a room name that reaches the same room
\* by way of an ampersand; a mistyped password.  In the first and the fifth the
\* disk may get full in the middle of a line of pins.txt, of one key or of two.
Setups ==
  LET host(room, path, dir) == Run("host", room, right, path, dir)
      join(room, path, dir) == Run("connect", room, right, path, dir)
  IN {Cmds(host(demo, f1, home), join(demo, f1, home), {f1}, {home}),
      Cmds(host(demo, f1, home), join(demo, f1, home), {}, {}),
      Cmds(host(demo, f1, home), join(demo, f2, away), {f2}, {}),
      Cmds(host(demo, f1, home), join(demo, f2, home), {f1, f2}, {}),
      Cmds(host(demo, f1, home), join(<<"d", "&", "e">>, f2, home), {f1, f2}, {home}),
      Cmds(host(demo, f1, home), Run("connect", demo, wrong, f1, home), {}, {})}

Ids == {<<p, n>> : p \in {t1, t2}, n \in 1 .. 2} \cup {<<x, 0>> : x \in {f1, f2, eve}}

Keys == {demo, <<"d", "&", "e">>}
=============================================================================
