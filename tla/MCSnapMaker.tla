----------------------------- MODULE MCSnapMaker -----------------------------
(* Every behaviour over a few paths, alone and paired with a plain exit.      *)
EXTENDS SnapMaker

CONSTANTS d0, d1, d2, d3, ro, null, res, out

MCPages == {d0, d1, d2, d3, ro, null, res, out}

Paths == {<<>>, <<d1, d0>>, <<d2, d1, d2>>, <<d1, d2, d3>>, <<d1, ro>>,
          <<null>>, <<d1, res>>, <<out>>}

At(pc, regs) == [pc |-> pc, regs |-> regs]
Behaviour(path, end, state) == [touches |-> path, end |-> end, state |-> state]

Endings ==
    {<<"exit", At("end", r)>> : r \in {0, 1}}
      \cup {<<"runaway", At("loop", r)>> : r \in {0, 1}}
      \cup {<<s, NoState>> : s \in Signals \ {"SegvCantWrite"}}
      \cup {<<s, NoState>> : s \in {"syscall", "_exit(0)"}}

Behaviours == {Behaviour(p, e[1], e[2]) : p \in Paths, e \in Endings}

MCPrograms ==
    {{b} : b \in Behaviours}
      \cup {{b, Behaviour(<<d1, d0>>, "exit", At("end", 0))} : b \in Behaviours}
=============================================================================
