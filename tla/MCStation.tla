----------------------------- MODULE MCStation -----------------------------
(* Six positions a pass, a page of two harmonics, phases of 30 degrees.    *)
EXTENDS Station

Turns(n) == {i * (FULL \div n) : i \in 0 .. n - 1}

MCIdentity == [amp |-> <<0, 0>>, phase |-> <<0, 0>>]

MCPages ==
  LET Curves(amps, n) == ({0} \X {0}) \cup (amps \X Turns(n))
  IN  {[amp |-> <<h1[1], h2[1]>>, phase |-> <<h1[2], h2[2]>>] :
         h1 \in Curves({1000, 5700}, 12), h2 \in Curves({300}, 6)}

MCUnits ==
  LET sound == Part(<<1000, 0>>, <<30000, 0>>, 0, 50)
      turned(off) == [sound EXCEPT !.offset = off]
  IN  {sound,
       [turned(180000) EXCEPT !.noise = 2, !.shift = 10],
       [turned(30000) EXCEPT !.landing = 20, !.creep = 10],
       Behind(sound, <<10, 4>>, <<120000, 0>>),
       [sound EXCEPT !.noise = 40],
       [sound EXCEPT !.hyst = 120],
       Part(<<1000, 300>>, <<30000, 0>>, 0, 50),
       Part(<<5700, 0>>, <<30000, 0>>, 0, 50),
       [Attack(sound, 30, 1) EXCEPT !.shift = 10],
       [Attack(sound, 60, 2) EXCEPT !.noise = 2],
       Behind(Attack(sound, 40, 1), <<14, 0>>, <<0, 0>>)}
=============================================================================
