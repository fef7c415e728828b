----------------------------- MODULE MCStartup -----------------------------
(* Times in front of a carry into each field, the leap day among them, and a *)
(* time in the middle of a minute.                                           *)
EXTENDS Startup

MCInstants == {<<22, 12, 31, 23, 59, 59>>,
               <<24, 2, 28, 23, 59, 58>>,
               <<23, 4, 30, 23, 59, 59>>,
               <<22, 9, 6, 19, 59, 59>>,
               <<22, 9, 6, 16, 27, 59>>,
               <<22, 9, 6, 16, 27, 9>>}
=============================================================================
