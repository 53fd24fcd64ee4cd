------------------------- MODULE MCNewsProjection -------------------------
(* Two producers: the Stable sync with three snapshots, a bootstrap with one. *)
EXTENDS NewsProjection
MCContent == [s1 |-> <<<<1, 1>>, <<2, 1>>>>,
              s2 |-> <<<<1, 2>>, <<3, 1>>>>,
              s3 |-> <<<<2, 1>>>>,
              c1 |-> <<<<2, 2>>, <<3, 1>>>>]
MCSource == [stable |-> <<"s1", "s2", "s3">>, boot |-> <<"c1">>]
=============================================================================
