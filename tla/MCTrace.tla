------------------------------- MODULE MCTrace --------------------------------
EXTENDS Trace

CONSTANTS f, d, c, h, b, p1, p2, o, s

\* One farm, cycle, harvest and batch, with two products and an order of both.
MCOn == (f :> <<>>) @@ (d :> <<f>>) @@ (c :> <<d>>) @@ (h :> <<c>>) @@ (b :> <<h>>)
        @@ (p1 :> <<b>>) @@ (p2 :> <<b>>) @@ (o :> <<p1, p2>>) @@ (s :> <<o>>)

\* Handlers are interchangeable goroutines.
Symmetry == Permutations(Handlers)
=============================================================================
