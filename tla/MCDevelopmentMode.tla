-------------------------- MODULE MCDevelopmentMode -------------------------
EXTENDS DevelopmentMode

Line(p, q) == [product |-> p, quantity |-> q]

\* Two products share a SKU and one has none.  The last two references ask
\* for an unknown product and for nothing of a known one, in either order.
Lines == [a |-> <<Line("p", 1), Line("q", 2)>>,
          u |-> <<Line("x", 1), Line("p", 0)>>,
          m |-> <<Line("p", 0), Line("x", 1)>>]

SmallDictionary == [p |-> "s", q |-> "s", x |-> "none"]
=============================================================================
