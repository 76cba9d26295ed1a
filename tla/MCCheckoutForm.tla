--------------------------- MODULE MCCheckoutForm ---------------------------
\* Small instances of CheckoutForm: two browsers, one of them loaded again.
EXTENDS CheckoutForm

CONSTANTS a, b, p, q

MCCallers == {<<a, 1>>, <<b, 1>>, <<b, 2>>}
MCTyped == [c \in Callers |-> IF c = <<b, 1>> THEN {p, q} ELSE {p}]
=============================================================================
