------------------------- MODULE MCCircuitBreaker -------------------------
\* CircuitBreaker with three goroutines; they are model values.
EXTENDS CircuitBreaker

CONSTANTS p1, p2, p3
=============================================================================
