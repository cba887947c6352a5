------------------------------- MODULE Totals -------------------------------
(* Sums over sequences and powers, as recursive functions that can be proved *)
(* about.                                                                    *)
EXTENDS Integers

\* f[1] + ... + f[n]
Total(f, n) ==
  LET sum[i \in 0..n] == IF i = 0 THEN 0 ELSE sum[i - 1] + f[i] IN sum[n]

\* b to the power of n
Power(b, n) ==
  LET power[i \in 0..n] == IF i = 0 THEN 1 ELSE b * power[i - 1] IN power[n]

=============================================================================
