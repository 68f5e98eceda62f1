---- MODULE Sums ----
\* The sum of the values of a function.
EXTENDS Integers, Folds

SumOf(f) ==
    MapThenFoldSet(LAMBDA x, y : x + y, 0, LAMBDA x : f[x], LAMBDA s : CHOOSE x \in s : TRUE,
                   DOMAIN f)
====
