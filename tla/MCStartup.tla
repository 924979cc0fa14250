---- MODULE MCStartup ----
EXTENDS Startup, TLC
CONSTANTS k1, k2, scanner, crasher1, selector1, selector2, h1, d1, d2, j1

MCDd2Constants == {k1}
MCRe9Constants == {k1, k2}
MCDestroyers == {d1, d2}
\* Stack destroyers are only ever counted, compared and written.
DestroyerSymmetry == Permutations(MCDestroyers)
MCCallSites == {j1}
MCHeader == <<h1>>
MCCrasher == <<crasher1>>
\* The game has one slow-path selector or two.
MCSelector == <<selector1>>
MCSelectors == <<selector1, selector2>>
====
