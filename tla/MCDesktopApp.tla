---------------------------- MODULE MCDesktopApp ----------------------------
\* The values of the constants of DesktopApp: two commands and a monitor that
\* know of two children at a time, three messages and a pool for two of them, one
\* peer, two settings with two values, two calls of the admin page.
EXTENDS DesktopApp

CONSTANTS b1, c1, c2, m1, k1, k2, v0, v1, s1, r1, r2

MCDefault == [k \in Keys |-> v0]
=============================================================================
