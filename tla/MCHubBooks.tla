----------------------------- MODULE MCHubBooks -----------------------------
\* The values of the constants of HubBooks: two runs and a call on two peers,
\* two assignees, two members of the token table, a config of each kind,
\* two ids with an alias, two cards and room for one profile.
EXTENDS HubBooks

CONSTANTS a, b, r1, r2, t1, p, q, o, m, n, jf, y, t, d, u, e, c, i1, i2, nick, yes, no
=============================================================================
