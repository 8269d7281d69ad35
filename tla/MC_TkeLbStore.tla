-------------------------- MODULE MC_TkeLbStore ---------------------------
EXTENDS TkeLbStore, TLC

CONSTANTS c1, c2, g1, g2, n1, n2, nil

MCOneCaller == {c1}
MCCallers == {c1, c2}
MCRegions == {g1, g2}
MCSubnets == {n1, n2}
=============================================================================
